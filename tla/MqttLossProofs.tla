---------------------------- MODULE MqttLossProofs ----------------------------
(***************************************************************************)
(* Proofs about MqttSystem: no acknowledged message is lost and no slot of *)
(* the QoS 2 table leaks, under every packet id that the broker has not    *)
(* used again after a retransmission.  The invariant follows a message     *)
(* from the broker's inflight table through down, the client's stack and   *)
(* up, back to the broker, and a subscription the other way round.  The    *)
(* refinement rests on it: client and broker implement QosContract.        *)
(***************************************************************************)
EXTENDS MqttAckProofs

-----------------------------------------------------------------------------
(* Subscriptions: a message comes only when its handler is there, or when  *)
(* MQTTSubscribe has not returned but its SUBACK is gone.                  *)

Requests == {p \in UpPacket : p.type = "SUBSCRIBE"}
Grants == {p \in DownPacket : p.type = "SUBACK"}

Known(t) == t \in unheard \/ \E k \in DOMAIN messageHandlers : messageHandlers[k] = t

Subscribes(s, t) == \E k \in DOMAIN s : s[k].op = "subscribe" /\ s[k].topic = t
Subscribing(t) == Subscribes(stack, t)

\* The call that subscribes to t will not find its SUBACK any more.
Given(t) ==
    t \in unheard \/ (Subscribing(t) /\ Clear(up, Requests) /\ Clear(down, Grants))

\* What NoLoss says of an acknowledged message.
Done(m) == m \in handled \/ m \in overflowed \/ Given(TopicOf[m])

RequestsKnown ==
    \A k \in DOMAIN up : up[k] \in Requests =>
        \/ Known(up[k].body)
        \/ /\ Subscribing(up[k].body)
           /\ \A j \in DOMAIN up : up[j] \in Requests => j <= k

\* Packet id i is in use.
Open(i) == inflight[i].phase # "free"

\* The topics of what the broker may still publish, or publish again.
Served(t) ==
    t \in subs \/ \E i \in BrokerIds : Open(i) /\ TopicOf[inflight[i].msg] = t

SubsKnown == \A t : Served(t) => Known(t) \/ (Subscribing(t) /\ Clear(up, Requests))

PublishesKnown ==
    \A k \in DOMAIN down : down[k].type = "PUBLISH" =>
        \/ Known(TopicOf[down[k].body])
        \/ /\ Subscribing(TopicOf[down[k].body]) /\ Clear(up, Requests)
           /\ \A j \in DOMAIN down : down[j] \in Grants => j < k

FramesKnown ==
    \A k \in DOMAIN stack : stack[k] \in DeliverFrame =>
        Known(TopicOf[stack[k].pkt.body]) \/ Given(TopicOf[stack[k].pkt.body])

SubscribeInv == RequestsKnown /\ SubsKnown /\ PublishesKnown /\ FramesKnown

-----------------------------------------------------------------------------
(* Messages under packet id i *)

Pubs(i) == {p \in DownPacket : p.type = "PUBLISH" /\ p.id = i}
Rels(i) == {p \in DownPacket : p.type = "PUBREL" /\ p.id = i}
Recs(i) == {p \in UpPacket : p.type \in {"PUBACK", "PUBREC"} /\ p.id = i}
Comps(i) == {p \in UpPacket : p.type = "PUBCOMP" /\ p.id = i}
Cycles(i) == {f \in DeliverFrame : f.pkt.id = i}

\* Nothing, or one thing only, is on the way between the broker's sending and
\* its hearing of it.
Empty(i) ==
    /\ Clear(down, Pubs(i) \cup Rels(i)) /\ Clear(up, Recs(i) \cup Comps(i))
    /\ Clear(stack, Cycles(i))

Single(i) ==
    /\ Lone(down, Pubs(i) \cup Rels(i)) /\ Lone(up, Recs(i) \cup Comps(i))
    /\ Lone(stack, Cycles(i))
    /\ Clear(down, Pubs(i) \cup Rels(i)) \/ Clear(up, Recs(i) \cup Comps(i))
    /\ Clear(down, Pubs(i) \cup Rels(i)) \/ Clear(stack, Cycles(i))
    /\ Clear(up, Recs(i) \cup Comps(i)) \/ Clear(stack, Cycles(i))

\* Without a retransmission an id holds one thing at a time.
Clean(i) == i \notin retried => Single(i) /\ (~Open(i) => Empty(i))

\* The handshake goes on in order, also with retransmissions.
InPhase(i) ==
    /\ inflight[i].phase = "pub" => Clear(down, Rels(i)) /\ Clear(up, Comps(i))
    /\ \A j, k \in DOMAIN down : down[j] \in Rels(i) /\ down[k] \in Pubs(i) => k < j
    /\ Clear(up, Comps(i)) \/ Clear(down, Pubs(i))

\* What is on the way under i is the message in flight.
SameMessage(i) ==
    /\ \A k \in DOMAIN down : down[k] \in Pubs(i) =>
         /\ down[k].val = 2 => Open(i)
         /\ Open(i) => inflight[i].msg = down[k].body
    /\ \A k \in DOMAIN stack : stack[k] \in Cycles(i) /\ Open(i) =>
         inflight[i].msg = stack[k].pkt.body

\* What is acknowledged has been handled.
AnsweredDone(i) == Open(i) /\ ~Clear(up, Recs(i)) => Done(inflight[i].msg)

PipeOf(i) == Clean(i) /\ InPhase(i) /\ SameMessage(i) /\ AnsweredDone(i)

\* The cycle on top has not looked for a handler yet.
FreshTop(s, b) ==
    /\ s # <<>> /\ s[Len(s)] \in DeliverFrame /\ ~s[Len(s)].running
    /\ s[Len(s)].slot = 1 /\ b = s[Len(s)].pkt.body
Fresh == FreshTop(stack, readbuf)

SlotTaken(i) ==
    Recorded(i) =>
        /\ Open(i) /\ QosOf[inflight[i].msg] = 2
        /\ Done(inflight[i].msg) \/ (Fresh /\ Top.pkt.id = i)
        /\ Clear(up, Comps(i))

CyclesDone(i) ==
    \A k \in DOMAIN stack : stack[k] \in Cycles(i) =>
        Done(stack[k].pkt.body) \/ (k = Len(stack) /\ Fresh)

TableOf(i) == SlotTaken(i) /\ CyclesDone(i)

TableIds == \A s \in Slots : incoming_qos2_messages[s] \in BrokerIds \cup {0}

PublishesRight ==
    \A k \in DOMAIN down : down[k].type = "PUBLISH" =>
        /\ down[k].val = QosOf[down[k].body]
        /\ down[k].val = 2 => down[k].id \in BrokerIds

AckedDone == \A m \in acked : Done(m)

LossInv ==
    /\ SubscribeInv
    /\ TableIds
    /\ PublishesRight
    /\ \A i \in BrokerIds \ reused : PipeOf(i) /\ (Heard => TableOf(i))
    /\ AckedDone

-----------------------------------------------------------------------------
(* The stack *)

\* t holds no cycle that s does not hold in the same place.
Calm(s, t) ==
    \A k \in DOMAIN t : t[k] \in DeliverFrame =>
        k \in DOMAIN s /\ s[k] \in DeliverFrame /\ t[k].pkt = s[k].pkt

\* The subscriptions of s go on in t.
GoesOn(s, t) == \A topic : Subscribes(s, topic) => Subscribes(t, topic)

\* All but the one of the top frame, if it is one.
GoesOnBelow(s, t) ==
    \A topic : Subscribes(s, topic) =>
        Subscribes(t, topic) \/ (s[Len(s)].op = "subscribe" /\ s[Len(s)].topic = topic)

\* A call returns: its frame goes.
LEMMA PopShape ==
    ASSUME NEW s \in Seq(Frame), NEW t, t = SubSeq(s, 1, Len(s) - 1)
    PROVE  /\ Calm(s, t)
           /\ s # <<>> => Len(t) = Len(s) - 1
           /\ GoesOnBelow(s, t)
<1>1. Len(s) \in Nat /\ DOMAIN s = 1..Len(s) /\ s \in [1..Len(s) -> Frame]
  BY LenProperties
<1>2. CASE s = <<>>
  <2>1. DOMAIN s = {} /\ Len(s) = 0
    BY <1>1, <1>2, EmptySeq
  <2>2. Len(s) - 1 \in Int /\ Len(s) - 1 <= Len(s)
    BY <1>1
  <2>3. \A k \in DOMAIN t : k \in DOMAIN s
    BY <2>2, PrefixType
  <2> QED
    BY <1>2, <2>1, <2>3 DEF Calm, Subscribes, GoesOnBelow
<1>3. CASE s # <<>>
  <2>1. Len(s) \in Nat \ {0}
    BY <1>1, <1>3, EmptySeq
  <2>2. \A i \in 1..(Len(s) - 1) : s[i] \in Frame
    BY <1>1
  <2>3. /\ Len(t) = Len(s) - 1 /\ t \in Seq(Frame)
        /\ \A i \in 1..(Len(s) - 1) : t[i] = s[i]
    BY <1>1, <2>1, <2>2, SubSeqProperties
  <2>4. DOMAIN t = 1..(Len(s) - 1)
    BY <2>3, LenProperties
  <2>5. \A k : k \in DOMAIN t <=> k \in DOMAIN s /\ k # Len(s)
    BY <1>1, <2>1, <2>4
  <2>6. \A k \in DOMAIN t : t[k] = s[k]
    BY <2>3, <2>4
  <2>7. Calm(s, t)
    BY <2>5, <2>6 DEF Calm
  <2>8. ASSUME NEW topic, Subscribes(s, topic)
        PROVE  Subscribes(t, topic) \/ (s[Len(s)].op = "subscribe" /\ s[Len(s)].topic = topic)
    <3>1. PICK k \in DOMAIN s : s[k].op = "subscribe" /\ s[k].topic = topic
      BY <2>8 DEF Subscribes
    <3> QED
      BY <2>5, <2>6, <3>1 DEF Subscribes
  <2> QED
    BY <2>3, <2>7, <2>8 DEF GoesOnBelow
<1> QED
  BY <1>2, <1>3

\* A failed cycle ends MQTTYield, which subscribes to nothing.
LEMMA AfterCycleShape ==
    ASSUME NEW s \in Seq(Frame), NEW ok
    PROVE  Calm(s, AfterCycle(s, ok)) /\ GoesOn(s, AfterCycle(s, ok))
<1>1. PICK t : t = SubSeq(s, 1, Len(s) - 1)
  OBVIOUS
<1>2. Calm(s, t) /\ GoesOnBelow(s, t)
  BY <1>1, PopShape
<1>3. CASE ~ok /\ s[Len(s)].op = "yield"
  <2>1. AfterCycle(s, ok) = t
    BY <1>1, <1>3 DEF AfterCycle
  <2> QED
    BY <1>2, <1>3, <2>1 DEF GoesOn, GoesOnBelow
<1>4. CASE ~(~ok /\ s[Len(s)].op = "yield")
  <2>1. AfterCycle(s, ok) = s
    BY <1>4 DEF AfterCycle
  <2> QED
    BY <2>1 DEF Calm, GoesOn
<1> QED
  BY <1>3, <1>4

\* A call pushes its frame.
LEMMA PushShape ==
    ASSUME NEW s \in Seq(Frame), NEW f
    PROVE  /\ f \notin DeliverFrame => Calm(s, Append(s, f))
           /\ GoesOn(s, Append(s, f))
           /\ f.op = "subscribe" => Subscribes(Append(s, f), f.topic)
           /\ DOMAIN Append(s, f) = 1..(Len(s) + 1) /\ Len(s) \in Nat
           /\ \A k \in DOMAIN s : Append(s, f)[k] = s[k]
           /\ Append(s, f)[Len(s) + 1] = f
           /\ \A k \in DOMAIN Append(s, f) : k \in DOMAIN s \/ k = Len(s) + 1
<1>1. Len(s) \in Nat /\ DOMAIN s = 1..Len(s)
  BY LenProperties
<1>2. PICK t : t = Append(s, f)
  OBVIOUS
<1>3. /\ DOMAIN t = 1..(Len(s) + 1)
      /\ \A k \in 1..Len(s) : t[k] = s[k]
      /\ t[Len(s) + 1] = f
  BY <1>1, <1>2
<1>4. \A k \in DOMAIN t : k \in DOMAIN s \/ k = Len(s) + 1
  BY <1>1, <1>3
<1>5. \A k \in DOMAIN s : k \in DOMAIN t /\ t[k] = s[k]
  BY <1>1, <1>3
<1>6. Len(s) + 1 \in DOMAIN t
  BY <1>1, <1>3
<1>7. f \notin DeliverFrame => Calm(s, t)
  BY <1>3, <1>4, <1>5 DEF Calm
<1>8. GoesOn(s, t)
  BY <1>5 DEF GoesOn, Subscribes
<1>9. f.op = "subscribe" => Subscribes(t, f.topic)
  BY <1>3, <1>6 DEF Subscribes
<1> QED
  BY <1>1, <1>2, <1>3, <1>4, <1>5, <1>7, <1>8, <1>9

\* A frame changes, but not the packet it delivers or the topic it is for.
LEMMA ReplaceShape ==
    ASSUME NEW s \in Seq(Frame), NEW i \in DOMAIN s, NEW f,
           f \in DeliverFrame => s[i] \in DeliverFrame /\ f.pkt = s[i].pkt,
           s[i].op = "subscribe" => f.op = "subscribe" /\ f.topic = s[i].topic
    PROVE  Calm(s, [s EXCEPT ![i] = f]) /\ GoesOn(s, [s EXCEPT ![i] = f])
<1>1. PICK t : t = [s EXCEPT ![i] = f]
  OBVIOUS
<1>2. DOMAIN t = DOMAIN s /\ t[i] = f /\ \A k \in DOMAIN s : k # i => t[k] = s[k]
  BY <1>1, LenProperties
<1>3. Calm(s, t)
  BY <1>2 DEF Calm
<1>4. GoesOn(s, t)
  <2>. SUFFICES ASSUME NEW topic, Subscribes(s, topic) PROVE Subscribes(t, topic)
    BY DEF GoesOn
  <2>1. PICK k \in DOMAIN s : s[k].op = "subscribe" /\ s[k].topic = topic
    BY DEF Subscribes
  <2>2. t[k].op = "subscribe" /\ t[k].topic = topic
    BY <1>2, <2>1
  <2> QED
    BY <1>2, <2>1, <2>2 DEF Subscribes
<1> QED
  BY <1>1, <1>3, <1>4

\* What a call does to the stack before it pushes its own frame.
LEMMA CallerShape ==
    ASSUME ClientTypeOK, ClientAssumption, NEW op, AppMayCall(op)
    PROVE  /\ CallerStack \in Seq(Frame)
           /\ Calm(stack, CallerStack) /\ GoesOn(stack, CallerStack)
           /\ ~Fresh
<1>0. CallerStack \in Seq(Frame)
  BY CallerOK DEF StackOK
<1>1. CASE stack = <<>>
  BY <1>0, <1>1 DEF CallerStack, Calm, GoesOn, Fresh, FreshTop
<1>2. CASE stack # <<>>
  <2>1. /\ Top \in DeliverFrame /\ Len(stack) \in DOMAIN stack /\ Top = stack[Len(stack)]
        /\ Top.running
    BY <1>2, TopIndex DEF AppMayCall, InHandler, Delivering
  <2>2. PICK f : f = [Top EXCEPT !.left = @ - 1]
    OBVIOUS
  <2>3. f.op = "deliver" /\ f.pkt = Top.pkt /\ Top.op = "deliver"
    BY <2>1, <2>2 DEF DeliverFrame
  <2>4. CallerStack = [stack EXCEPT ![Len(stack)] = f]
    BY <1>2, <2>2 DEF CallerStack, Top
  <2>5. stack \in Seq(Frame)
    BY DEF ClientTypeOK
  <2>6. /\ Calm(stack, [stack EXCEPT ![Len(stack)] = f])
        /\ GoesOn(stack, [stack EXCEPT ![Len(stack)] = f])
    BY <2>1, <2>3, <2>5, ReplaceShape
  <2>7. ~Fresh
    BY <2>1 DEF Fresh, FreshTop
  <2> QED
    BY <1>0, <2>4, <2>6, <2>7
<1> QED
  BY <1>1, <1>2

\* Calm and GoesOn are transitive and reflexive.
LEMMA ShapeTrans ==
    ASSUME NEW s, NEW t, NEW u
    PROVE  /\ Calm(s, t) /\ Calm(t, u) => Calm(s, u)
           /\ GoesOn(s, t) /\ GoesOn(t, u) => GoesOn(s, u)
           /\ Calm(s, s) /\ GoesOn(s, s)
  BY DEF Calm, GoesOn

-----------------------------------------------------------------------------
(* What a step of the client does *)

\* up grows by q at most, if the broker can read it, and by garbage.
UpGrows(q) ==
    /\ \A k \in DOMAIN up' :
         \/ k \in DOMAIN up /\ up'[k] = up[k]
         \/ k = Len(up) + 1 /\ up'[k] = q /\ Heard
         \/ up'[k] = Garbage
    /\ Heard' => Heard

\* A step that leaves up alone.
LEMMA SameGrows ==
    ASSUME up' = up, link' = link, NEW q
    PROVE  UpGrows(q)
  BY DEF UpGrows, Heard

\* sendPacket writes its packet at most once, and only if it is heard.
LEMMA SendGrows ==
    ASSUME LinkTypeOK, LinkAssumption, ClientAssumption, NEW p \in UpPacket, NEW outcome,
           NEW late, sendPacket(p, outcome, late), link' = link
    PROVE  UpGrows(p)
<1>0. Garbage \in UpPacket
      /\ \/ up' = up
         \/ Heard /\ up' = Append(up, p)
         \/ Heard /\ up' = Append(up, Garbage)
         \/ Heard /\ up' = Append(Append(up, p), Garbage)
  BY SendCases
<1>1. Heard' => Heard
  BY SendHeard
<1>2. up \in Seq(UpPacket)
  BY DEF LinkTypeOK
<1>3. PICK g \in UpPacket : g = Garbage
  BY <1>0
<1>4. ASSUME NEW s \in Seq(UpPacket), NEW q \in UpPacket, NEW k \in DOMAIN Append(s, q)
      PROVE  \/ (k \in DOMAIN s /\ Append(s, q)[k] = s[k])
             \/ k = Len(s) + 1 /\ Append(s, q)[k] = q
  BY <1>4, AppendProperties, LenProperties
<1>5. ASSUME NEW k \in DOMAIN up'
      PROVE  \/ k \in DOMAIN up /\ up'[k] = up[k]
             \/ k = Len(up) + 1 /\ up'[k] = p /\ Heard
             \/ up'[k] = Garbage
  <2>1. CASE up' = up
    BY <1>5, <2>1
  <2>2. CASE Heard /\ up' = Append(up, p)
    BY <1>2, <1>4, <1>5, <2>2
  <2>3. CASE Heard /\ up' = Append(up, g)
    BY <1>2, <1>3, <1>4, <1>5, <2>3
  <2>4. CASE Heard /\ up' = Append(Append(up, p), g)
    <3>1. PICK t : t = Append(up, p)
      OBVIOUS
    <3>2. t \in Seq(UpPacket)
      BY <1>2, <3>1, AppendProperties
    <3>3. (k \in DOMAIN t /\ up'[k] = t[k]) \/ up'[k] = g
      BY <1>4, <1>5, <2>4, <3>1, <3>2
    <3>4. k \in DOMAIN t => \/ k \in DOMAIN up /\ t[k] = up[k]
                            \/ k = Len(up) + 1 /\ t[k] = p
      BY <1>2, <1>4, <3>1
    <3> QED
      BY <1>3, <2>4, <3>3, <3>4
  <2> QED
    BY <1>0, <1>3, <2>1, <2>2, <2>3, <2>4
<1> QED
  BY <1>1, <1>5 DEF UpGrows

\* keepalive writes at most a PINGREQ.
LEMMA KeepaliveGrows ==
    ASSUME LinkTypeOK, LinkAssumption, ClientAssumption, NEW outstanding, NEW outcome,
           keepalive(outstanding, outcome), link' = link
    PROVE  UpGrows(Bare("PINGREQ"))
<1>1. CASE PingDue(outstanding)
  <2>1. Bare("PINGREQ") \in UpPacket
    BY DEF Bare, Ack, MkPacket, UpPacket, Packet, PacketType, LinkAssumption
  <2>2. PICK p \in UpPacket : p = Bare("PINGREQ")
    BY <2>1
  <2>3. sendPacket(p, outcome, TRUE)
    BY <1>1, <2>2 DEF keepalive
  <2>4. UpGrows(p)
    BY <2>3, SendGrows
  <2> QED
    BY <2>2, <2>4
<1>2. CASE ~PingDue(outstanding)
  BY <1>2, SameGrows DEF keepalive
<1> QED
  BY <1>1, <1>2

\* Subscriptions and histories are never taken back, and only a call that the
\* application makes asks for a subscription.
Subscription(s) ==
    /\ \A t : Known(t) => Known(t)'
    /\ unheard \subseteq unheard' /\ handled \subseteq handled' /\ overflowed \subseteq overflowed'
    /\ \A t : Subscribing(t) =>
         Subscribes(s, t) \/ t \in unheard' \/ (Known(t)' /\ ~Clear(down, Grants))
    /\ \A k \in DOMAIN up' : up'[k] \in Requests =>
         \/ k \in DOMAIN up /\ up'[k] = up[k]
         \/ /\ stack = <<>> /\ k = Len(up) + 1
            /\ \E t : up'[k].body = t /\ (Known(t)' \/ Subscribes(s, t))

\* A step that neither reads nor answers what the broker publishes.
Quiet ==
    /\ Heard' => Heard
    /\ Calm(stack, stack')
    /\ \A k \in DOMAIN up' : up'[k].type \in {"PUBACK", "PUBREC", "PUBCOMP"} =>
         k \in DOMAIN up /\ up'[k] = up[k]
    /\ \/ down' = down
       \/ /\ down # <<>> /\ down' = Tail(down)
          /\ Head(down).type \notin {"PUBLISH", "PUBREL"}
    /\ UNCHANGED incoming_qos2_messages
    /\ Fresh => \/ Top.pkt.body \in handled'
                \/ /\ Fresh' /\ Len(stack') = Len(stack)
                   /\ stack'[Len(stack)].pkt = Top.pkt

\* A step that adds nothing the broker has to answer but q.
LEMMA GrowsQuiet ==
    ASSUME NEW q, UpGrows(q), q.type \notin {"SUBSCRIBE", "garbage"}
    PROVE  /\ Heard' => Heard
           /\ \A k \in DOMAIN up' : up'[k] \in Requests => k \in DOMAIN up /\ up'[k] = up[k]
           /\ q.type \notin {"PUBACK", "PUBREC", "PUBCOMP"} =>
                \A k \in DOMAIN up' : up'[k].type \in {"PUBACK", "PUBREC", "PUBCOMP"} =>
                  k \in DOMAIN up /\ up'[k] = up[k]
<1>1. Garbage.type = "garbage"
  BY DEF Garbage, Bare, Ack, MkPacket
<1> QED
  BY <1>1 DEF UpGrows, Requests

\* Nothing but the stack and what is in flight changes.
LEMMA SameSubscription ==
    ASSUME UNCHANGED <<messageHandlers, unheard, overflowed>>, handled \subseteq handled',
           GoesOn(stack, stack'), NEW q, UpGrows(q), q.type \notin {"SUBSCRIBE", "garbage"}
    PROVE  Subscription(stack')
<1>1. \A k \in DOMAIN up' : up'[k] \in Requests => k \in DOMAIN up /\ up'[k] = up[k]
  BY GrowsQuiet
<1>2. \A t : Known(t) => Known(t)'
  BY DEF Known
<1> QED
  BY <1>1, <1>2 DEF Subscription, GoesOn, Subscribing

\* A write that failed before its end adds nothing but garbage.
LEMMA SendFails ==
    ASSUME LinkTypeOK, LinkAssumption, ClientAssumption, NEW p \in UpPacket, NEW outcome,
           NEW late, sendPacket(p, outcome, late), outcome \notin {"sent", "overrun"}
    PROVE  \A k \in DOMAIN up' : (k \in DOMAIN up /\ up'[k] = up[k]) \/ up'[k] = Garbage
<1>0. Garbage \in UpPacket /\ (up' = up \/ up' = Append(up, Garbage))
  BY SendCases
<1>1. PICK g \in UpPacket : g = Garbage
  BY <1>0
<1>2. up \in Seq(UpPacket)
  BY DEF LinkTypeOK
<1>3. ASSUME NEW k \in DOMAIN Append(up, g)
      PROVE  (k \in DOMAIN up /\ Append(up, g)[k] = up[k]) \/ Append(up, g)[k] = g
  BY <1>2, <1>3, AppendProperties, LenProperties
<1> QED
  BY <1>0, <1>1, <1>3

\* A request: only MQTTSubscribe asks for a subscription.
LEMMA RequestStep ==
    ASSUME TypeOK, Assumptions, NEW p \in UpPacket, NEW op, NEW await, NEW outcome,
           Request(p, op, await, outcome), Asks(p, op, await), NotesOverrun(p, outcome)
    PROVE  Subscription(stack') /\ Quiet
<1>. USE DEF TypeOK, Assumptions
<1>1. /\ sendPacket(p, outcome, pingExpired /\ op # "connect")
      /\ down' = down /\ AppMayCall(op) /\ link' = link
      /\ UNCHANGED <<messageHandlers, incoming_qos2_messages, handled, overflowed>>
  BY DEF Request, tableVars
<1>2. PICK c : c = CallerStack
  OBVIOUS
<1>3. c \in Seq(Frame) /\ Calm(stack, c) /\ GoesOn(stack, c) /\ ~Fresh
  BY <1>1, <1>2, CallerShape
<1>4. PICK f : f = [op |-> op, await |-> await, id |-> p.id, expired |-> FALSE,
                    topic |-> IF p.body \in Topics THEN p.body ELSE None]
  OBVIOUS
<1>5. /\ outcome = "sent" /\ await \in AckTypes => stack' = Append(c, f)
      /\ ~(outcome = "sent" /\ await \in AckTypes) => stack' = c
  BY <1>2, <1>4 DEF Request
<1>6. f.op = op /\ f \notin DeliverFrame
  BY <1>4 DEF Asks, DeliverFrame
<1>7. Calm(c, Append(c, f)) /\ GoesOn(c, Append(c, f))
      /\ (f.op = "subscribe" => Subscribes(Append(c, f), f.topic))
  BY <1>3, <1>6, PushShape
<1>8. Calm(stack, stack') /\ GoesOn(stack, stack')
  <2>1. CASE stack' = Append(c, f)
    BY <1>3, <1>7, <2>1, ShapeTrans
  <2>2. CASE stack' = c
    BY <1>3, <2>2
  <2> QED
    BY <1>5, <2>1, <2>2
<1>9. UpGrows(p) /\ p.type \notin {"PUBACK", "PUBREC", "PUBCOMP", "garbage"}
  BY <1>1, SendGrows DEF Asks
<1>10. Garbage.type = "garbage"
  BY DEF Garbage, Bare, Ack, MkPacket
<1>11. Quiet
  <2>1. \A k \in DOMAIN up' : up'[k].type \in {"PUBACK", "PUBREC", "PUBCOMP"} =>
          k \in DOMAIN up /\ up'[k] = up[k]
    BY <1>9, <1>10 DEF UpGrows
  <2> QED
    BY <1>1, <1>3, <1>8, <1>9, <2>1 DEF Quiet, UpGrows
<1>12. CASE p.type # "SUBSCRIBE"
  <2>1. UpGrows(p) /\ p.type \notin {"SUBSCRIBE", "garbage"}
    BY <1>9, <1>12
  <2>2. \A k \in DOMAIN up' : up'[k] \in Requests => k \in DOMAIN up /\ up'[k] = up[k]
    BY <2>1, GrowsQuiet
  <2>3. unheard \subseteq unheard'
    BY DEF NotesOverrun
  <2>4. \A t : Known(t) => Known(t)'
    BY <1>1, <2>3 DEF Known
  <2> QED
    BY <1>1, <1>8, <1>11, <2>2, <2>3, <2>4 DEF Subscription, GoesOn, Subscribing
<1>13. CASE p.type = "SUBSCRIBE"
  <2>1. op = "subscribe" /\ await = "SUBACK" /\ p.body \in Topics
    BY <1>13 DEF Asks, UpPacket
  <2>2. stack = <<>>
    BY <1>1, <2>1 DEF AppMayCall
  <2>3. unheard \subseteq unheard'
    BY DEF NotesOverrun
  <2>4. \A t : Known(t) => Known(t)'
    BY <1>1, <2>3 DEF Known
  <2>5. ASSUME NEW k \in DOMAIN up', up'[k] \in Requests, ~(k \in DOMAIN up /\ up'[k] = up[k])
        PROVE  k = Len(up) + 1 /\ \E t : up'[k].body = t /\ (Known(t)' \/ Subscribes(stack', t))
    <3>1. k = Len(up) + 1 /\ up'[k] = p
      BY <1>9, <1>10, <2>5 DEF UpGrows, Requests
    <3>2. outcome \in {"sent", "overrun"}
      BY <1>1, <1>10, <2>5, SendFails DEF Requests
    <3>3. PICK t : t = p.body
      OBVIOUS
    <3>4. CASE outcome = "sent"
      <4>1. stack' = Append(c, f) /\ f.topic = t
        BY <1>4, <1>5, <2>1, <3>3, <3>4 DEF AckTypes
      <4>2. Subscribes(stack', t)
        BY <1>6, <1>7, <2>1, <4>1
      <4> QED
        BY <3>1, <3>3, <4>2
    <3>5. CASE outcome = "overrun"
      <4>1. t \in unheard'
        BY <1>13, <3>3, <3>5 DEF NotesOverrun
      <4>2. Known(t)'
        BY <4>1 DEF Known
      <4> QED
        BY <3>1, <3>3, <4>2
    <3> QED
      BY <3>2, <3>4, <3>5
  <2> QED
    BY <1>1, <1>8, <1>11, <2>2, <2>3, <2>4, <2>5 DEF Subscription, GoesOn, Subscribing
<1> QED
  BY <1>12, <1>13

\* A packet is read by a wait on top: no cycle is about to look for handlers.
LEMMA ReadsTop ==
    ASSUME TypeOK, NEW types, Reads(types)
    PROVE  /\ ~Fresh /\ down # <<>> /\ down' = Tail(down) /\ Head(down) \in DownPacket
           /\ Head(down).type \in types
           /\ Top \in WaitFrame /\ stack # <<>> /\ stack \in Seq(Frame)
           /\ Top = stack[Len(stack)] /\ Len(stack) \in DOMAIN stack
<1>1. Top \in WaitFrame /\ stack # <<>> /\ Head(down) \in DownPacket /\ Head(down).type \in types
  BY ReadsThins DEF TypeOK
<1>2. Top \notin DeliverFrame
  BY <1>1, DeliverNoWait
<1>3. ~Fresh
  BY <1>2 DEF Fresh, FreshTop, Top
<1>4. Len(stack) \in DOMAIN stack /\ Top = stack[Len(stack)]
  BY <1>1, TopIndex DEF TypeOK
<1> QED
  BY <1>1, <1>3, <1>4 DEF Reads, TypeOK, ClientTypeOK

\* The packets of the client are of known types.
LEMMA PingType == Bare("PINGREQ").type = "PINGREQ"
  BY DEF Bare, Ack, MkPacket

\* A call that takes its acknowledgement.
LEMMA CompleteStep ==
    ASSUME TypeOK, Assumptions, PairedIn(stack), NEW outcome,
           CompleteConnect(outcome) \/ CompleteSubscribe(outcome) \/ CompleteOther(outcome)
    PROVE  Subscription(stack') /\ Quiet
<1>. USE DEF TypeOK, Assumptions
<1>1. /\ Reads(AckTypes) /\ keepalive(ping_outstanding, outcome) /\ link' = link
      /\ stack' = Below /\ Head(down).type = Top.await
      /\ UNCHANGED <<incoming_qos2_messages, handled, overflowed>>
  BY DEF CompleteConnect, CompleteSubscribe, CompleteOther, Completes, tableVars, historyVars
<1>2. /\ ~Fresh /\ down # <<>> /\ down' = Tail(down) /\ Head(down) \in DownPacket
      /\ Head(down).type \in AckTypes /\ Top \in WaitFrame /\ stack \in Seq(Frame)
      /\ Top = stack[Len(stack)] /\ Len(stack) \in DOMAIN stack
  BY <1>1, ReadsTop
<1>3. PICK t : t = SubSeq(stack, 1, Len(stack) - 1)
  OBVIOUS
<1>4. Calm(stack, t) /\ GoesOnBelow(stack, t)
  BY <1>2, <1>3, PopShape
<1>5. stack' = t
  BY <1>1, <1>3 DEF Below
<1>6. /\ Heard' => Heard
      /\ \A k \in DOMAIN up' : up'[k] \in Requests => k \in DOMAIN up /\ up'[k] = up[k]
      /\ \A k \in DOMAIN up' : up'[k].type \in {"PUBACK", "PUBREC", "PUBCOMP"} =>
           k \in DOMAIN up /\ up'[k] = up[k]
  <2>1. UpGrows(Bare("PINGREQ"))
    BY <1>1, KeepaliveGrows
  <2>2. PICK q : q = Bare("PINGREQ")
    OBVIOUS
  <2> QED
    BY <2>1, <2>2, PingType, GrowsQuiet
<1>7. Quiet
  BY <1>1, <1>2, <1>4, <1>5, <1>6 DEF Quiet, AckTypes
<1>8. CASE CompleteConnect(outcome) \/ CompleteOther(outcome)
  <2>1. Top.op # "subscribe" /\ UNCHANGED <<messageHandlers, unheard>>
    BY <1>8 DEF CompleteConnect, CompleteOther, Completes, tableVars, historyVars
  <2>2. \A topic : Subscribes(stack, topic) => Subscribes(t, topic)
    BY <1>2, <1>4, <2>1 DEF GoesOnBelow
  <2>3. \A topic : Known(topic) => Known(topic)'
    BY <2>1 DEF Known
  <2> QED
    BY <1>1, <1>5, <1>6, <1>7, <2>1, <2>2, <2>3 DEF Subscription, Subscribing
<1>9. CASE CompleteSubscribe(outcome)
  <2>1. Top.op = "subscribe" /\ Top.topic \in Topics
    <3>1. Top \in Frame
      BY <1>2, TopIndex
    <3>2. Top.op = "subscribe"
      BY <1>9 DEF CompleteSubscribe, Completes
    <3> QED
      BY <3>1, <3>2 DEF Frame, DeliverFrame
  <2>2. Head(down) \in Grants
    <3>1. Top.await = "SUBACK"
      BY <1>2, <2>1 DEF PairedIn, Paired
    <3> QED
      BY <1>1, <1>2, <3>1 DEF Grants
  <2>3. ~Clear(down, Grants)
    <3>1. 1 \in DOMAIN down /\ down[1] = Head(down)
      BY <1>1, ReadsThins
    <3> QED
      BY <2>2, <3>1 DEF Clear
  <2>0. PICK sub : sub = Top.topic
    OBVIOUS
  <2>4. /\ \A topic : Known(topic) => Known(topic)'
        /\ Known(sub)' /\ unheard \subseteq unheard'
    <3>2. CASE unheard' = unheard \cup {sub} /\ messageHandlers' = messageHandlers
      BY <2>0, <3>2 DEF Known
    <3>3. CASE unheard' = unheard /\ messageHandlers' = Append(messageHandlers, sub)
      <4>1. messageHandlers \in Seq(Topics) /\ sub \in Topics
        BY <2>1, <2>0 DEF ClientTypeOK
      <4>2. PICK h : h = Append(messageHandlers, sub)
        OBVIOUS
      <4>3. /\ DOMAIN h = 1..(Len(messageHandlers) + 1)
            /\ \A k \in 1..Len(messageHandlers) : h[k] = messageHandlers[k]
            /\ h[Len(messageHandlers) + 1] = sub
            /\ DOMAIN messageHandlers = 1..Len(messageHandlers) /\ Len(messageHandlers) \in Nat
        BY <4>1, <4>2, AppendProperties, LenProperties
      <4>4. /\ \A k \in DOMAIN messageHandlers : k \in DOMAIN h /\ h[k] = messageHandlers[k]
            /\ Len(messageHandlers) + 1 \in DOMAIN h
        BY <4>3
      <4>5. messageHandlers' = h
        BY <3>3, <4>2
      <4> QED
        BY <2>0, <3>3, <4>3, <4>4, <4>5 DEF Known
    <3>4. \/ unheard' = unheard \cup {sub} /\ messageHandlers' = messageHandlers
          \/ unheard' = unheard /\ messageHandlers' = Append(messageHandlers, sub)
      BY <1>9, <2>0 DEF CompleteSubscribe
    <3> QED
      BY <3>2, <3>3, <3>4
  <2>5. \A topic : Subscribing(topic) =>
          Subscribes(t, topic) \/ (Known(topic)' /\ ~Clear(down, Grants))
    BY <1>2, <1>4, <2>0, <2>3, <2>4 DEF Subscribing, GoesOnBelow
  <2> QED
    BY <1>1, <1>5, <1>6, <1>7, <2>4, <2>5 DEF Subscription
<1> QED
  BY <1>8, <1>9

\* The other packets that have nothing to do with messages of the broker.
LEMMA DropStep ==
    ASSUME TypeOK, Assumptions, NEW outcome,
           DropAck(outcome) \/ ReadPingresp(outcome) \/ ReadPubrec(outcome)
    PROVE  Subscription(stack') /\ Quiet
<1>. USE DEF TypeOK, Assumptions
<1>0. PICK types \in {AckTypes, {"PINGRESP"}, {"PUBREC"}} : Reads(types)
  BY DEF DropAck, ReadPingresp, ReadPubrec
<1>1. Reads(types) /\ {"PUBLISH", "PUBREL"} \cap types = {}
  BY <1>0 DEF AckTypes
<1>2. /\ link' = link
      /\ UNCHANGED <<incoming_qos2_messages, messageHandlers, unheard, handled, overflowed>>
  BY DEF DropAck, ReadPingresp, ReadPubrec, tableVars, historyVars
<1>3. /\ ~Fresh /\ down # <<>> /\ down' = Tail(down) /\ Head(down) \in DownPacket
      /\ Head(down).type \in types /\ stack \in Seq(Frame)
  BY <1>1, ReadsTop
<1>4. PICK q : UpGrows(q) /\ q.type \in {"PINGREQ", "PUBREL"}
  <2>1. CASE ReadPubrec(outcome)
    <3>1. sendPacket(Ack("PUBREL", Head(down).id), outcome, pingExpired)
      BY <2>1 DEF ReadPubrec
    <3>2. PICK p : p = Ack("PUBREL", Head(down).id)
      OBVIOUS
    <3>3. p \in UpPacket /\ p.type = "PUBREL"
      BY <1>3, <3>2, AckType DEF PacketType, Ack, MkPacket
    <3> QED
      BY <1>2, <3>1, <3>2, <3>3, SendGrows
  <2>2. CASE DropAck(outcome) \/ ReadPingresp(outcome)
    <3>1. PICK outstanding : keepalive(outstanding, outcome)
      BY <2>2 DEF DropAck, ReadPingresp
    <3> QED
      BY <1>2, <3>1, KeepaliveGrows, PingType
  <2> QED
    BY <2>1, <2>2
<1>5. Calm(stack, stack') /\ GoesOn(stack, stack')
  <2>1. CASE ReadPubrec(outcome)
    <3>1. PICK ok : stack' = AfterCycle(stack, ok)
      BY <2>1 DEF ReadPubrec
    <3> QED
      BY <1>3, <3>1, AfterCycleShape
  <2>2. CASE DropAck(outcome) \/ ReadPingresp(outcome)
    BY <2>2, ShapeTrans DEF DropAck, ReadPingresp
  <2> QED
    BY <2>1, <2>2
<1>6. Subscription(stack')
  BY <1>2, <1>4, <1>5, SameSubscription
<1>7. /\ Heard' => Heard
      /\ \A k \in DOMAIN up' : up'[k].type \in {"PUBACK", "PUBREC", "PUBCOMP"} =>
           k \in DOMAIN up /\ up'[k] = up[k]
  BY <1>4, GrowsQuiet
<1>8. Head(down).type \notin {"PUBLISH", "PUBREL"}
  BY <1>1, <1>3
<1> QED
  BY <1>2, <1>3, <1>5, <1>6, <1>7, <1>8 DEF Quiet

\* MQTTYield, and the passing of time.
LEMMA TimeStep ==
    ASSUME TypeOK, Assumptions, MQTTYield \/ TimePasses \/ WaitEnds
    PROVE  Subscription(stack') /\ Quiet
<1>. USE DEF TypeOK, Assumptions
<1>0. /\ stack \in Seq(Frame) /\ Len(stack) \in Nat
      /\ Bare("PINGREQ").type \notin {"SUBSCRIBE", "garbage", "PUBACK", "PUBREC", "PUBCOMP"}
  BY PingType, LenProperties DEF ClientTypeOK
<1>1. PICK q : q = Bare("PINGREQ")
  OBVIOUS
<1>2. ASSUME UpGrows(q), UNCHANGED <<down, messageHandlers, incoming_qos2_messages, unheard,
                                     handled, overflowed>>,
             Calm(stack, stack'), GoesOn(stack, stack'),
             Fresh => /\ Fresh' /\ Len(stack') = Len(stack)
                      /\ stack'[Len(stack)].pkt = Top.pkt
      PROVE  Subscription(stack') /\ Quiet
  <2>1. Subscription(stack')
    BY <1>0, <1>1, <1>2, SameSubscription
  <2>2. /\ Heard' => Heard
        /\ \A k \in DOMAIN up' : up'[k].type \in {"PUBACK", "PUBREC", "PUBCOMP"} =>
             k \in DOMAIN up /\ up'[k] = up[k]
    BY <1>0, <1>1, <1>2, GrowsQuiet
  <2> QED
    BY <1>2, <2>1, <2>2 DEF Quiet
<1>3. CASE MQTTYield
  <2>1. PICK c : c = CallerStack
    OBVIOUS
  <2>2. PICK f : f = [op |-> "yield", await |-> "none", id |-> 0, topic |-> None,
                      expired |-> FALSE]
    OBVIOUS
  <2>3. c \in Seq(Frame) /\ Calm(stack, c) /\ GoesOn(stack, c) /\ ~Fresh
    BY <1>3, <2>1, CallerShape DEF MQTTYield
  <2>4. stack' = Append(c, f) /\ f \notin DeliverFrame
    BY <1>3, <2>1, <2>2 DEF MQTTYield, DeliverFrame
  <2>5. Calm(c, stack') /\ GoesOn(c, stack')
    BY <2>3, <2>4, PushShape
  <2>6. Calm(stack, stack') /\ GoesOn(stack, stack')
    BY <2>3, <2>5, ShapeTrans
  <2>7. up' = up /\ link' = link
        /\ UNCHANGED <<down, messageHandlers, incoming_qos2_messages, unheard, handled, overflowed>>
    BY <1>3 DEF MQTTYield, linkVars, tableVars, historyVars
  <2> QED
    BY <1>2, <2>3, <2>6, <2>7, SameGrows
<1>4. CASE PingTimerExpires
  <2>1. /\ up' = up /\ link' = link /\ stack' = stack /\ readbuf' = readbuf
        /\ UNCHANGED <<down, messageHandlers, incoming_qos2_messages, unheard, handled, overflowed>>
    BY <1>4 DEF PingTimerExpires, linkVars, tableVars, historyVars
  <2>2. Fresh => Fresh' /\ Len(stack') = Len(stack) /\ stack'[Len(stack)].pkt = Top.pkt
    BY <2>1 DEF Fresh, Top
  <2>3. Calm(stack, stack') /\ GoesOn(stack, stack')
    BY <2>1, ShapeTrans
  <2> QED
    BY <1>2, <2>1, <2>2, <2>3, SameGrows
<1>5. ASSUME NEW i \in DOMAIN stack, stack[i] \in WaitFrame,
             stack' = [stack EXCEPT ![i].expired = TRUE], readbuf' = readbuf
      PROVE  /\ Calm(stack, stack') /\ GoesOn(stack, stack')
             /\ Fresh => Fresh' /\ Len(stack') = Len(stack) /\ stack'[Len(stack)].pkt = Top.pkt
  <2>1. PICK f : f = [stack[i] EXCEPT !.expired = TRUE]
    OBVIOUS
  <2>2. f \in WaitFrame /\ f.op = stack[i].op /\ f.topic = stack[i].topic
    BY <1>5, <2>1 DEF WaitFrame
  <2>3. f \notin DeliverFrame /\ stack[i] \notin DeliverFrame
    BY <1>5, <2>2 DEF WaitFrame, DeliverFrame, Op
  <2>4. /\ Calm(stack, [stack EXCEPT ![i] = f])
        /\ GoesOn(stack, [stack EXCEPT ![i] = f])
    BY <1>0, <1>5, <2>2, <2>3, ReplaceShape
  <2>5. PICK t : t = [stack EXCEPT ![i] = f]
    OBVIOUS
  <2>6. /\ DOMAIN t = DOMAIN stack /\ t \in Seq(Frame)
        /\ \A k \in DOMAIN stack : k # i => t[k] = stack[k]
    <3>1. f \in Frame
      BY <1>0, <1>5, <2>1, ExpiredFrame, LenProperties
    <3> QED
      BY <1>0, <1>5, <2>5, <3>1, ExceptSeq, LenProperties
  <2>7. Len(t) = Len(stack)
    BY <1>0, <2>6, LenProperties
  <2>8. ASSUME Fresh
        PROVE  FreshTop(t, readbuf) /\ t[Len(stack)].pkt = Top.pkt
    <3>1. Len(stack) \in DOMAIN stack /\ Len(stack) # i /\ t # <<>>
      BY <1>0, <2>3, <2>6, <2>7, <2>8, EmptySeq, LenProperties DEF Fresh, FreshTop
    <3>2. t[Len(stack)] = stack[Len(stack)]
      BY <2>6, <3>1
    <3> QED
      BY <2>7, <2>8, <3>1, <3>2 DEF Fresh, FreshTop, Top
  <2>9. stack' = t
    BY <1>5, <2>1, <2>5
  <2> QED
    BY <1>5, <2>4, <2>5, <2>7, <2>8, <2>9 DEF Fresh
<1>6. ASSUME NEW outcome, CycleIdle(outcome) PROVE Subscription(stack') /\ Quiet
  <2>1. /\ keepalive(ping_outstanding, outcome) /\ link' = link /\ readbuf' = readbuf
        /\ stack # <<>> /\ Top \in WaitFrame
        /\ stack' = [stack EXCEPT ![Len(stack)].expired = TRUE]
        /\ UNCHANGED <<down, messageHandlers, incoming_qos2_messages, unheard, handled, overflowed>>
    BY <1>6 DEF CycleIdle, Waiting, tableVars, historyVars
  <2>2. Len(stack) \in DOMAIN stack /\ Top = stack[Len(stack)]
    BY <2>1, TopIndex
  <2>3. UpGrows(q)
    BY <1>1, <2>1, KeepaliveGrows
  <2> QED
    BY <1>2, <1>5, <2>1, <2>2, <2>3
<1>7. ASSUME NEW i \in DOMAIN stack, TimerExpires(i) PROVE Subscription(stack') /\ Quiet
  <2>1. /\ up' = up /\ link' = link /\ readbuf' = readbuf /\ stack[i] \in WaitFrame
        /\ stack' = [stack EXCEPT ![i].expired = TRUE]
        /\ UNCHANGED <<down, messageHandlers, incoming_qos2_messages, unheard, handled, overflowed>>
    BY <1>7 DEF TimerExpires, linkVars, tableVars, historyVars
  <2>2. UpGrows(q)
    BY <2>1, SameGrows
  <2> QED
    BY <1>2, <1>5, <2>1, <2>2
<1>8. CASE WaitEnds
  <2>1. /\ up' = up /\ link' = link /\ down' = down /\ stack # <<>> /\ Top \in WaitFrame
        /\ stack' = SubSeq(stack, 1, Len(stack) - 1)
        /\ unheard' = IF Top.op = "subscribe" THEN unheard \cup {Top.topic} ELSE unheard
        /\ UNCHANGED <<messageHandlers, incoming_qos2_messages, handled, overflowed>>
    BY <1>8 DEF WaitEnds, TimeIsUp, Waiting, linkVars, tableVars, Below
  <2>2. Top = stack[Len(stack)] /\ Top \notin DeliverFrame
    BY <2>1, TopIndex, DeliverNoWait
  <2>3. PICK t : t = SubSeq(stack, 1, Len(stack) - 1)
    OBVIOUS
  <2>4. Calm(stack, t) /\ GoesOnBelow(stack, t)
    BY <1>0, <2>3, PopShape
  <2>5. ~Fresh
    BY <2>2 DEF Fresh, FreshTop
  <2>6. /\ Heard' => Heard
        /\ \A k \in DOMAIN up' : k \in DOMAIN up /\ up'[k] = up[k]
    BY <2>1 DEF Heard
  <2>7. \A topic : Known(topic) => Known(topic)'
    BY <2>1 DEF Known
  <2>8. \A topic : Subscribing(topic) => Subscribes(t, topic) \/ topic \in unheard'
    BY <2>1, <2>2, <2>4 DEF Subscribing, GoesOnBelow
  <2>9. stack' = t
    BY <2>1, <2>3
  <2>10. Subscription(stack')
    BY <2>1, <2>6, <2>7, <2>8, <2>9 DEF Subscription
  <2> QED
    BY <2>1, <2>4, <2>5, <2>6, <2>9, <2>10 DEF Quiet
<1> QED
  BY <1>3, <1>4, <1>6, <1>7, <1>8 DEF TimePasses

\* A handler is called or returns.
LEMMA HandlerStep ==
    ASSUME TypeOK, Assumptions, CallHandler \/ HandlerReturns
    PROVE  Subscription(stack') /\ Quiet
<1>. USE DEF TypeOK, Assumptions
<1>0. stack \in Seq(Frame) /\ Len(stack) \in Nat
  BY LenProperties DEF ClientTypeOK
<1>1. /\ Delivering /\ up' = up /\ down' = down /\ link' = link /\ handled \subseteq handled'
      /\ UNCHANGED <<messageHandlers, incoming_qos2_messages, unheard, overflowed>>
  BY DEF CallHandler, HandlerReturns, InHandler, linkVars, tableVars, historyVars
<1>2. Len(stack) \in DOMAIN stack /\ Top = stack[Len(stack)] /\ Top \in DeliverFrame
  BY <1>1, DeliveringTypes
<1>3. PICK f : /\ stack' = [stack EXCEPT ![Len(stack)] = f]
               /\ f.op = Top.op /\ f.pkt = Top.pkt
  <2>1. CASE HandlerReturns
    <3>1. PICK f : f = [Top EXCEPT !.running = FALSE]
      OBVIOUS
    <3>2. f.op = Top.op /\ f.pkt = Top.pkt
      BY <1>2, <3>1 DEF DeliverFrame
    <3>3. stack' = [stack EXCEPT ![Len(stack)] = f]
      BY <2>1, <3>1 DEF HandlerReturns, Top
    <3> QED
      BY <3>2, <3>3
  <2>2. CASE CallHandler
    <3>1. PICK i : stack' = [stack EXCEPT ![Len(stack)] =
                              [@ EXCEPT !.slot = i + 1, !.left = HandlerCalls,
                                        !.running = (SeenTopic \in ReentrantTopics)]]
      BY <2>2 DEF CallHandler
    <3>2. PICK f : f = [Top EXCEPT !.slot = i + 1, !.left = HandlerCalls,
                                   !.running = (SeenTopic \in ReentrantTopics)]
      OBVIOUS
    <3>3. f.op = Top.op /\ f.pkt = Top.pkt
      BY <1>2, <3>2 DEF DeliverFrame
    <3>4. stack' = [stack EXCEPT ![Len(stack)] = f]
      BY <3>1, <3>2 DEF Top
    <3> QED
      BY <3>3, <3>4
  <2> QED
    BY <2>1, <2>2
<1>4. Top.op # "subscribe"
  BY <1>2 DEF DeliverFrame
<1>5. Calm(stack, stack') /\ GoesOn(stack, stack')
  <2>1. /\ Calm(stack, [stack EXCEPT ![Len(stack)] = f])
        /\ GoesOn(stack, [stack EXCEPT ![Len(stack)] = f])
    BY <1>0, <1>2, <1>3, <1>4, ReplaceShape
  <2> QED
    BY <1>3, <2>1
<1>6. Fresh => Top.pkt.body \in handled'
  <2>1. CASE HandlerReturns
    BY <1>2, <2>1 DEF HandlerReturns, InHandler, Fresh, FreshTop
  <2>2. CASE CallHandler
    BY <1>2, <2>2 DEF CallHandler, Fresh, FreshTop
  <2> QED
    BY <2>1, <2>2
<1>7. PICK q : q = Bare("PINGREQ")
  OBVIOUS
<1>8. UpGrows(q) /\ q.type \notin {"SUBSCRIBE", "garbage"}
  BY <1>1, <1>7, SameGrows, PingType
<1>9. Subscription(stack')
  BY <1>1, <1>5, <1>8, SameSubscription
<1> QED
  BY <1>1, <1>5, <1>6, <1>9 DEF Quiet, Heard

\* Packets read leave the others in their order.
DownShift == \E d \in {0, 1} : \A k \in DOMAIN down' : k + d \in DOMAIN down /\ down'[k] = down[k + d]

\* What is in down moves by one place at most.
LEMMA Shifts ==
    ASSUME LinkTypeOK, down' = down \/ (down # <<>> /\ down' = Tail(down))
    PROVE  DownShift /\ DOMAIN down \subseteq Nat /\ DOMAIN down' \subseteq Nat
<1>1. down \in Seq(DownPacket) /\ DOMAIN down = 1..Len(down) /\ Len(down) \in Nat
  BY LenProperties DEF LinkTypeOK
<1>2. CASE down' = down
  <2>1. \A k \in DOMAIN down' : k + 0 \in DOMAIN down /\ down'[k] = down[k + 0]
    BY <1>1, <1>2
  <2> QED
    BY <1>1, <1>2, <2>1 DEF DownShift
<1>3. CASE down # <<>> /\ down' = Tail(down)
  <2>1. PICK t : t = Tail(down)
    OBVIOUS
  <2>2. /\ t \in Seq(DownPacket) /\ Len(t) = Len(down) - 1
        /\ \A i \in 1..Len(t) : t[i] = down[i + 1]
    BY <1>1, <1>3, <2>1, HeadTailProperties
  <2>3. DOMAIN t = 1..Len(t) /\ Len(t) \in Nat
    BY <2>2, LenProperties
  <2>4. \A k \in DOMAIN t : k + 1 \in DOMAIN down /\ t[k] = down[k + 1]
    BY <1>1, <2>2, <2>3
  <2>5. \A k \in DOMAIN down' : k + 1 \in DOMAIN down /\ down'[k] = down[k + 1]
    BY <1>3, <2>1, <2>4
  <2>6. DOMAIN down \subseteq Nat /\ DOMAIN down' \subseteq Nat
    <3>1. down' = t
      BY <1>3, <2>1
    <3>2. DOMAIN t \subseteq Nat /\ DOMAIN down \subseteq Nat
      BY <1>1, <2>3
    <3> QED
      BY <3>1, <3>2
  <2> QED
    BY <2>5, <2>6 DEF DownShift
<1> QED
  BY <1>2, <1>3

\* A cycle of the new stack is of the old one, or delivers the packet just read.
FramesCome ==
    \A k \in DOMAIN stack' : stack'[k] \in DeliverFrame =>
        \/ k \in DOMAIN stack /\ stack[k] \in DeliverFrame /\ stack'[k].pkt = stack[k].pkt
        \/ /\ down # <<>> /\ 1 \in DOMAIN down /\ down[1].type = "PUBLISH"
           /\ stack'[k].pkt = down[1]

\* What is done stays done, and subscriptions stay accounted for, whatever the
\* client does.
LEMMA SubscriptionKeeps ==
    ASSUME TypeOK, SubscribeInv, Subscription(stack'), FramesCome,
           UNCHANGED <<subs, inflight>>, down' = down \/ (down # <<>> /\ down' = Tail(down))
    PROVE  SubscribeInv' /\ \A m : Done(m) => Done(m)'
<1>. USE DEF TypeOK
<1>0. /\ DOMAIN down \subseteq Nat /\ DOMAIN down' \subseteq Nat /\ DownShift
      /\ up \in Seq(UpPacket) /\ DOMAIN up = 1..Len(up) /\ Len(up) \in Nat
  BY Shifts, LenProperties DEF LinkTypeOK
<1>1. PICK d \in {0, 1} : \A k \in DOMAIN down' : k + d \in DOMAIN down /\ down'[k] = down[k + d]
  BY <1>0 DEF DownShift
<1>2. \A t : Known(t) => Known(t)'
  BY DEF Subscription
<1>3. \A t : t \in unheard' => Known(t)'
  BY DEF Known
<1>4. \A t : Subscribing(t) => stack # <<>>
  <2>. SUFFICES ASSUME NEW t, Subscribing(t), stack = <<>> PROVE FALSE
    OBVIOUS
  <2>1. DOMAIN stack = {}
    OBVIOUS
  <2> QED
    BY <2>1 DEF Subscribing, Subscribes
<1>5. stack # <<>> => \A k \in DOMAIN up' : up'[k] \in Requests => k \in DOMAIN up /\ up'[k] = up[k]
  BY DEF Subscription
<1>6. stack # <<>> /\ Clear(up, Requests) => Clear(up', Requests)
  BY <1>5 DEF Clear
<1>7. Clear(down, Grants) => Clear(down', Grants)
  BY <1>1 DEF Clear
<1>8. \A t : Subscribing(t) => Subscribing(t)' \/ t \in unheard' \/ (Known(t)' /\ ~Clear(down, Grants))
  BY DEF Subscription, Subscribing
<1>9. \A t : Given(t) => Given(t)'
  <2>. SUFFICES ASSUME NEW t, Given(t) PROVE Given(t)'
    OBVIOUS
  <2>1. CASE t \in unheard
    BY <2>1 DEF Given, Subscription
  <2>2. CASE Subscribing(t) /\ Clear(up, Requests) /\ Clear(down, Grants)
    <3>1. Clear(up', Requests) /\ Clear(down', Grants)
      BY <1>4, <1>6, <1>7, <2>2
    <3>2. Subscribing(t)' \/ t \in unheard'
      BY <1>8, <2>2
    <3> QED
      BY <3>1, <3>2 DEF Given, Clear, Requests, Grants
  <2> QED
    BY <2>1, <2>2 DEF Given
<1>10. \A m : Done(m) => Done(m)'
  BY <1>9 DEF Done, Subscription
<1>11. RequestsKnown'
  <2>. SUFFICES ASSUME NEW k \in DOMAIN up', up'[k] \in Requests, NEW t, t = up'[k].body
                PROVE  \/ Known(t)'
                       \/ /\ Subscribing(t)'
                          /\ \A j \in DOMAIN up' : up'[j] \in Requests => j <= k
    BY DEF RequestsKnown, Requests, Known, Subscribing, Subscribes
  <2>1. CASE k \in DOMAIN up /\ up'[k] = up[k]
    <3>1. Known(t) \/ (Subscribing(t) /\ \A j \in DOMAIN up : up[j] \in Requests => j <= k)
      BY <2>1 DEF SubscribeInv, RequestsKnown
    <3>2. CASE Known(t)
      BY <1>2, <3>2
    <3>3. CASE Subscribing(t) /\ \A j \in DOMAIN up : up[j] \in Requests => j <= k
      <4>1. \A j \in DOMAIN up' : up'[j] \in Requests => j <= k
        BY <1>4, <1>5, <3>3
      <4> QED
        BY <1>3, <1>8, <3>3, <4>1
    <3> QED
      BY <3>1, <3>2, <3>3
  <2>2. CASE stack = <<>> /\ k = Len(up) + 1 /\ (Known(t)' \/ Subscribes(stack', t))
    <3>1. ASSUME NEW j \in DOMAIN up', up'[j] \in Requests PROVE j <= k
      <4>1. j \in DOMAIN up \/ j = Len(up) + 1
        BY <3>1 DEF Subscription
      <4> QED
        BY <1>0, <2>2, <4>1
    <3> QED
      BY <2>2, <3>1 DEF Subscribing
  <2> QED
    BY <2>1, <2>2 DEF Subscription
<1>12. SubsKnown'
  <2>. SUFFICES ASSUME NEW t, Served(t)
                PROVE  Known(t)' \/ (Subscribing(t)' /\ Clear(up', Requests))
    BY DEF SubsKnown, Served, Open, Clear, Requests
  <2>1. Known(t) \/ (Subscribing(t) /\ Clear(up, Requests))
    BY DEF SubscribeInv, SubsKnown
  <2> QED
    BY <1>2, <1>3, <1>4, <1>6, <1>8, <2>1
<1>13. PublishesKnown'
  <2>. SUFFICES ASSUME NEW k \in DOMAIN down', down'[k].type = "PUBLISH",
                       NEW t, t = TopicOf[down'[k].body]
                PROVE  \/ Known(t)'
                       \/ /\ Subscribing(t)' /\ Clear(up', Requests)
                          /\ \A j \in DOMAIN down' : down'[j] \in Grants => j < k
    BY DEF PublishesKnown, Clear, Requests, Grants, Known, Subscribing, Subscribes
  <2>1. \/ Known(t)
        \/ /\ Subscribing(t) /\ Clear(up, Requests)
           /\ \A j \in DOMAIN down : down[j] \in Grants => j < k + d
    BY <1>1 DEF SubscribeInv, PublishesKnown
  <2>2. CASE Known(t)
    BY <1>2, <2>2
  <2>3. CASE /\ Subscribing(t) /\ Clear(up, Requests)
             /\ \A j \in DOMAIN down : down[j] \in Grants => j < k + d
    <3>1. ASSUME NEW j \in DOMAIN down', down'[j] \in Grants PROVE j < k
      <4>1. j + d < k + d
        BY <1>1, <2>3, <3>1
      <4> QED
        BY <1>0, <4>1
    <3> QED
      BY <1>3, <1>4, <1>6, <1>8, <2>3, <3>1
  <2> QED
    BY <2>1, <2>2, <2>3
<1>14. FramesKnown'
  <2>. SUFFICES ASSUME NEW k \in DOMAIN stack', stack'[k] \in DeliverFrame,
                       NEW t, t = TopicOf[stack'[k].pkt.body]
                PROVE  Known(t)' \/ Given(t)'
    BY DEF FramesKnown, Known, Given, Subscribing, Subscribes, Clear, Requests, Grants
  <2>1. CASE k \in DOMAIN stack /\ stack[k] \in DeliverFrame /\ stack'[k].pkt = stack[k].pkt
    <3>1. Known(t) \/ Given(t)
      BY <2>1 DEF SubscribeInv, FramesKnown
    <3> QED
      BY <1>2, <1>9, <3>1
  <2>2. CASE 1 \in DOMAIN down /\ down[1].type = "PUBLISH" /\ stack'[k].pkt = down[1]
    <3>1. \/ Known(t)
          \/ /\ Subscribing(t) /\ Clear(up, Requests)
             /\ \A j \in DOMAIN down : down[j] \in Grants => j < 1
      BY <2>2 DEF SubscribeInv, PublishesKnown
    <3>2. (\A j \in DOMAIN down : down[j] \in Grants => j < 1) => Clear(down, Grants)
      <4>1. \A j \in DOMAIN down : ~(j < 1)
        BY LenProperties DEF LinkTypeOK
      <4> QED
        BY <4>1 DEF Clear
    <3>3. Known(t) \/ Given(t)
      BY <3>1, <3>2 DEF Given
    <3> QED
      BY <1>2, <1>9, <3>3
  <2> QED
    BY <2>1, <2>2 DEF FramesCome
<1> QED
  BY <1>10, <1>11, <1>12, <1>13, <1>14 DEF SubscribeInv

-----------------------------------------------------------------------------
(* Steps that add nothing under packet id i *)

\* What down holds of A it held before, in the same order.
DownKept(A) ==
    \E d \in {0, 1} : \A k \in DOMAIN down' : down'[k] \in A =>
        k + d \in DOMAIN down /\ down'[k] = down[k + d]

\* The stack holds no cycle under i that it did not hold in the same place.
StackKept(i) ==
    \A k \in DOMAIN stack' : stack'[k] \in Cycles(i) =>
        k \in DOMAIN stack /\ stack[k] \in Cycles(i) /\ stack'[k].pkt = stack[k].pkt

\* What is kept of down gets less, in the same order.
LEMMA KeptThins ==
    ASSUME DOMAIN down \subseteq Nat, DOMAIN down' \subseteq Nat, NEW A, DownKept(A)
    PROVE  /\ Thins(down, down', A)
           /\ \A B : B \subseteq A /\ Clear(down, B) => Clear(down', B)
           /\ Lone(down, A) => Lone(down', A)
           /\ \A B, C :
                /\ B \subseteq A /\ C \subseteq A
                /\ \A j, k \in DOMAIN down : down[j] \in B /\ down[k] \in C => k < j
                => \A j, k \in DOMAIN down' : down'[j] \in B /\ down'[k] \in C => k < j
<1>1. PICK d \in {0, 1} : \A k \in DOMAIN down' : down'[k] \in A =>
                            k + d \in DOMAIN down /\ down'[k] = down[k + d]
  BY DEF DownKept
<1>2. ASSUME Lone(down, A), NEW j \in DOMAIN down', NEW k \in DOMAIN down',
             down'[j] \in A, down'[k] \in A
      PROVE  j = k
  <2>1. j + d = k + d
    BY <1>1, <1>2 DEF Lone
  <2> QED
    BY <1>2, <2>1
<1>3. \A k \in DOMAIN down' : down'[k] \in A => \E j \in DOMAIN down : down[j] = down'[k]
  BY <1>1
<1>4. Thins(down, down', A)
  BY <1>2, <1>3 DEF Thins, Lone
<1>5. ASSUME NEW B, NEW C, B \subseteq A, C \subseteq A,
             \A j, k \in DOMAIN down : down[j] \in B /\ down[k] \in C => k < j,
             NEW j \in DOMAIN down', NEW k \in DOMAIN down', down'[j] \in B, down'[k] \in C
      PROVE  k < j
  <2>1. k + d < j + d
    BY <1>1, <1>5
  <2> QED
    BY <1>5, <2>1
<1>6. ASSUME NEW B, B \subseteq A, Clear(down, B) PROVE Clear(down', B)
  BY <1>1, <1>6 DEF Clear
<1> QED
  BY <1>2, <1>4, <1>5, <1>6 DEF Lone

\* The same for up and a set A that has parts.
LEMMA ThinsParts ==
    ASSUME NEW s, NEW t, NEW A, Thins(s, t, A)
    PROVE  /\ \A B : B \subseteq A /\ Clear(s, B) => Clear(t, B)
           /\ Lone(s, A) => Lone(t, A)
  BY DEF Thins, Clear

\* What is kept of the stack gets less.
LEMMA KeptCycles ==
    ASSUME NEW i, StackKept(i)
    PROVE  /\ Clear(stack, Cycles(i)) => Clear(stack', Cycles(i))
           /\ Lone(stack, Cycles(i)) => Lone(stack', Cycles(i))
  BY DEF StackKept, Clear, Lone

\* A calm step keeps the cycles under every id.
LEMMA CalmKept ==
    ASSUME Calm(stack, stack'), NEW i
    PROVE  StackKept(i)
  BY DEF Calm, StackKept, Cycles

\* The message of i in the packets and cycles that were there before.
LEMMA MessageShrinks ==
    ASSUME NEW i, SameMessage(i), DownKept(Pubs(i) \cup Rels(i)), inflight'[i] = inflight[i]
    PROVE  /\ \A k \in DOMAIN down' : down'[k] \in Pubs(i) =>
                /\ down'[k].val = 2 => Open(i)
                /\ Open(i) => inflight[i].msg = down'[k].body
           /\ StackKept(i) => SameMessage(i)'
<1>1. \A k \in DOMAIN down' : down'[k] \in Pubs(i) =>
        /\ down'[k].val = 2 => Open(i)
        /\ Open(i) => inflight[i].msg = down'[k].body
  BY DEF DownKept, SameMessage
<1>2. ASSUME StackKept(i)
      PROVE  \A k \in DOMAIN stack' : stack'[k] \in Cycles(i) /\ Open(i) =>
               inflight[i].msg = stack'[k].pkt.body
  BY <1>2 DEF StackKept, SameMessage
<1> QED
  BY <1>1, <1>2 DEF SameMessage, Open

\* With no new acknowledgement, what was done stays done.
LEMMA AnsweredShrinks ==
    ASSUME NEW i, AnsweredDone(i), Clear(up, Recs(i)) => Clear(up', Recs(i)),
           inflight'[i] = inflight[i], \A m : Done(m) => Done(m)'
    PROVE  AnsweredDone(i)'
<1>. SUFFICES ASSUME Open(i), ~Clear(up', Recs(i)), NEW m, m = inflight[i].msg PROVE Done(m)'
  BY DEF AnsweredDone, Open, Done, Given, Subscribing
<1> QED
  BY DEF AnsweredDone

\* With nothing new under i, PipeOf stays.
LEMMA PipeShrinks ==
    ASSUME NEW i, PipeOf(i), DOMAIN down \subseteq Nat, DOMAIN down' \subseteq Nat,
           DownKept(Pubs(i) \cup Rels(i)), StackKept(i), Thins(up, up', Recs(i) \cup Comps(i)),
           inflight'[i] = inflight[i], i \notin retried' => i \notin retried,
           \A m : Done(m) => Done(m)'
    PROVE  PipeOf(i)'
<1>1. PICK B : B = Pubs(i) \cup Rels(i)
  OBVIOUS
<1>2. /\ \A C : C \subseteq B /\ Clear(down, C) => Clear(down', C)
      /\ Lone(down, B) => Lone(down', B)
      /\ \A C, D :
           /\ C \subseteq B /\ D \subseteq B
           /\ \A j, k \in DOMAIN down : down[j] \in C /\ down[k] \in D => k < j
           => \A j, k \in DOMAIN down' : down'[j] \in C /\ down'[k] \in D => k < j
  BY <1>1, KeptThins
<1>3. PICK A : A = Recs(i) \cup Comps(i)
  OBVIOUS
<1>4. /\ Clear(up, A) => Clear(up', A)
      /\ Lone(up, A) => Lone(up', A)
      /\ Clear(up, Recs(i)) => Clear(up', Recs(i))
      /\ Clear(up, Comps(i)) => Clear(up', Comps(i))
  BY <1>3, ThinsParts
<1>5. /\ Clear(stack, Cycles(i)) => Clear(stack', Cycles(i))
      /\ Lone(stack, Cycles(i)) => Lone(stack', Cycles(i))
  BY KeptCycles
<1>6. /\ Clear(down, B) => Clear(down', B)
      /\ Clear(down, Pubs(i)) => Clear(down', Pubs(i))
      /\ Clear(down, Rels(i)) => Clear(down', Rels(i))
  BY <1>1, <1>2
<1>7. Clean(i)'
  <2>1. ASSUME i \notin retried' PROVE Single(i)' /\ (~Open(i)' => Empty(i)')
    <3>1. Single(i) /\ (~Open(i) => Empty(i))
      BY <2>1 DEF PipeOf, Clean
    <3> QED
      BY <1>1, <1>2, <1>3, <1>4, <1>5, <1>6, <3>1 DEF Single, Empty, Open
  <2> QED
    BY <2>1 DEF Clean
<1>8. InPhase(i)'
  <2>1. \A j, k \in DOMAIN down' : down'[j] \in Rels(i) /\ down'[k] \in Pubs(i) => k < j
    BY <1>1, <1>2 DEF PipeOf, InPhase
  <2> QED
    BY <1>4, <1>6, <2>1 DEF PipeOf, InPhase
<1>9. SameMessage(i)'
  BY MessageShrinks DEF PipeOf
<1>10. AnsweredDone(i)'
  BY <1>4, AnsweredShrinks DEF PipeOf
<1> QED
  BY <1>7, <1>8, <1>9, <1>10 DEF PipeOf

\* A cycle on top that has not looked for handlers is still there, or what it
\* delivers is done.
FreshGoes ==
    Fresh => \/ \E m : m = Top.pkt.body /\ Done(m)'
             \/ /\ Fresh' /\ Len(stack') = Len(stack)
                /\ stack'[Len(stack)].pkt = Top.pkt

\* With no new cycle under i, CyclesDone stays.
LEMMA CyclesShrink ==
    ASSUME NEW i, CyclesDone(i), stack \in Seq(Frame), StackKept(i), FreshGoes,
           \A m : Done(m) => Done(m)'
    PROVE  CyclesDone(i)'
<1>. SUFFICES ASSUME NEW k \in DOMAIN stack', stack'[k] \in Cycles(i),
                     NEW m, m = stack'[k].pkt.body
              PROVE  Done(m)' \/ (k = Len(stack') /\ Fresh')
  BY DEF CyclesDone, Done, Given, Subscribing
<1>1. k \in DOMAIN stack /\ stack[k] \in Cycles(i) /\ m = stack[k].pkt.body
  BY DEF StackKept
<1>2. Done(m) \/ (k = Len(stack) /\ Fresh)
  BY <1>1 DEF CyclesDone
<1>3. CASE k = Len(stack) /\ Fresh
  BY <1>1, <1>3 DEF FreshGoes, Top
<1> QED
  BY <1>2, <1>3

\* A slot stays accounted for unless the broker hears of its message.
LEMMA TableShrinks ==
    ASSUME NEW i, SameMessage(i), TableOf(i), inflight'[i] = inflight[i],
           Recorded(i)' => Recorded(i),
           stack \in Seq(Frame), StackKept(i), Clear(up, Comps(i)) => Clear(up', Comps(i)),
           \A m : Done(m) => Done(m)', FreshGoes
    PROVE  TableOf(i)'
<1>1. Fresh => Len(stack) \in DOMAIN stack /\ Top = stack[Len(stack)] /\ Top \in DeliverFrame
  BY EmptySeq, LenProperties DEF Fresh, FreshTop, Top
<1>2. SlotTaken(i)'
  <2>. SUFFICES ASSUME Recorded(i), NEW m, m = inflight[i].msg
                PROVE  /\ Open(i) /\ QosOf[m] = 2
                       /\ Done(m)' \/ (Fresh' /\ stack'[Len(stack')].pkt.id = i)
                       /\ Clear(up', Comps(i))
    BY DEF SlotTaken, Open, Done, Given, Subscribing, Top
  <2>1. /\ Open(i) /\ QosOf[m] = 2
        /\ Done(m) \/ (Fresh /\ Top.pkt.id = i)
        /\ Clear(up', Comps(i))
    BY DEF TableOf, SlotTaken
  <2>2. CASE Done(m)
    BY <2>1, <2>2
  <2>3. CASE Fresh /\ Top.pkt.id = i
    <3>1. Top \in Cycles(i)
      BY <1>1, <2>3 DEF Cycles
    <3>2. m = Top.pkt.body
      BY <1>1, <2>1, <2>3, <3>1 DEF SameMessage
    <3> QED
      BY <2>1, <2>3, <3>2 DEF FreshGoes
  <2> QED
    BY <2>1, <2>2, <2>3
<1>3. CyclesDone(i)'
  BY CyclesShrink DEF TableOf
<1> QED
  BY <1>2, <1>3 DEF TableOf

\* What every step of the client keeps, once subscriptions are seen to.
LEMMA ClientShares ==
    ASSUME TypeOK, LossInv, Subscription(stack'), FramesCome, UNCHANGED sessionVars,
           down' = down \/ (down # <<>> /\ down' = Tail(down))
    PROVE  /\ SubscribeInv' /\ \A m : Done(m) => Done(m)'
           /\ inflight' = inflight /\ retried' = retried /\ reused' = reused
           /\ DownShift /\ \A A : DownKept(A)
           /\ DOMAIN down \subseteq Nat /\ DOMAIN down' \subseteq Nat
           /\ stack \in Seq(Frame)
           /\ PublishesRight' /\ AckedDone'
<1>1. /\ UNCHANGED <<subs, inflight, acked, retried, reused>>
  BY DEF sessionVars, reuseVars
<1>2. SubscribeInv' /\ \A m : Done(m) => Done(m)'
  BY <1>1, SubscriptionKeeps DEF LossInv
<1>3. DownShift /\ DOMAIN down \subseteq Nat /\ DOMAIN down' \subseteq Nat
  BY Shifts DEF TypeOK
<1>4. \A A : DownKept(A)
  BY <1>3 DEF DownShift, DownKept
<1>5. PublishesRight'
  <2>1. PICK d \in {0, 1} : \A k \in DOMAIN down' : k + d \in DOMAIN down /\ down'[k] = down[k + d]
    BY <1>3 DEF DownShift
  <2> QED
    BY <2>1 DEF PublishesRight, LossInv
<1>6. AckedDone'
  <2>. SUFFICES ASSUME NEW m \in acked PROVE Done(m)'
    BY <1>1 DEF AckedDone, Done, Given, Subscribing
  <2> QED
    BY <1>2 DEF LossInv, AckedDone
<1> QED
  BY <1>1, <1>2, <1>3, <1>4, <1>5, <1>6 DEF TypeOK, ClientTypeOK

\* What is said of each packet id makes up LossInv.
LEMMA ClientLoss ==
    ASSUME TypeOK, LossInv, Subscription(stack'), FramesCome, UNCHANGED sessionVars,
           down' = down \/ (down # <<>> /\ down' = Tail(down)),
           TableIds',
           \A i \in BrokerIds \ reused : PipeOf(i)' /\ (Heard' => TableOf(i)')
    PROVE  LossInv'
<1>1. SubscribeInv' /\ reused' = reused /\ PublishesRight' /\ AckedDone'
  BY ClientShares
<1> QED
  BY <1>1 DEF LossInv

\* An id that a step adds nothing for.
LEMMA OthersKeep ==
    ASSUME TypeOK, LossInv, Subscription(stack'), FramesCome, UNCHANGED sessionVars,
           down' = down \/ (down # <<>> /\ down' = Tail(down)),
           NEW i \in BrokerIds \ reused, StackKept(i),
           Thins(up, up', Recs(i) \cup Comps(i)), Heard' => Heard,
           Recorded(i)' => Recorded(i), FreshGoes
    PROVE  PipeOf(i)' /\ (Heard' => TableOf(i)')
<1>1. /\ \A m : Done(m) => Done(m)'
      /\ inflight' = inflight /\ retried' = retried
      /\ \A A : DownKept(A)
      /\ DOMAIN down \subseteq Nat /\ DOMAIN down' \subseteq Nat
      /\ stack \in Seq(Frame)
  BY ClientShares
<1>2. PipeOf(i) /\ (Heard => TableOf(i))
  BY DEF LossInv
<1>3. PipeOf(i)'
  BY <1>1, <1>2, PipeShrinks
<1>4. Clear(up, Comps(i)) => Clear(up', Comps(i))
  <2>1. PICK A : A = Recs(i) \cup Comps(i)
    OBVIOUS
  <2> QED
    BY <2>1, ThinsParts
<1>5. ASSUME Heard' PROVE TableOf(i)'
  BY <1>1, <1>2, <1>4, <1>5, TableShrinks DEF PipeOf
<1> QED
  BY <1>3, <1>5

\* A step that does not concern the broker's messages.
LEMMA QuietLoss ==
    ASSUME TypeOK, LossInv, Quiet, Subscription(stack'), UNCHANGED sessionVars
    PROVE  LossInv'
<1>1. FramesCome
  BY DEF Quiet, Calm, FramesCome
<1>2. down' = down \/ (down # <<>> /\ down' = Tail(down))
  BY DEF Quiet
<1>3. FreshGoes
  BY DEF FreshGoes, Quiet, Done
<1>4. TableIds'
  BY DEF TableIds, LossInv, Quiet
<1>5. ASSUME NEW i \in BrokerIds \ reused PROVE PipeOf(i)' /\ (Heard' => TableOf(i)')
  <2>1. StackKept(i)
    BY CalmKept DEF Quiet
  <2>2. Thins(up, up', Recs(i) \cup Comps(i))
    <3>1. \A k \in DOMAIN up' : up'[k] \in Recs(i) \cup Comps(i) =>
            k \in DOMAIN up /\ up'[k] = up[k]
      BY DEF Quiet, Recs, Comps
    <3>2. PICK A : A = Recs(i) \cup Comps(i)
      OBVIOUS
    <3> QED
      BY <3>1, <3>2 DEF Thins, Lone
  <2>3. Recorded(i)' => Recorded(i)
    BY DEF Recorded, isQoS2msgidFree, Quiet
  <2>4. Heard' => Heard
    BY DEF Quiet
  <2> QED
    BY <1>1, <1>2, <1>3, <1>5, <2>1, <2>2, <2>3, <2>4, OthersKeep
<1> QED
  BY <1>1, <1>2, <1>4, <1>5, ClientLoss

\* useQoS2msgid and freeQoS2msgid enter no id but the one they are given.
LEMMA TableAdds ==
    ASSUME ClientTypeOK, NEW id, useQoS2msgid(id) \/ freeQoS2msgid(id)
    PROVE  /\ \A i : i # 0 /\ i # id /\ Recorded(i)' => Recorded(i)
           /\ \A s \in Slots : incoming_qos2_messages'[s] \in {incoming_qos2_messages[s], id, 0}
<1>1. CASE UNCHANGED incoming_qos2_messages
  BY <1>1 DEF Recorded, isQoS2msgidFree
<1>2. CASE \E s \in Slots :
             incoming_qos2_messages' = [incoming_qos2_messages EXCEPT ![s] = id]
             /\ useQoS2msgid(id)
  <2>1. PICK s \in Slots : incoming_qos2_messages' = [incoming_qos2_messages EXCEPT ![s] = id]
    BY <1>2
  <2>2. /\ incoming_qos2_messages'[s] = id
        /\ \A t \in Slots : t # s => incoming_qos2_messages'[t] = incoming_qos2_messages[t]
    BY <2>1 DEF ClientTypeOK
  <2> QED
    BY <1>2, <2>2 DEF Recorded, isQoS2msgidFree
<1>3. CASE \E s \in Slots :
             incoming_qos2_messages' = [incoming_qos2_messages EXCEPT ![s] = 0]
  <2>1. PICK s \in Slots : incoming_qos2_messages' = [incoming_qos2_messages EXCEPT ![s] = 0]
    BY <1>3
  <2>2. /\ incoming_qos2_messages'[s] = 0
        /\ \A t \in Slots : t # s => incoming_qos2_messages'[t] = incoming_qos2_messages[t]
    BY <2>1 DEF ClientTypeOK
  <2> QED
    BY <2>2 DEF Recorded, isQoS2msgidFree
<1> QED
  BY <1>1, <1>2, <1>3 DEF useQoS2msgid, freeQoS2msgid

\* ReadPublish pushes a cycle that delivers the packet it has read.
LEMMA PublishStep ==
    ASSUME TypeOK, Assumptions, ReadPublish, NEW p, p = Head(down)
    PROVE  /\ down # <<>> /\ down' = Tail(down) /\ 1 \in DOMAIN down /\ down[1] = p
           /\ p \in DownPacket /\ p.type = "PUBLISH"
           /\ ~Fresh /\ up' = up /\ (Heard' => Heard)
           /\ Len(stack') = Len(stack) + 1 /\ Len(stack) \in Nat /\ readbuf' = p.body
           /\ \A k \in DOMAIN stack' :
                \/ k \in DOMAIN stack /\ stack'[k] = stack[k]
                \/ k = Len(stack') /\ stack'[k] \in DeliverFrame /\ stack'[k].pkt = p
           /\ stack' # <<>> /\ stack'[Len(stack')] \in DeliverFrame
           /\ stack'[Len(stack')].pkt = p
           /\ Accept(p) => Fresh'
           /\ Subscription(stack') /\ FramesCome
<1>. USE DEF TypeOK, Assumptions
<1>1. /\ Reads({"PUBLISH"}) /\ readbuf' = p.body /\ (Accept(p) \/ Ignore(p))
      /\ UNCHANGED <<up, link, messageHandlers, handled, unheard>>
      /\ overflowed \subseteq overflowed'
  BY DEF ReadPublish, tableVars, callVars, pingVars
<1>2. /\ ~Fresh /\ down # <<>> /\ down' = Tail(down) /\ p \in DownPacket
      /\ p.type = "PUBLISH" /\ stack \in Seq(Frame)
  BY <1>1, ReadsTop
<1>3. 1 \in DOMAIN down /\ down[1] = p
  BY <1>1, ReadsThins
<1>4. PICK slot \in Nat \ {0} : stack' = Append(stack, DeliverFrom(p, slot)) /\ (Accept(p) => slot = 1)
  <2>1. CASE Accept(p)
    BY <2>1 DEF Accept
  <2>2. CASE ~Accept(p)
    <3>1. NoHandler \in Nat \ {0}
      BY LenProperties DEF NoHandler, ClientTypeOK
    <3> QED
      BY <1>1, <2>2, <3>1 DEF Ignore
  <2> QED
    BY <2>1, <2>2
<1>5. PICK f : f = DeliverFrom(p, slot)
  OBVIOUS
<1>6. f \in DeliverFrame /\ f.pkt = p /\ ~f.running /\ f.slot = slot
  BY <1>2, <1>5 DEF DeliverFrom, DeliverFrame, ClientAssumption
<1>7. f \in Frame
  BY <1>2, <1>6 DEF Frame
<1>8. PICK t : t = Append(stack, f)
  OBVIOUS
<1>9. /\ t \in Seq(Frame) /\ Len(t) = Len(stack) + 1 /\ Len(stack) \in Nat
      /\ t[Len(t)] = f
  BY <1>2, <1>7, <1>8, AppendProperties, LenProperties
<1>10. /\ GoesOn(stack, t)
       /\ \A k \in DOMAIN stack : t[k] = stack[k]
       /\ \A k \in DOMAIN t : k \in DOMAIN stack \/ k = Len(t)
  BY <1>2, <1>8, <1>9, PushShape
<1>11. t # <<>>
  BY <1>9
<1>12. stack' = t
  BY <1>4, <1>5, <1>8
<1>13. Accept(p) => Fresh'
  BY <1>1, <1>4, <1>6, <1>9, <1>11, <1>12 DEF Fresh, FreshTop
<1>14. Heard' => Heard
  BY <1>1 DEF Heard
<1>15. Subscription(stack')
  <2>1. \A topic : Known(topic) => Known(topic)'
    BY <1>1 DEF Known
  <2> QED
    BY <1>1, <1>10, <1>12, <2>1 DEF Subscription, GoesOn, Subscribing
<1>16. FramesCome
  BY <1>2, <1>3, <1>6, <1>9, <1>10, <1>12 DEF FramesCome
<1> QED
  BY <1>1, <1>2, <1>3, <1>6, <1>9, <1>10, <1>11, <1>12, <1>13, <1>14, <1>15, <1>16

\* A PUBLISH is read; for its own id what was on the way down is now a cycle.
LEMMA PublishLoss ==
    ASSUME TypeOK, Assumptions, LossInv, ReadPublish, UNCHANGED sessionVars
    PROVE  LossInv'
<1>1. PICK p : p = Head(down)
  OBVIOUS
<1>2. /\ down # <<>> /\ down' = Tail(down) /\ 1 \in DOMAIN down /\ down[1] = p
      /\ p \in DownPacket /\ p.type = "PUBLISH"
      /\ ~Fresh /\ up' = up /\ (Heard' => Heard)
      /\ Len(stack') = Len(stack) + 1 /\ Len(stack) \in Nat
      /\ \A k \in DOMAIN stack' :
           \/ k \in DOMAIN stack /\ stack'[k] = stack[k]
           \/ k = Len(stack') /\ stack'[k] \in DeliverFrame /\ stack'[k].pkt = p
      /\ stack' # <<>> /\ stack'[Len(stack')] \in DeliverFrame
      /\ stack'[Len(stack')].pkt = p
      /\ Accept(p) => Fresh'
      /\ Subscription(stack') /\ FramesCome
  BY <1>1, PublishStep
<1>3. \/ p.val # 2 /\ Accept(p) /\ incoming_qos2_messages' = incoming_qos2_messages
      \/ p.val = 2 /\ useQoS2msgid(p.id) /\ Accept(p)
      \/ p.val = 2 /\ p.body \in overflowed' /\ incoming_qos2_messages' = incoming_qos2_messages
      \/ p.val = 2 /\ Recorded(p.id) /\ incoming_qos2_messages' = incoming_qos2_messages
  BY <1>1 DEF ReadPublish, Recorded
<1>4. p.val = QosOf[p.body] /\ (p.val = 2 => p.id \in BrokerIds)
  BY <1>2 DEF LossInv, PublishesRight
<1>5. ClientTypeOK /\ BrokerIds \subseteq Nat \ {0}
  BY DEF TypeOK, Assumptions, BrokerAssumption, PacketId
<1>6. /\ \A i \in BrokerIds : i # p.id /\ Recorded(i)' => Recorded(i)
      /\ TableIds'
  <2>1. CASE incoming_qos2_messages' = incoming_qos2_messages
    BY <2>1 DEF Recorded, isQoS2msgidFree, TableIds, LossInv
  <2>2. CASE p.val = 2 /\ useQoS2msgid(p.id)
    <3>1. /\ \A i : i # 0 /\ i # p.id /\ Recorded(i)' => Recorded(i)
          /\ \A s \in Slots :
               incoming_qos2_messages'[s] \in {incoming_qos2_messages[s], p.id, 0}
      BY <1>5, <2>2, TableAdds
    <3>2. TableIds'
      BY <1>4, <2>2, <3>1 DEF TableIds, LossInv
    <3> QED
      BY <1>5, <3>1, <3>2
  <2> QED
    BY <1>3, <2>1, <2>2
<1>7. /\ \A m : Done(m) => Done(m)'
      /\ inflight' = inflight /\ retried' = retried
      /\ \A A : DownKept(A)
      /\ DOMAIN down \subseteq Nat /\ DOMAIN down' \subseteq Nat
      /\ stack \in Seq(Frame)
  BY <1>2, ClientShares
<1>8. ASSUME NEW i \in BrokerIds \ reused, i # p.id PROVE PipeOf(i)' /\ (Heard' => TableOf(i)')
  <2>1. StackKept(i)
    BY <1>2, <1>8 DEF StackKept, Cycles
  <2>2. Thins(up, up', Recs(i) \cup Comps(i))
    BY <1>2, SameThins
  <2>3. Recorded(i)' => Recorded(i)
    BY <1>6, <1>8
  <2>4. FreshGoes
    BY <1>2 DEF FreshGoes
  <2> QED
    BY <1>2, <1>8, <2>1, <2>2, <2>3, <2>4, OthersKeep
<1>9. ASSUME NEW i \in BrokerIds \ reused, i = p.id PROVE PipeOf(i)' /\ (Heard' => TableOf(i)')
  <2>1. PipeOf(i) /\ (Heard => TableOf(i))
    BY DEF LossInv
  <2>2. PICK B : B = Pubs(i) \cup Rels(i)
    OBVIOUS
  <2>3. p \in Pubs(i) /\ p \in B
    BY <1>2, <1>9, <2>2 DEF Pubs
  <2>4. ~Clear(down, B) /\ ~Clear(down, Pubs(i))
    BY <1>2, <2>3 DEF Clear
  <2>5. Lone(down, B) => Clear(down', B)
    <3>1. Reads({"PUBLISH"})
      BY DEF ReadPublish
    <3> QED
      BY <1>1, <2>3, <3>1, ReadsThins DEF TypeOK
  <2>6. /\ \A C : C \subseteq B /\ Clear(down, C) => Clear(down', C)
        /\ \A C, D :
             /\ C \subseteq B /\ D \subseteq B
             /\ \A j, k \in DOMAIN down : down[j] \in C /\ down[k] \in D => k < j
             => \A j, k \in DOMAIN down' : down'[j] \in C /\ down'[k] \in D => k < j
    BY <1>7, KeptThins
  <2>7. Clear(up, Comps(i))
    BY <2>1, <2>4 DEF PipeOf, InPhase
  <2>8. Clean(i)'
    <3>1. ASSUME i \notin retried' PROVE Single(i)' /\ (~Open(i)' => Empty(i)')
      <4>1. Single(i) /\ (~Open(i) => Empty(i))
        BY <1>7, <2>1, <3>1 DEF PipeOf, Clean
      <4>2. Open(i) /\ Open(i)'
        BY <1>7, <2>2, <2>4, <4>1 DEF Empty, Open
      <4>3. Clear(up, Recs(i) \cup Comps(i)) /\ Clear(stack, Cycles(i)) /\ Clear(down', B)
        BY <2>2, <2>4, <2>5, <4>1 DEF Single
      <4>4. Lone(stack', Cycles(i))
        BY <1>2, <4>3 DEF Clear, Lone
      <4>5. Lone(up', Recs(i) \cup Comps(i)) /\ Clear(up', Recs(i) \cup Comps(i))
        BY <1>2, <4>3 DEF Clear, Lone
      <4>6. Lone(down', B)
        BY <4>3 DEF Clear, Lone
      <4> QED
        BY <2>2, <4>2, <4>3, <4>4, <4>5, <4>6 DEF Single
    <3> QED
      BY <3>1 DEF Clean
  <2>9. InPhase(i)'
    <3>1. \A j, k \in DOMAIN down' : down'[j] \in Rels(i) /\ down'[k] \in Pubs(i) => k < j
      BY <2>1, <2>2, <2>6 DEF PipeOf, InPhase
    <3>2. Clear(down, Rels(i)) => Clear(down', Rels(i))
      BY <2>2, <2>6
    <3>3. Clear(up', Comps(i))
      BY <1>2, <2>7
    <3>4. inflight'[i].phase = "pub" => Clear(down', Rels(i))
      BY <1>7, <2>1, <3>2 DEF PipeOf, InPhase
    <3> QED
      BY <3>1, <3>3, <3>4 DEF InPhase
  <2>10. /\ p.val = 2 => Open(i)
         /\ Open(i) => inflight[i].msg = p.body
    BY <1>2, <2>1, <2>3 DEF PipeOf, SameMessage
  <2>11. SameMessage(i)'
    <3>1. \A k \in DOMAIN down' : down'[k] \in Pubs(i) =>
            /\ down'[k].val = 2 => Open(i)
            /\ Open(i) => inflight[i].msg = down'[k].body
      BY <1>7, <2>1, MessageShrinks DEF PipeOf
    <3>2. \A k \in DOMAIN stack' : stack'[k] \in Cycles(i) /\ Open(i) =>
            inflight[i].msg = stack'[k].pkt.body
      BY <1>2, <2>1, <2>10 DEF PipeOf, SameMessage
    <3> QED
      BY <1>7, <3>1, <3>2 DEF SameMessage, Open
  <2>12. AnsweredDone(i)'
    BY <1>2, <1>7, <2>1, AnsweredShrinks DEF PipeOf
  <2>13. ASSUME Heard' PROVE TableOf(i)'
    <3>1. TableOf(i)
      BY <1>2, <2>1, <2>13
    <3>2. ASSUME Recorded(i)
          PROVE  Open(i) /\ p.val = 2 /\ Done(p.body)
      BY <1>2, <1>4, <2>10, <3>1, <3>2 DEF TableOf, SlotTaken
    <3>3. PICK m : m = p.body
      OBVIOUS
    <3>4. Done(m)' \/ Fresh'
      <4>1. p.body \in overflowed' => Done(m)'
        BY <3>3 DEF Done
      <4> QED
        BY <1>2, <1>3, <1>7, <1>9, <3>2, <3>3, <4>1
    <3>5. SlotTaken(i)'
      <4>. SUFFICES ASSUME Recorded(i)', NEW n, n = inflight[i].msg
                    PROVE  /\ Open(i) /\ QosOf[n] = 2
                           /\ Done(n)' \/ (Fresh' /\ stack'[Len(stack')].pkt.id = i)
                           /\ Clear(up', Comps(i))
        BY <1>7 DEF SlotTaken, Open, Done, Given, Subscribing, Top
      <4>1. p.val = 2
        <5>1. CASE incoming_qos2_messages' = incoming_qos2_messages
          BY <3>2, <5>1 DEF Recorded, isQoS2msgidFree
        <5> QED
          BY <1>3, <5>1
      <4>2. Open(i) /\ n = m
        BY <2>10, <3>3, <4>1
      <4> QED
        BY <1>2, <1>4, <1>9, <2>7, <3>3, <3>4, <4>1, <4>2
    <3>6. CyclesDone(i)'
      <4>. SUFFICES ASSUME NEW k \in DOMAIN stack', stack'[k] \in Cycles(i),
                           NEW n, n = stack'[k].pkt.body
                    PROVE  Done(n)' \/ (k = Len(stack') /\ Fresh')
        BY DEF CyclesDone, Done, Given, Subscribing
      <4>1. CASE k \in DOMAIN stack /\ stack'[k] = stack[k]
        <5>1. Done(n)
          BY <1>2, <3>1, <4>1 DEF TableOf, CyclesDone
        <5> QED
          BY <1>7, <5>1
      <4>2. CASE k = Len(stack') /\ stack'[k].pkt = p
        BY <3>3, <3>4, <4>2
      <4> QED
        BY <1>2, <4>1, <4>2
    <3> QED
      BY <3>5, <3>6 DEF TableOf
  <2> QED
    BY <2>8, <2>9, <2>11, <2>12, <2>13 DEF PipeOf
<1> QED
  BY <1>2, <1>6, <1>8, <1>9, ClientLoss

\* freeQoS2msgid clears slots only, and no slot holds the id any more.
LEMMA FreeClears ==
    ASSUME ClientTypeOK, SlotsDistinct, NEW id, id # 0, freeQoS2msgid(id)
    PROVE  /\ ~Recorded(id)'
           /\ \A s \in Slots : incoming_qos2_messages'[s] \in {incoming_qos2_messages[s], 0}
<1>1. CASE isQoS2msgidFree(id) /\ UNCHANGED incoming_qos2_messages
  BY <1>1 DEF Recorded, isQoS2msgidFree
<1>2. CASE \E s \in Slots :
             /\ FirstSlot(s, id)
             /\ incoming_qos2_messages' = [incoming_qos2_messages EXCEPT ![s] = 0]
  <2>1. PICK s \in Slots :
          /\ incoming_qos2_messages[s] = id
          /\ incoming_qos2_messages' = [incoming_qos2_messages EXCEPT ![s] = 0]
    BY <1>2 DEF FirstSlot
  <2>2. /\ incoming_qos2_messages'[s] = 0
        /\ \A t \in Slots : t # s => incoming_qos2_messages'[t] = incoming_qos2_messages[t]
    BY <2>1 DEF ClientTypeOK
  <2>3. \A t \in Slots : t # s => incoming_qos2_messages[t] # id
    BY <2>1 DEF SlotsDistinct
  <2> QED
    BY <2>2, <2>3 DEF Recorded, isQoS2msgidFree
<1> QED
  BY <1>1, <1>2 DEF freeQoS2msgid

\* What stays in its place in up.
LEMMA IndexThins ==
    ASSUME NEW A, \A k \in DOMAIN up' : up'[k] \in A => k \in DOMAIN up /\ up'[k] = up[k]
    PROVE  Thins(up, up', A) /\ (Clear(up, A) => Clear(up', A))
  BY DEF Thins, Lone, Clear

\* ReadPubrel answers with PUBCOMP, and then releases the id.
LEMMA PubrelStep ==
    ASSUME TypeOK, Assumptions, NEW outcome, ReadPubrel(outcome), NEW p, p = Head(down)
    PROVE  /\ down # <<>> /\ down' = Tail(down) /\ 1 \in DOMAIN down /\ down[1] = p
           /\ p \in DownPacket /\ p.type = "PUBREL" /\ ~Fresh
           /\ Calm(stack, stack') /\ Subscription(stack') /\ FramesCome
           /\ \E q : q.type = "PUBCOMP" /\ q.id = p.id /\ UpGrows(q)
           /\ \/ incoming_qos2_messages' = incoming_qos2_messages
              \/ freeQoS2msgid(p.id)
           /\ Heard' => \/ /\ up' = up
                           /\ incoming_qos2_messages' = incoming_qos2_messages
                        \/ freeQoS2msgid(p.id)
<1>. USE DEF TypeOK, Assumptions
<1>1. /\ Reads({"PUBREL"}) /\ link' = link
      /\ sendPacket(Ack("PUBCOMP", p.id), outcome, pingExpired)
      /\ stack' = AfterCycle(stack, outcome = "sent")
      /\ UNCHANGED <<messageHandlers, unheard, handled, overflowed>>
      /\ outcome = "sent" => freeQoS2msgid(p.id)
      /\ outcome # "sent" => incoming_qos2_messages' = incoming_qos2_messages
  BY DEF ReadPubrel, historyVars
<1>2. /\ ~Fresh /\ down # <<>> /\ down' = Tail(down) /\ p \in DownPacket
      /\ p.type = "PUBREL" /\ stack \in Seq(Frame)
  BY <1>1, ReadsTop
<1>3. 1 \in DOMAIN down /\ down[1] = p
  BY <1>1, ReadsThins
<1>4. PICK q : q = Ack("PUBCOMP", p.id)
  OBVIOUS
<1>5. q \in UpPacket /\ q.type = "PUBCOMP" /\ q.id = p.id
  BY <1>2, <1>4, AckType DEF PacketType, AckTypes, Ack, MkPacket
<1>6. UpGrows(q)
  BY <1>1, <1>4, <1>5, SendGrows
<1>7. PICK ok : stack' = AfterCycle(stack, ok)
  BY <1>1
<1>8. Calm(stack, stack') /\ GoesOn(stack, stack')
  BY <1>2, <1>7, AfterCycleShape
<1>9. Subscription(stack')
  BY <1>1, <1>5, <1>6, <1>8, SameSubscription
<1>10. FramesCome
  BY <1>8 DEF Calm, FramesCome
<1>11. Heard' => (up' = up /\ outcome = "nothing") \/ outcome = "sent"
  BY <1>1, <1>4, <1>5, SendHeard
<1> QED
  BY <1>1, <1>2, <1>3, <1>5, <1>6, <1>8, <1>9, <1>10, <1>11

\* A PUBREL is read; if its answer reaches the broker, the slot is free.
LEMMA PubrelLoss ==
    ASSUME TypeOK, Assumptions, SlotsDistinct, LossInv, NEW outcome, ReadPubrel(outcome),
           UNCHANGED sessionVars
    PROVE  LossInv'
<1>1. PICK p : p = Head(down)
  OBVIOUS
<1>2. /\ down # <<>> /\ down' = Tail(down) /\ 1 \in DOMAIN down /\ down[1] = p
      /\ p \in DownPacket /\ p.type = "PUBREL" /\ ~Fresh
      /\ Calm(stack, stack') /\ Subscription(stack') /\ FramesCome
      /\ \E q : q.type = "PUBCOMP" /\ q.id = p.id /\ UpGrows(q)
      /\ \/ incoming_qos2_messages' = incoming_qos2_messages
         \/ freeQoS2msgid(p.id)
      /\ Heard' => \/ /\ up' = up
                      /\ incoming_qos2_messages' = incoming_qos2_messages
                   \/ freeQoS2msgid(p.id)
  BY <1>1, PubrelStep
<1>3. PICK q : q.type = "PUBCOMP" /\ q.id = p.id /\ UpGrows(q)
  BY <1>2
<1>4. /\ \A k \in DOMAIN up' :
           up'[k].type \in {"PUBACK", "PUBREC", "PUBCOMP"} =>
             \/ k \in DOMAIN up /\ up'[k] = up[k]
             \/ k = Len(up) + 1 /\ up'[k] = q
      /\ Heard' => Heard
  <2>1. Garbage.type = "garbage"
    BY DEF Garbage, Bare, Ack, MkPacket
  <2> QED
    BY <1>3, <2>1 DEF UpGrows
<1>5. ClientTypeOK /\ BrokerIds \subseteq Nat \ {0}
  BY DEF TypeOK, Assumptions, BrokerAssumption, PacketId
<1>6. /\ \A i \in BrokerIds : Recorded(i)' => Recorded(i)
      /\ TableIds'
  <2>1. CASE incoming_qos2_messages' = incoming_qos2_messages
    BY <2>1 DEF Recorded, isQoS2msgidFree, TableIds, LossInv
  <2>2. CASE freeQoS2msgid(p.id)
    <3>1. CASE p.id # 0
      <4>1. /\ ~Recorded(p.id)'
            /\ \A s \in Slots : incoming_qos2_messages'[s] \in {incoming_qos2_messages[s], 0}
        BY <1>5, <2>2, <3>1, FreeClears
      <4> QED
        BY <1>5, <4>1 DEF TableIds, LossInv, Recorded, isQoS2msgidFree
    <3>2. CASE p.id = 0
      <4>1. \A s \in Slots : incoming_qos2_messages'[s] \in {incoming_qos2_messages[s], p.id, 0}
        BY <1>5, <2>2, TableAdds
      <4> QED
        BY <1>5, <3>2, <4>1 DEF TableIds, LossInv, Recorded, isQoS2msgidFree
    <3> QED
      BY <3>1, <3>2
  <2> QED
    BY <1>2, <2>1, <2>2
<1>7. /\ \A m : Done(m) => Done(m)'
      /\ inflight' = inflight /\ retried' = retried
      /\ \A A : DownKept(A)
      /\ DOMAIN down \subseteq Nat /\ DOMAIN down' \subseteq Nat
      /\ stack \in Seq(Frame)
  BY <1>2, ClientShares
<1>8. FreshGoes
  BY <1>2 DEF FreshGoes
<1>9. ASSUME NEW i \in BrokerIds \ reused, i # p.id PROVE PipeOf(i)' /\ (Heard' => TableOf(i)')
  <2>1. StackKept(i)
    BY <1>2, CalmKept
  <2>2. Thins(up, up', Recs(i) \cup Comps(i))
    <3>1. \A k \in DOMAIN up' : up'[k] \in Recs(i) \cup Comps(i) =>
            k \in DOMAIN up /\ up'[k] = up[k]
      BY <1>3, <1>4, <1>9 DEF Recs, Comps
    <3> QED
      BY <3>1, IndexThins
  <2>3. Recorded(i)' => Recorded(i)
    BY <1>6
  <2> QED
    BY <1>2, <1>4, <1>8, <1>9, <2>1, <2>2, <2>3, OthersKeep
<1>10. ASSUME NEW i \in BrokerIds \ reused, i = p.id PROVE PipeOf(i)' /\ (Heard' => TableOf(i)')
  <2>1. PipeOf(i) /\ (Heard => TableOf(i)) /\ StackKept(i)
    BY <1>2, CalmKept DEF LossInv
  <2>2. PICK B : B = Pubs(i) \cup Rels(i)
    OBVIOUS
  <2>3. p \in Rels(i) /\ p \in B
    BY <1>2, <1>10, <2>2 DEF Rels
  <2>4. ~Clear(down, B) /\ ~Clear(down, Rels(i))
    BY <1>2, <2>3 DEF Clear
  <2>5. Lone(down, B) => Clear(down', B)
    <3>1. Reads({"PUBREL"})
      BY DEF ReadPubrel
    <3> QED
      BY <1>1, <2>3, <3>1, ReadsThins DEF TypeOK
  <2>6. \A C : C \subseteq B /\ Clear(down, C) => Clear(down', C)
    BY <1>7, KeptThins
  <2>7. Clear(down, Pubs(i))
    <3>1. \A k \in DOMAIN down : down[k] \in Pubs(i) => k < 1
      BY <1>2, <2>1, <2>3 DEF PipeOf, InPhase
    <3>2. \A k \in DOMAIN down : ~(k < 1)
      BY LenProperties DEF TypeOK, LinkTypeOK
    <3> QED
      BY <3>1, <3>2 DEF Clear
  <2>8. Clear(down', Pubs(i))
    BY <2>2, <2>6, <2>7
  <2>9. Clean(i)'
    <3>1. ASSUME i \notin retried' PROVE Single(i)' /\ (~Open(i)' => Empty(i)')
      <4>1. Single(i) /\ (~Open(i) => Empty(i))
        BY <1>7, <2>1, <3>1 DEF PipeOf, Clean
      <4>2. Open(i) /\ Open(i)'
        BY <1>7, <2>2, <2>4, <4>1 DEF Empty, Open
      <4>3. Clear(up, Recs(i) \cup Comps(i)) /\ Clear(stack, Cycles(i)) /\ Clear(down', B)
        BY <2>2, <2>4, <2>5, <4>1 DEF Single
      <4>4. Clear(stack', Cycles(i))
        BY <2>1, <4>3, KeptCycles
      <4>5. Lone(up', Recs(i) \cup Comps(i))
        <5>1. \A k \in DOMAIN up' : up'[k] \in Recs(i) \cup Comps(i) => k = Len(up) + 1
          BY <1>4, <4>3 DEF Recs, Comps, Clear
        <5>2. PICK A : A = Recs(i) \cup Comps(i)
          OBVIOUS
        <5> QED
          BY <5>1, <5>2 DEF Lone
      <4>6. Lone(down', B) /\ Lone(stack', Cycles(i))
        BY <4>3, <4>4 DEF Clear, Lone
      <4> QED
        BY <2>2, <4>2, <4>3, <4>4, <4>5, <4>6 DEF Single
    <3> QED
      BY <3>1 DEF Clean
  <2>10. InPhase(i)'
    <3>1. \A j, k \in DOMAIN down' : down'[j] \in Rels(i) /\ down'[k] \in Pubs(i) => k < j
      BY <2>8 DEF Clear
    <3>2. inflight'[i].phase # "pub"
      BY <1>7, <2>1, <2>4 DEF PipeOf, InPhase
    <3> QED
      BY <2>8, <3>1, <3>2 DEF InPhase
  <2>11. SameMessage(i)'
    BY <1>7, <2>1, MessageShrinks DEF PipeOf
  <2>12. AnsweredDone(i)'
    <3>1. \A k \in DOMAIN up' : up'[k] \in Recs(i) => k \in DOMAIN up /\ up'[k] = up[k]
      BY <1>3, <1>4 DEF Recs
    <3>2. Clear(up, Recs(i)) => Clear(up', Recs(i))
      BY <3>1, IndexThins
    <3> QED
      BY <1>7, <2>1, <3>2, AnsweredShrinks DEF PipeOf
  <2>13. ASSUME Heard' PROVE TableOf(i)'
    <3>1. TableOf(i)
      BY <1>4, <2>1, <2>13
    <3>2. CASE up' = up
      <4>1. Clear(up, Comps(i)) => Clear(up', Comps(i))
        BY <3>2
      <4> QED
        BY <1>6, <1>7, <1>8, <2>1, <3>1, <4>1, TableShrinks DEF PipeOf
    <3>3. CASE freeQoS2msgid(p.id)
      <4>1. ~Recorded(i)'
        BY <1>5, <1>10, <3>3, FreeClears
      <4>2. SlotTaken(i)'
        BY <4>1 DEF SlotTaken
      <4>3. CyclesDone(i)'
        BY <1>7, <1>8, <2>1, <3>1, CyclesShrink DEF TableOf
      <4> QED
        BY <4>2, <4>3 DEF TableOf
    <3> QED
      BY <1>2, <2>13, <3>2, <3>3
  <2> QED
    BY <2>9, <2>10, <2>11, <2>12, <2>13 DEF PipeOf
<1> QED
  BY <1>2, <1>6, <1>9, <1>10, ClientLoss

\* A set of slots has a first one: finite sets are well-founded.
LEMMA FirstOf ==
    ASSUME NEW S \in SUBSET Nat, S # {}
    PROVE  \E m \in S : \A n \in S : m <= n
<1>. DEFINE T == {0..n : n \in S}
<1>1. T \subseteq FiniteSubsetsOf(Nat) /\ T # {}
  <2>1. ASSUME NEW n \in S PROVE 0..n \in SUBSET Nat /\ IsFiniteSet(0..n)
    BY FS_Interval
  <2> QED
    BY <2>1 DEF FiniteSubsetsOf
<1>2. PICK I \in T : \A J \in T : <<J, I>> \notin StrictSubsetOrdering(Nat)
  <2>. HIDE DEF T
  <2> QED
    BY <1>1, FS_StrictSubsetOrderingWellFounded, WFMin
<1>3. PICK m \in S : I = 0..m
  OBVIOUS
<1>4. ASSUME NEW n \in S PROVE m <= n
  <2>1. 0..n \in T /\ I \in SUBSET Nat /\ 0..n \in SUBSET Nat
    BY <1>1 DEF FiniteSubsetsOf
  <2>2. ~(0..n \subseteq 0..m /\ 0..n # 0..m)
    BY <1>2, <1>3, <2>1 DEF StrictSubsetOrdering
  <2>3. n < m => 0..n \subseteq 0..m /\ m \notin 0..n /\ m \in 0..m
    OBVIOUS
  <2> QED
    BY <2>2, <2>3
<1> QED
  BY <1>4

\* A cycle that looks for handlers for the first time and finds none has a
\* message whose topic has no handler yet.
LEMMA NoMatchGiven ==
    ASSUME TypeOK, SubscribeInv, Fresh, \A i \in DOMAIN messageHandlers : ~NextMatch(i)
    PROVE  \E m : m = Top.pkt.body /\ Given(TopicOf[m])
<1>1. PICK t : t = TopicOf[Top.pkt.body]
  OBVIOUS
<1>2. /\ stack \in Seq(Frame) /\ stack # <<>> /\ Top = stack[Len(stack)]
      /\ Top \in DeliverFrame /\ Top.slot = 1 /\ readbuf = Top.pkt.body
      /\ messageHandlers \in Seq(Topics)
  BY DEF Fresh, FreshTop, Top, TypeOK, ClientTypeOK
<1>3. Len(stack) \in DOMAIN stack
  BY <1>2, EmptySeq, LenProperties
<1>4. Known(t) \/ Given(t)
  BY <1>1, <1>2, <1>3 DEF SubscribeInv, FramesKnown
<1>5. SeenTopic = t
  BY <1>1, <1>2 DEF SeenTopic
<1>6. ASSUME NEW k \in DOMAIN messageHandlers, messageHandlers[k] = t PROVE FALSE
  <2>1. DOMAIN messageHandlers = 1..Len(messageHandlers) /\ Len(messageHandlers) \in Nat
    BY <1>2, LenProperties
  <2>2. PICK S : S = {j \in DOMAIN messageHandlers : messageHandlers[j] = t}
    OBVIOUS
  <2>3. S \in SUBSET Nat /\ S # {}
    BY <1>6, <2>1, <2>2
  <2>4. PICK m \in S : \A n \in S : m <= n
    BY <2>3, FirstOf
  <2>5. /\ m \in 1..Len(messageHandlers) /\ messageHandlers[m] = t
        /\ \A j \in 1..(m - 1) : messageHandlers[j] # t
    BY <2>1, <2>2, <2>4
  <2>6. NextMatch(m)
    BY <1>2, <1>5, <2>5 DEF NextMatch
  <2> QED
    BY <2>1, <2>5, <2>6
<1>7. Given(t)
  BY <1>4, <1>6 DEF Known, Given
<1> QED
  BY <1>1, <1>7

\* A cycle answers the PUBLISH it has delivered, and is gone.
LEMMA AckStep ==
    ASSUME TypeOK, Assumptions, NEW outcome, AcknowledgePublish(outcome), NEW p, p = Top.pkt
    PROVE  /\ stack # <<>> /\ Len(stack) \in DOMAIN stack /\ Top = stack[Len(stack)]
           /\ Top \in DeliverFrame
           /\ \A i \in DOMAIN messageHandlers : ~NextMatch(i)
           /\ \A k \in DOMAIN stack' : stack'[k] \in DeliverFrame =>
                /\ k \in DOMAIN stack /\ k # Len(stack)
                /\ stack[k] \in DeliverFrame /\ stack'[k].pkt = stack[k].pkt
           /\ down' = down /\ incoming_qos2_messages' = incoming_qos2_messages
           /\ Subscription(stack') /\ FramesCome
           /\ \E q : /\ UpGrows(q) /\ q.type \in {"PINGREQ", "PUBACK", "PUBREC"}
                     /\ q.type # "PINGREQ" => q.id = p.id
<1>. USE DEF TypeOK, Assumptions
<1>1. /\ Delivering /\ down' = down /\ link' = link
      /\ \A i \in DOMAIN messageHandlers : ~NextMatch(i)
      /\ UNCHANGED <<messageHandlers, incoming_qos2_messages, unheard, handled, overflowed>>
  BY DEF AcknowledgePublish, tableVars, historyVars
<1>2. /\ Len(stack) \in DOMAIN stack /\ Top = stack[Len(stack)] /\ stack # <<>>
      /\ Top \in DeliverFrame /\ stack \in Seq(Frame) /\ Len(stack) \in Nat
  BY <1>1, DeliveringTypes, LenProperties DEF ClientTypeOK
<1>3. p \in DownPacket
  BY <1>2 DEF DeliverFrame
<1>4. PICK b : b = SubSeq(stack, 1, Len(stack) - 1)
  OBVIOUS
<1>5. /\ Calm(stack, b) /\ Len(b) = Len(stack) - 1
      /\ GoesOnBelow(stack, b)
  BY <1>2, <1>4, PopShape
<1>6. b \in Seq(Frame)
  <2>1. Below \in Seq(Frame)
    BY <1>2, StackTypes
  <2> QED
    BY <1>4, <2>1 DEF Below
<1>7. Len(stack) \notin DOMAIN b
  BY <1>2, <1>5, <1>6, LenProperties
<1>8. GoesOn(stack, b)
  BY <1>2, <1>5 DEF GoesOn, GoesOnBelow, DeliverFrame
<1>9. Calm(b, stack') /\ GoesOn(b, stack')
  <2>1. PICK ok : stack' = b \/ stack' = AfterCycle(b, ok)
    BY <1>4 DEF AcknowledgePublish, Below
  <2>2. Calm(b, AfterCycle(b, ok)) /\ GoesOn(b, AfterCycle(b, ok))
    BY <1>6, AfterCycleShape
  <2>3. Calm(b, b) /\ GoesOn(b, b)
    BY ShapeTrans
  <2> QED
    BY <2>1, <2>2, <2>3
<1>10. \A k \in DOMAIN stack' : stack'[k] \in DeliverFrame =>
         /\ k \in DOMAIN stack /\ k # Len(stack)
         /\ stack[k] \in DeliverFrame /\ stack'[k].pkt = stack[k].pkt
  BY <1>5, <1>7, <1>9 DEF Calm
<1>11. PICK q : /\ UpGrows(q) /\ q.type \in {"PINGREQ", "PUBACK", "PUBREC"}
                /\ q.type # "PINGREQ" => q.id = p.id
  <2>1. CASE Top.pkt.val = 0
    <3>1. keepalive(ping_outstanding, outcome)
      BY <2>1 DEF AcknowledgePublish
    <3> QED
      BY <1>1, <3>1, KeepaliveGrows, PingType
  <2>2. CASE Top.pkt.val # 0
    <3>1. PICK type \in {"PUBACK", "PUBREC"} : sendPacket(Ack(type, p.id), outcome, pingExpired)
      BY <2>2 DEF AcknowledgePublish
    <3>2. PICK a : a = Ack(type, p.id)
      OBVIOUS
    <3>3. a \in UpPacket /\ a.type = type /\ a.id = p.id
      BY <1>3, <3>1, <3>2, AckType DEF PacketType, AckTypes, Ack, MkPacket
    <3> QED
      BY <1>1, <3>1, <3>2, <3>3, SendGrows
  <2> QED
    BY <2>1, <2>2
<1>12. GoesOn(stack, stack')
  BY <1>8, <1>9, ShapeTrans
<1>13. Subscription(stack')
  BY <1>1, <1>11, <1>12, SameSubscription
<1>14. FramesCome
  BY <1>10 DEF FramesCome
<1> QED
  BY <1>1, <1>2, <1>10, <1>11, <1>13, <1>14

\* A PUBLISH is answered: its message has been handled, or has no handler yet.
LEMMA AckLoss ==
    ASSUME TypeOK, Assumptions, LossInv, NEW outcome, AcknowledgePublish(outcome),
           UNCHANGED sessionVars
    PROVE  LossInv'
<1>1. PICK p : p = Top.pkt
  OBVIOUS
<1>2. /\ stack # <<>> /\ Len(stack) \in DOMAIN stack /\ Top = stack[Len(stack)]
      /\ Top \in DeliverFrame
      /\ \A i \in DOMAIN messageHandlers : ~NextMatch(i)
      /\ \A k \in DOMAIN stack' : stack'[k] \in DeliverFrame =>
           /\ k \in DOMAIN stack /\ k # Len(stack)
           /\ stack[k] \in DeliverFrame /\ stack'[k].pkt = stack[k].pkt
      /\ down' = down /\ incoming_qos2_messages' = incoming_qos2_messages
      /\ Subscription(stack') /\ FramesCome
      /\ \E q : /\ UpGrows(q) /\ q.type \in {"PINGREQ", "PUBACK", "PUBREC"}
                /\ q.type # "PINGREQ" => q.id = p.id
  BY <1>1, AckStep
<1>3. PICK q : /\ UpGrows(q) /\ q.type \in {"PINGREQ", "PUBACK", "PUBREC"}
               /\ q.type # "PINGREQ" => q.id = p.id
  BY <1>2
<1>4. /\ \A k \in DOMAIN up' :
           up'[k].type \in {"PUBACK", "PUBREC", "PUBCOMP"} =>
             \/ k \in DOMAIN up /\ up'[k] = up[k]
             \/ k = Len(up) + 1 /\ up'[k] = q /\ Heard
      /\ Heard' => Heard
  <2>1. Garbage.type = "garbage"
    BY DEF Garbage, Bare, Ack, MkPacket
  <2> QED
    BY <1>3, <2>1 DEF UpGrows
<1>5. TableIds' /\ \A i : Recorded(i)' => Recorded(i)
  BY <1>2 DEF Recorded, isQoS2msgidFree, TableIds, LossInv
<1>6. /\ \A m : Done(m) => Done(m)'
      /\ inflight' = inflight /\ retried' = retried
      /\ \A A : DownKept(A)
      /\ DOMAIN down \subseteq Nat /\ DOMAIN down' \subseteq Nat
      /\ stack \in Seq(Frame)
  BY <1>2, ClientShares
<1>7. Fresh => Done(p.body)
  <2>. SUFFICES ASSUME Fresh PROVE Done(p.body)
    OBVIOUS
  <2>1. PICK m : m = Top.pkt.body /\ Given(TopicOf[m])
    BY <1>2, NoMatchGiven DEF LossInv
  <2> QED
    BY <1>1, <2>1 DEF Done
<1>8. FreshGoes
  <2>1. PICK m : m = Top.pkt.body
    OBVIOUS
  <2>2. Fresh => Done(m)'
    BY <1>1, <1>6, <1>7, <2>1
  <2> QED
    BY <2>1, <2>2 DEF FreshGoes
<1>9. ASSUME NEW i PROVE StackKept(i)
  BY <1>2 DEF StackKept, Cycles
<1>10. ASSUME NEW i \in BrokerIds \ reused, i # p.id PROVE PipeOf(i)' /\ (Heard' => TableOf(i)')
  <2>2. Thins(up, up', Recs(i) \cup Comps(i))
    <3>1. \A k \in DOMAIN up' : up'[k] \in Recs(i) \cup Comps(i) =>
            k \in DOMAIN up /\ up'[k] = up[k]
      BY <1>3, <1>4, <1>10 DEF Recs, Comps
    <3> QED
      BY <3>1, IndexThins
  <2> QED
    BY <1>2, <1>4, <1>5, <1>8, <1>9, <1>10, <2>2, OthersKeep
<1>11. ASSUME NEW i \in BrokerIds \ reused, i = p.id PROVE PipeOf(i)' /\ (Heard' => TableOf(i)')
  <2>1. PipeOf(i) /\ (Heard => TableOf(i))
    BY DEF LossInv
  <2>2. Top \in Cycles(i) /\ ~Clear(stack, Cycles(i))
    BY <1>1, <1>2, <1>11 DEF Cycles, Clear
  <2>3. Clear(up, Comps(i)) => Clear(up', Comps(i))
    <3>1. \A k \in DOMAIN up' : up'[k] \in Comps(i) => k \in DOMAIN up /\ up'[k] = up[k]
      BY <1>3, <1>4 DEF Comps
    <3> QED
      BY <3>1, IndexThins
  <2>4. Clean(i)'
    <3>1. ASSUME i \notin retried' PROVE Single(i)' /\ (~Open(i)' => Empty(i)')
      <4>1. Single(i) /\ (~Open(i) => Empty(i))
        BY <1>6, <2>1, <3>1 DEF PipeOf, Clean
      <4>2. Open(i) /\ Open(i)'
        BY <1>6, <2>2, <4>1 DEF Empty, Open
      <4>3. /\ Clear(up, Recs(i) \cup Comps(i))
            /\ Clear(down, Pubs(i) \cup Rels(i)) /\ Lone(stack, Cycles(i))
        BY <2>2, <4>1 DEF Single
      <4>4. Clear(stack', Cycles(i))
        <5>1. ASSUME NEW k \in DOMAIN stack', stack'[k] \in Cycles(i) PROVE FALSE
          <6>1. k \in DOMAIN stack /\ k # Len(stack) /\ stack[k] \in Cycles(i)
            BY <1>2, <5>1 DEF Cycles
          <6> QED
            BY <1>2, <2>2, <4>3, <6>1 DEF Lone
        <5> QED
          BY <5>1 DEF Clear
      <4>5. Lone(up', Recs(i) \cup Comps(i))
        <5>1. \A k \in DOMAIN up' : up'[k] \in Recs(i) \cup Comps(i) => k = Len(up) + 1
          BY <1>4, <4>3 DEF Recs, Comps, Clear
        <5>2. PICK A : A = Recs(i) \cup Comps(i)
          OBVIOUS
        <5> QED
          BY <5>1, <5>2 DEF Lone
      <4>6. /\ Lone(stack', Cycles(i))
            /\ Lone(down', Pubs(i) \cup Rels(i)) /\ Clear(down', Pubs(i) \cup Rels(i))
        BY <1>2, <4>3, <4>4 DEF Clear, Lone
      <4> QED
        BY <4>2, <4>4, <4>5, <4>6 DEF Single
    <3> QED
      BY <3>1 DEF Clean
  <2>5. InPhase(i)'
    BY <1>2, <1>6, <2>1, <2>3 DEF PipeOf, InPhase
  <2>6. SameMessage(i)'
    BY <1>6, <1>9, <2>1, MessageShrinks DEF PipeOf
  <2>7. AnsweredDone(i)'
    <3>. SUFFICES ASSUME Open(i), ~Clear(up', Recs(i)), NEW m, m = inflight[i].msg PROVE Done(m)'
      BY <1>6 DEF AnsweredDone, Open, Done, Given, Subscribing
    <3>1. CASE ~Clear(up, Recs(i))
      BY <1>6, <2>1, <3>1 DEF PipeOf, AnsweredDone
    <3>2. CASE Clear(up, Recs(i))
      <4>1. Heard
        BY <1>4, <3>2 DEF Recs, Clear
      <4>2. Done(p.body)
        BY <1>1, <1>2, <1>7, <2>1, <2>2, <4>1 DEF TableOf, CyclesDone
      <4>3. m = p.body
        BY <1>1, <1>2, <2>1, <2>2 DEF PipeOf, SameMessage
      <4> QED
        BY <1>6, <4>2, <4>3
    <3> QED
      BY <3>1, <3>2
  <2>8. ASSUME Heard' PROVE TableOf(i)'
    <3>1. TableOf(i)
      BY <1>4, <2>1, <2>8
    <3> QED
      BY <1>5, <1>6, <1>8, <1>9, <2>1, <2>3, <3>1, TableShrinks DEF PipeOf
  <2> QED
    BY <2>4, <2>5, <2>6, <2>7, <2>8 DEF PipeOf
<1> QED
  BY <1>2, <1>5, <1>10, <1>11, ClientLoss

-----------------------------------------------------------------------------
(* The broker's steps *)

\* The places of a sequence that has grown by q.
LEMMA AppendPlaces ==
    ASSUME NEW S, NEW s \in Seq(S), NEW q \in S
    PROVE  /\ DOMAIN s \subseteq Nat /\ Len(s) \in Nat /\ DOMAIN s = 1..Len(s)
           /\ DOMAIN Append(s, q) \subseteq Nat
           /\ \A k \in DOMAIN Append(s, q) :
                \/ k \in DOMAIN s /\ Append(s, q)[k] = s[k]
                \/ k = Len(s) + 1 /\ Append(s, q)[k] = q
<1>1. /\ Append(s, q) \in Seq(S) /\ Len(Append(s, q)) = Len(s) + 1
      /\ \A i \in 1..Len(s) : Append(s, q)[i] = s[i]
      /\ Append(s, q)[Len(s) + 1] = q
  BY AppendProperties
<1>2. PICK t \in Seq(S) : t = Append(s, q)
  BY <1>1
<1>3. DOMAIN s = 1..Len(s) /\ Len(s) \in Nat /\ DOMAIN t = 1..(Len(s) + 1)
  BY <1>1, <1>2, LenProperties
<1>4. \A k \in DOMAIN t : k \in DOMAIN s \/ k = Len(s) + 1
  BY <1>3
<1> QED
  BY <1>1, <1>2, <1>3, <1>4

\* The broker takes what comes from up in order and appends q to down; a SUBACK
\* answers a SUBSCRIBE, and what is published is published on a topic served.
BrokerMoves(d, q) ==
    /\ \A k \in DOMAIN up' : k + d \in DOMAIN up /\ up'[k] = up[k + d]
    /\ \A k \in DOMAIN down' :
         \/ k \in DOMAIN down /\ down'[k] = down[k]
         \/ k = Len(down) + 1 /\ down'[k] = q
    /\ q \in Grants => ~Clear(up, Requests)
    /\ q.type = "PUBLISH" => Served(TopicOf[q.body])
    /\ \A t : Served(t)' =>
         \/ Served(t)
         \/ Known(t) \/ (Subscribing(t) /\ Clear(up', Requests))

\* A step of the broker keeps what is known of subscriptions.
LEMMA BrokerSubscription ==
    ASSUME TypeOK, SubscribeInv, UNCHANGED clientVars, NEW d \in {0, 1}, NEW q, BrokerMoves(d, q),
           DOMAIN up' \subseteq Nat
    PROVE  SubscribeInv' /\ \A m : Done(m) => Done(m)'
<1>0. /\ DOMAIN up \subseteq Nat /\ DOMAIN down \subseteq Nat /\ Len(down) \in Nat
      /\ DOMAIN down = 1..Len(down)
  BY LenProperties DEF TypeOK, LinkTypeOK
<1>1. UNCHANGED <<stack, messageHandlers, unheard, handled, overflowed>>
  BY DEF clientVars, tableVars, historyVars
<1>2. /\ \A k \in DOMAIN up' : k + d \in DOMAIN up /\ up'[k] = up[k + d]
      /\ \A k \in DOMAIN down' :
           \/ k \in DOMAIN down /\ down'[k] = down[k]
           \/ k = Len(down) + 1 /\ down'[k] = q
      /\ q \in Grants => ~Clear(up, Requests)
      /\ q.type = "PUBLISH" => Served(TopicOf[q.body])
      /\ \A t : Served(t)' =>
           \/ Served(t)
           \/ Known(t) \/ (Subscribing(t) /\ Clear(up', Requests))
  BY DEF BrokerMoves
<1>3. \A t : (Known(t)' <=> Known(t)) /\ (Subscribing(t)' <=> Subscribing(t))
  BY <1>1 DEF Known, Subscribing
<1>4. Clear(up, Requests) => Clear(up', Requests)
  BY <1>2 DEF Clear
<1>5. Clear(up, Requests) /\ Clear(down, Grants) => Clear(down', Grants)
  BY <1>2 DEF Clear
<1>6. \A t : Given(t) => Given(t)'
  <2>. SUFFICES ASSUME NEW t, Given(t) PROVE Given(t)'
    OBVIOUS
  <2>1. \/ t \in unheard
        \/ Subscribing(t) /\ Clear(up', Requests) /\ Clear(down', Grants)
    BY <1>4, <1>5 DEF Given
  <2> QED
    BY <1>1, <1>3, <2>1 DEF Given, Clear, Requests, Grants
<1>7. \A m : Done(m) => Done(m)'
  BY <1>1, <1>6 DEF Done
<1>8. RequestsKnown'
  <2>. SUFFICES ASSUME NEW k \in DOMAIN up', up'[k] \in Requests, NEW t, t = up'[k].body
                PROVE  \/ Known(t)
                       \/ /\ Subscribing(t)
                          /\ \A j \in DOMAIN up' : up'[j] \in Requests => j <= k
    BY <1>1 DEF RequestsKnown, Requests, Known, Subscribing
  <2>1. Known(t) \/ (Subscribing(t) /\ \A j \in DOMAIN up : up[j] \in Requests => j <= k + d)
    BY <1>2 DEF SubscribeInv, RequestsKnown
  <2>2. ASSUME \A j \in DOMAIN up : up[j] \in Requests => j <= k + d,
               NEW j \in DOMAIN up', up'[j] \in Requests
        PROVE  j <= k
    <3>1. j + d <= k + d
      BY <1>2, <2>2
    <3> QED
      BY <2>2, <3>1
  <2> QED
    BY <2>1, <2>2
<1>9. SubsKnown'
  <2>. SUFFICES ASSUME NEW t, Served(t)' PROVE Known(t) \/ (Subscribing(t) /\ Clear(up', Requests))
    BY <1>1 DEF SubsKnown, Known, Subscribing, Clear, Requests
  <2>1. CASE Served(t)
    BY <1>4, <2>1 DEF SubscribeInv, SubsKnown
  <2>2. CASE ~Served(t)
    BY <1>2, <2>2
  <2> QED
    BY <2>1, <2>2
<1>10. PublishesKnown'
  <2>. SUFFICES ASSUME NEW k \in DOMAIN down', down'[k].type = "PUBLISH",
                       NEW t, t = TopicOf[down'[k].body]
                PROVE  \/ Known(t)
                       \/ /\ Subscribing(t) /\ Clear(up', Requests)
                          /\ \A j \in DOMAIN down' : down'[j] \in Grants => j < k
    BY <1>1 DEF PublishesKnown, Clear, Requests, Grants, Known, Subscribing
  <2>1. CASE k \in DOMAIN down /\ down'[k] = down[k]
    <3>1. \/ Known(t)
          \/ /\ Subscribing(t) /\ Clear(up, Requests)
             /\ \A j \in DOMAIN down : down[j] \in Grants => j < k
      BY <2>1 DEF SubscribeInv, PublishesKnown
    <3>2. ASSUME Clear(up, Requests), \A j \in DOMAIN down : down[j] \in Grants => j < k,
                 NEW j \in DOMAIN down', down'[j] \in Grants
          PROVE  j < k
      BY <1>2, <3>2
    <3> QED
      BY <1>4, <3>1, <3>2
  <2>2. CASE k = Len(down) + 1 /\ down'[k] = q
    <3>1. Known(t) \/ (Subscribing(t) /\ Clear(up, Requests))
      BY <1>2, <2>2 DEF SubscribeInv, SubsKnown
    <3>2. ASSUME NEW j \in DOMAIN down', down'[j] \in Grants PROVE j < k
      <4>1. q \notin Grants
        BY <2>2 DEF Grants
      <4>2. j \in DOMAIN down
        BY <1>2, <3>2, <4>1
      <4> QED
        BY <1>0, <2>2, <4>2
    <3> QED
      BY <1>4, <3>1, <3>2
  <2> QED
    BY <1>2, <2>1, <2>2
<1>11. FramesKnown'
  <2>. SUFFICES ASSUME NEW k \in DOMAIN stack, stack[k] \in DeliverFrame,
                       NEW t, t = TopicOf[stack[k].pkt.body]
                PROVE  Known(t)' \/ Given(t)'
    BY <1>1 DEF FramesKnown, Known, Given, Subscribing, Clear, Requests, Grants
  <2> QED
    BY <1>3, <1>6 DEF SubscribeInv, FramesKnown
<1> QED
  BY <1>7, <1>8, <1>9, <1>10, <1>11 DEF SubscribeInv

\* The broker leaves the client as it is.
LEMMA ClientStays ==
    ASSUME UNCHANGED clientVars
    PROVE  /\ \A i : StackKept(i) /\ (Recorded(i)' <=> Recorded(i))
           /\ FreshGoes /\ (Fresh' <=> Fresh) /\ stack' = stack
           /\ TableIds => TableIds'
<1>1. UNCHANGED <<stack, incoming_qos2_messages, readbuf>>
  BY DEF clientVars, tableVars
<1>2. Fresh' <=> Fresh
  BY <1>1 DEF Fresh
<1>3. FreshGoes
  BY <1>1, <1>2 DEF FreshGoes, Top
<1>4. \A i : StackKept(i) /\ (Recorded(i)' <=> Recorded(i))
  BY <1>1 DEF StackKept, Recorded, isQoS2msgidFree
<1>5. TableIds => TableIds'
  BY <1>1 DEF TableIds
<1> QED
  BY <1>1, <1>2, <1>3, <1>4, <1>5

\* An id that a step of the broker adds nothing for.
LEMMA BrokerOthers ==
    ASSUME TypeOK, LossInv, UNCHANGED clientVars, NEW i \in BrokerIds \ reused,
           inflight'[i] = inflight[i], i \notin retried' => i \notin retried,
           DownKept(Pubs(i) \cup Rels(i)), Thins(up, up', Recs(i) \cup Comps(i)),
           DOMAIN down' \subseteq Nat, Heard' => Heard, \A m : Done(m) => Done(m)'
    PROVE  PipeOf(i)' /\ (Heard' => TableOf(i)')
<1>1. StackKept(i) /\ (Recorded(i)' <=> Recorded(i)) /\ FreshGoes
  BY ClientStays
<1>2. PipeOf(i) /\ (Heard => TableOf(i))
  BY DEF LossInv
<1>3. DOMAIN down \subseteq Nat /\ stack \in Seq(Frame)
  BY LenProperties DEF TypeOK, LinkTypeOK, ClientTypeOK
<1>4. PipeOf(i)'
  BY <1>1, <1>2, <1>3, PipeShrinks
<1>5. Clear(up, Comps(i)) => Clear(up', Comps(i))
  <2>1. PICK A : A = Recs(i) \cup Comps(i)
    OBVIOUS
  <2> QED
    BY <2>1, ThinsParts
<1>6. ASSUME Heard' PROVE TableOf(i)'
  BY <1>1, <1>2, <1>3, <1>5, <1>6, TableShrinks DEF PipeOf
<1> QED
  BY <1>4, <1>6

\* The places of the tail of a sequence.
LEMMA TailPlaces ==
    ASSUME NEW S, NEW s \in Seq(S), s # <<>>
    PROVE  /\ Tail(s) \in Seq(S) /\ DOMAIN Tail(s) \subseteq Nat \ {0}
           /\ \A k \in DOMAIN Tail(s) : k + 1 \in DOMAIN s /\ Tail(s)[k] = s[k + 1]
<1>1. PICK t : t = Tail(s)
  OBVIOUS
<1>2. /\ t \in Seq(S) /\ Len(t) = Len(s) - 1
      /\ \A i \in 1..Len(t) : t[i] = s[i + 1]
  BY <1>1, HeadTailProperties
<1>3. /\ DOMAIN t = 1..Len(t) /\ Len(t) \in Nat
      /\ DOMAIN s = 1..Len(s) /\ Len(s) \in Nat
  BY <1>2, LenProperties
<1>4. \A k \in DOMAIN t : k + 1 \in DOMAIN s /\ t[k] = s[k + 1]
  BY <1>2, <1>3
<1> QED
  BY <1>1, <1>2, <1>3, <1>4

\* What the broker has taken from up.
LEMMA TakesMoves ==
    ASSUME TypeOK, SubscribeInv, Takes(PacketType \ {"garbage"}), NEW q,
           q.type # "PUBLISH",
           down' = down \/ (q \in DownPacket /\ down' = Append(down, q)),
           q \in Grants => Head(up) \in Requests,
           \A t : Served(t)' => Served(t) \/ (Head(up) \in Requests /\ t = Head(up).body)
    PROVE  /\ BrokerMoves(1, q) /\ DOMAIN up' \subseteq Nat /\ DOMAIN down' \subseteq Nat
           /\ \A A : q \notin A => DownKept(A)
<1>1. /\ up \in Seq(UpPacket) /\ down \in Seq(DownPacket) /\ up # <<>> /\ up' = Tail(up)
      /\ 1 \in DOMAIN up /\ up[1] = Head(up)
  BY TakesThins DEF Takes, TypeOK, LinkTypeOK
<1>2. /\ DOMAIN up' \subseteq Nat \ {0}
      /\ \A k \in DOMAIN up' : k + 1 \in DOMAIN up /\ up'[k] = up[k + 1]
  BY <1>1, TailPlaces
<1>3. /\ DOMAIN down \subseteq Nat /\ DOMAIN down' \subseteq Nat
      /\ \A k \in DOMAIN down' :
           \/ k \in DOMAIN down /\ down'[k] = down[k]
           \/ k = Len(down) + 1 /\ down'[k] = q
  <2>1. DOMAIN down \subseteq Nat
    BY <1>1, LenProperties
  <2>2. CASE down' = down
    BY <2>1, <2>2
  <2>3. CASE q \in DownPacket /\ down' = Append(down, q)
    BY <1>1, <2>3, AppendPlaces
  <2> QED
    BY <2>2, <2>3
<1>4. Head(up) \in Requests => ~Clear(up, Requests)
  BY <1>1 DEF Clear
<1>5. ASSUME NEW t, Head(up) \in Requests, t = Head(up).body
      PROVE  Known(t) \/ (Subscribing(t) /\ Clear(up', Requests))
  <2>1. Known(t) \/ (Subscribing(t) /\ \A j \in DOMAIN up : up[j] \in Requests => j <= 1)
    BY <1>1, <1>5 DEF SubscribeInv, RequestsKnown
  <2>2. ASSUME \A j \in DOMAIN up : up[j] \in Requests => j <= 1,
               NEW k \in DOMAIN up', up'[k] \in Requests
        PROVE  FALSE
    <3>1. k + 1 <= 1 /\ k \in Nat \ {0}
      BY <1>2, <2>2
    <3> QED
      BY <3>1
  <2> QED
    BY <2>1, <2>2 DEF Clear
<1>6. BrokerMoves(1, q)
  BY <1>2, <1>3, <1>4, <1>5 DEF BrokerMoves
<1>7. ASSUME NEW A, q \notin A PROVE DownKept(A)
  <2>1. \A k \in DOMAIN down' : down'[k] \in A => k + 0 \in DOMAIN down /\ down'[k] = down[k + 0]
    BY <1>3, <1>7
  <2> QED
    BY <2>1 DEF DownKept
<1> QED
  BY <1>2, <1>3, <1>6, <1>7

\* The broker takes a packet that ends no handshake.
LEMMA TakesLoss ==
    ASSUME TypeOK, Assumptions, LossInv, UNCHANGED clientVars, BrokerTakes,
           UNCHANGED <<inflight, acked, retried, reused>>,
           subs' \subseteq subs \/ (Head(up) \in Requests /\ subs' = subs \cup {Head(up).body}),
           Head(up).type # "PUBREC" \/ down' = down
    PROVE  LossInv'
<1>1. Takes(PacketType \ {"garbage"}) /\ link' = link
  BY DEF BrokerTakes
<1>2. /\ \A A : Thins(up, up', A)
      /\ Head(up) \in UpPacket /\ (Heard' => Heard)
  BY <1>1, TakesThins DEF TypeOK
<1>3. PICK q : /\ q.type \notin {"PUBLISH", "PUBREL"}
               /\ down' = down \/ (q \in DownPacket /\ down' = Append(down, q))
               /\ q \in Grants => Head(up) \in Requests
  <2>1. CASE down' = down
    <3>1. Garbage.type = "garbage"
      BY DEF Garbage, Bare, Ack, MkPacket
    <3> QED
      BY <2>1, <3>1 DEF Grants
  <2>2. CASE down' # down
    <3>1. PICK q \in DownPacket : down' = Append(down, q) /\ Replies(Head(up), q)
      BY <2>2 DEF BrokerTakes
    <3>2. q.type \notin {"PUBLISH", "PUBREL"} /\ (q.type = "SUBACK" => Head(up).type = "SUBSCRIBE")
      BY <2>2, <3>1 DEF Replies
    <3> QED
      BY <1>2, <3>1, <3>2 DEF Grants, Requests
  <2> QED
    BY <2>1, <2>2
<1>4. \A t : Served(t)' => Served(t) \/ (Head(up) \in Requests /\ t = Head(up).body)
  BY DEF Served, Open
<1>5. /\ BrokerMoves(1, q) /\ DOMAIN up' \subseteq Nat /\ DOMAIN down' \subseteq Nat
      /\ \A A : q \notin A => DownKept(A)
  BY <1>1, <1>3, <1>4, TakesMoves DEF LossInv
<1>6. SubscribeInv' /\ \A m : Done(m) => Done(m)'
  BY <1>5, BrokerSubscription DEF LossInv
<1>7. ASSUME NEW i \in BrokerIds \ reused PROVE PipeOf(i)' /\ (Heard' => TableOf(i)')
  <2>1. q \notin Pubs(i) \cup Rels(i)
    BY <1>3 DEF Pubs, Rels
  <2>2. DownKept(Pubs(i) \cup Rels(i))
    BY <1>5, <2>1
  <2> QED
    BY <1>2, <1>5, <1>6, <1>7, <2>2, BrokerOthers
<1>8. PublishesRight'
  <2>1. \A k \in DOMAIN down' : down'[k].type = "PUBLISH" => k \in DOMAIN down /\ down'[k] = down[k]
    BY <1>3, <1>5 DEF BrokerMoves
  <2> QED
    BY <2>1 DEF PublishesRight, LossInv
<1>9. AckedDone'
  <2>. SUFFICES ASSUME NEW m \in acked PROVE Done(m)'
    BY DEF AckedDone, Done, Given, Subscribing
  <2> QED
    BY <1>6 DEF LossInv, AckedDone
<1>10. TableIds'
  BY ClientStays DEF LossInv
<1> QED
  BY <1>6, <1>7, <1>8, <1>9, <1>10 DEF LossInv

\* The end of the connection.
LEMMA CloseLoss ==
    ASSUME TypeOK, Assumptions, LossInv, UNCHANGED clientVars, Close
    PROVE  LossInv'
<1>1. /\ link' = "closed" /\ up' = <<>>
      /\ UNCHANGED <<subs, inflight, acked, retried, reused>>
      /\ down \in Seq(DownPacket) /\ Len(down) \in Nat
  BY LenProperties DEF Close, reuseVars, TypeOK, LinkTypeOK
<1>2. PICK n \in 0..Len(down) : down' = SubSeq(down, 1, n)
  BY DEF Close
<1>3. \A k \in DOMAIN down' : k \in DOMAIN down /\ down'[k] = down[k]
  <2>1. n \in Int /\ n <= Len(down)
    BY <1>1, <1>2
  <2>2. \A k \in DOMAIN SubSeq(down, 1, n) :
          k \in DOMAIN down /\ SubSeq(down, 1, n)[k] = down[k]
    BY <1>1, <2>1, PrefixType
  <2> QED
    BY <1>2, <2>2
<1>4. DOMAIN down \subseteq Nat /\ DOMAIN down' \subseteq Nat
  <2>1. DOMAIN down \subseteq Nat
    BY <1>1, LenProperties
  <2> QED
    BY <1>3, <2>1
<1>5. DOMAIN up' = {} /\ ~Heard'
  BY <1>1 DEF Heard
<1>6. PICK q : q = Garbage
  OBVIOUS
<1>6a. q.type = "garbage"
  BY <1>6 DEF Garbage, Bare, Ack, MkPacket
<1>7. BrokerMoves(0, q)
  <2>1. \A t : Served(t)' => Served(t)
    BY <1>1 DEF Served, Open
  <2> QED
    BY <1>3, <1>5, <1>6a, <2>1 DEF BrokerMoves, Grants
<1>8. SubscribeInv' /\ \A m : Done(m) => Done(m)'
  BY <1>5, <1>7, BrokerSubscription DEF LossInv
<1>9. ASSUME NEW A PROVE DownKept(A) /\ Thins(up, up', A)
  <2>1. \A k \in DOMAIN down' : down'[k] \in A => k + 0 \in DOMAIN down /\ down'[k] = down[k + 0]
    BY <1>3, <1>4
  <2>2. Thins(up, up', A)
    BY <1>5 DEF Thins, Lone
  <2> QED
    BY <2>1, <2>2 DEF DownKept
<1>10. ASSUME NEW i \in BrokerIds \ reused PROVE PipeOf(i)' /\ (Heard' => TableOf(i)')
  BY <1>1, <1>4, <1>5, <1>8, <1>9, <1>10, BrokerOthers
<1>11. PublishesRight'
  BY <1>3 DEF PublishesRight, LossInv
<1>12. AckedDone'
  <2>. SUFFICES ASSUME NEW m \in acked PROVE Done(m)'
    BY <1>1 DEF AckedDone, Done, Given, Subscribing
  <2> QED
    BY <1>8 DEF LossInv, AckedDone
<1>13. TableIds'
  BY ClientStays DEF LossInv
<1> QED
  BY <1>1, <1>8, <1>10, <1>11, <1>12, <1>13 DEF LossInv

\* A step that takes a packet on an open connection is one of BrokerTakes.
LEMMA TakesOnly ==
    ASSUME TypeOK, Assumptions, BrokerNext, NEW types, Takes(types), link' = link
    PROVE  BrokerTakes /\ Head(up) \in UpPacket /\ Head(up).type \in types
<1>1. up \in Seq(UpPacket) /\ up # <<>> /\ up' = Tail(up) /\ link' = "open"
      /\ Head(up).type \in types
  BY DEF Takes, TypeOK, LinkTypeOK
<1>2. Head(up) \in UpPacket /\ Len(Tail(up)) = Len(up) - 1 /\ Len(up) \in Nat
  BY <1>1, HeadTailProperties, LenProperties
<1>3. up' # up
  <2>1. PICK t : t = Tail(up)
    OBVIOUS
  <2>2. Len(t) # Len(up)
    BY <1>2, <2>1
  <2>3. t # up
    BY <2>2
  <2> QED
    BY <1>1, <2>1, <2>3
<1>4. ~BrokerSends
  BY <1>3 DEF BrokerSends
<1>5. ~Close
  BY <1>1 DEF Close
<1>6. ~UNCHANGED linkVars
  BY <1>3 DEF linkVars
<1> QED
  BY <1>1, <1>2, <1>4, <1>5, <1>6, BrokerSteps

\* The broker's answers to requests, and acknowledgements it does not expect.
LEMMA AnswersLoss ==
    ASSUME TypeOK, Assumptions, LossInv, UNCHANGED clientVars, BrokerNext,
           \/ BrokerConnack \/ BrokerSuback \/ BrokerUnsuback \/ BrokerAnswers
           \/ BrokerAcked /\ ~Expected(Head(up))
    PROVE  LossInv'
<1>1. CASE BrokerConnack
  <2>1. Takes({"CONNECT"}) /\ UNCHANGED <<link, subs, inflight, acked, retried, reused>>
    BY <1>1 DEF BrokerConnack, reuseVars
  <2>2. BrokerTakes /\ Head(up).type # "PUBREC"
    BY <2>1, TakesOnly
  <2> QED
    BY <2>1, <2>2, TakesLoss
<1>2. CASE BrokerSuback
  <2>1. Takes({"SUBSCRIBE"}) /\ UNCHANGED <<link, inflight, acked, retried, reused>>
    BY <1>2 DEF BrokerSuback, reuseVars
  <2>2. BrokerTakes /\ Head(up) \in UpPacket /\ Head(up).type = "SUBSCRIBE"
    BY <2>1, TakesOnly
  <2>3. Head(up) \in Requests
    BY <2>2 DEF Requests
  <2>4. subs' = subs \/ subs' = subs \cup {Head(up).body}
    BY <1>2 DEF BrokerSuback
  <2> QED
    BY <2>1, <2>2, <2>3, <2>4, TakesLoss
<1>3. CASE BrokerUnsuback
  <2>1. /\ Takes({"UNSUBSCRIBE"}) /\ UNCHANGED <<link, inflight, acked, retried, reused>>
        /\ subs' \subseteq subs
    BY <1>3 DEF BrokerUnsuback, reuseVars
  <2>2. BrokerTakes /\ Head(up).type # "PUBREC"
    BY <2>1, TakesOnly
  <2> QED
    BY <2>1, <2>2, TakesLoss
<1>4. CASE BrokerAnswers
  <2>1. /\ Takes({"PUBLISH", "PUBREL", "PINGREQ"})
        /\ UNCHANGED <<link, subs, inflight, acked, retried, reused>>
    BY <1>4 DEF BrokerAnswers, brokerVars, sessionVars, reuseVars
  <2>2. BrokerTakes /\ Head(up).type # "PUBREC"
    BY <2>1, TakesOnly
  <2> QED
    BY <2>1, <2>2, TakesLoss
<1>5. CASE BrokerAcked /\ ~Expected(Head(up))
  <2>1. /\ Takes({"PUBACK", "PUBREC", "PUBCOMP"}) /\ down' = down
        /\ UNCHANGED <<link, subs, inflight, acked, retried, reused>>
    BY <1>5 DEF BrokerAcked, reuseVars
  <2>2. BrokerTakes
    BY <2>1, TakesOnly
  <2> QED
    BY <2>1, <2>2, TakesLoss
<1> QED
  BY <1>1, <1>2, <1>3, <1>4, <1>5

\* What the broker does with an acknowledgement p that it expects.
Settles(p) ==
    /\ p \in UpPacket /\ p.id \in BrokerIds /\ 1 \in DOMAIN up /\ up[1] = p
    /\ Takes(PacketType \ {"garbage"}) /\ link' = link
    /\ Open(p.id) /\ retried' = retried /\ reused' = reused /\ subs' = subs
    /\ \A i \in BrokerIds : i # p.id => inflight'[i] = inflight[i]
    /\ \/ /\ p.type = "PUBREC" /\ QosOf[inflight[p.id].msg] = 2
          /\ inflight'[p.id].phase = "rel" /\ inflight'[p.id].msg = inflight[p.id].msg
          /\ \E q \in DownPacket :
               /\ q.type = "PUBREL" /\ q.id = p.id
               /\ down' = Append(down, q)
       \/ /\ p.type = "PUBACK" /\ QosOf[inflight[p.id].msg] = 1
          /\ inflight'[p.id].phase = "free" /\ down' = down
       \/ /\ p.type = "PUBCOMP"
          /\ inflight'[p.id].phase = "free" /\ down' = down
    /\ \/ acked' = acked
       \/ /\ p.type # "PUBCOMP" /\ p.id \notin reused
          /\ acked' = acked \cup {inflight[p.id].msg}

\* BrokerAcked does that.
LEMMA ExpectedStep ==
    ASSUME TypeOK, Assumptions, LossInv, UNCHANGED clientVars, BrokerAcked,
           NEW p, p = Head(up), Expected(p)
    PROVE  Settles(p)
<1>1. /\ Takes({"PUBACK", "PUBREC", "PUBCOMP"}) /\ link' = link
      /\ UNCHANGED <<subs, retried, reused>>
      /\ inflight' = [inflight EXCEPT ![p.id] =
                        IF p.type = "PUBREC" THEN [@ EXCEPT !.phase = "rel"] ELSE Idle]
      /\ acked' = IF p.type = "PUBCOMP" \/ p.id \in reused THEN acked
                  ELSE acked \cup {inflight[p.id].msg}
      /\ down' = IF p.type = "PUBREC" THEN Append(down, Ack("PUBREL", p.id)) ELSE down
  BY DEF BrokerAcked, reuseVars
<1>2. /\ Takes(PacketType \ {"garbage"}) /\ p.type \in {"PUBACK", "PUBREC", "PUBCOMP"}
  BY <1>1 DEF Takes, PacketType, AckTypes
<1>3. p \in UpPacket /\ 1 \in DOMAIN up /\ up[1] = p
  BY <1>2, TakesThins DEF TypeOK
<1>4. /\ p.id \in BrokerIds /\ inflight \in [BrokerIds -> InFlight]
      /\ \/ p.type = "PUBCOMP" /\ inflight[p.id].phase = "rel"
         \/ p.type = "PUBREC" /\ inflight[p.id].phase # "free" /\ QosOf[inflight[p.id].msg] = 2
         \/ p.type = "PUBACK" /\ inflight[p.id].phase # "free" /\ QosOf[inflight[p.id].msg] = 1
  BY DEF Expected, TypeOK, BrokerTypeOK
<1>5. PICK f : f = IF p.type = "PUBREC" THEN [inflight[p.id] EXCEPT !.phase = "rel"] ELSE Idle
  OBVIOUS
<1>6. inflight'[p.id] = f /\ \A i \in BrokerIds : i # p.id => inflight'[i] = inflight[i]
  BY <1>1, <1>4, <1>5
<1>7. /\ p.type = "PUBREC" => f.phase = "rel" /\ f.msg = inflight[p.id].msg
      /\ p.type # "PUBREC" => f.phase = "free"
  <2>1. inflight[p.id] \in InFlight
    BY <1>4
  <2> QED
    BY <1>5, <2>1 DEF InFlight, Idle
<1>8. ASSUME p.type = "PUBREC"
      PROVE  \E q \in DownPacket : q.type = "PUBREL" /\ q.id = p.id /\ down' = Append(down, q)
  <2>1. p.id \in 0..MaxPacketId
    BY <1>3 DEF UpPacket, Packet
  <2>2. PICK q \in DownPacket : q = Ack("PUBREL", p.id)
    BY <2>1, BrokerAckType DEF Assumptions, LinkAssumption, PacketType
  <2>3. q.type = "PUBREL" /\ q.id = p.id
    BY <2>2 DEF Ack, MkPacket
  <2> QED
    BY <1>1, <1>8, <2>2, <2>3
<1>9. Open(p.id)
  BY <1>4 DEF Open
<1> QED
  BY <1>1, <1>2, <1>3, <1>4, <1>6, <1>7, <1>8, <1>9 DEF Settles

\* The id that an expected acknowledgement is for.
LEMMA ExpectedPipe ==
    ASSUME TypeOK, Assumptions, LossInv, UNCHANGED clientVars, BrokerAcked,
           NEW p, p = Head(up), Expected(p), NEW i \in BrokerIds \ reused, i = p.id,
           \A m : Done(m) => Done(m)', DOMAIN down' \subseteq Nat
    PROVE  PipeOf(i)' /\ (Heard' => TableOf(i)')
<1>0. Settles(p)
  BY ExpectedStep
<1>1. /\ p \in UpPacket /\ 1 \in DOMAIN up /\ up[1] = p
      /\ Takes(PacketType \ {"garbage"}) /\ link' = link
      /\ Open(i) /\ retried' = retried
      /\ \/ /\ p.type = "PUBREC" /\ QosOf[inflight[i].msg] = 2
            /\ inflight'[i].phase = "rel" /\ inflight'[i].msg = inflight[i].msg
            /\ \E q \in DownPacket :
                 /\ q.type = "PUBREL" /\ q.id = i
                 /\ down' = Append(down, q)
         \/ /\ p.type = "PUBACK" /\ QosOf[inflight[i].msg] = 1
            /\ inflight'[i].phase = "free" /\ down' = down
         \/ /\ p.type = "PUBCOMP"
            /\ inflight'[i].phase = "free" /\ down' = down
  BY <1>0 DEF Settles
<1>2. /\ \A A : Thins(up, up', A)
      /\ \A A : p \in A /\ Lone(up, A) => Clear(up', A)
      /\ (Heard' => Heard)
  BY <1>1, TakesThins DEF TypeOK
<1>3. /\ p.type # "PUBCOMP" => p \in Recs(i)
      /\ p.type = "PUBCOMP" => p \in Comps(i)
      /\ p \in Recs(i) \cup Comps(i)
  BY <1>1 DEF Recs, Comps
<1>4. PipeOf(i) /\ (Heard => TableOf(i)) /\ PublishesRight
  BY DEF LossInv
<1>5. /\ StackKept(i) /\ (Recorded(i)' <=> Recorded(i)) /\ FreshGoes
      /\ stack' = stack /\ stack \in Seq(Frame)
  BY ClientStays DEF TypeOK, ClientTypeOK
<1>6. /\ Clear(up, Recs(i)) => Clear(up', Recs(i))
      /\ Clear(up, Comps(i)) => Clear(up', Comps(i))
  BY <1>2 DEF Thins, Clear
<1>7. ASSUME i \notin retried
      PROVE  /\ Clear(down, Pubs(i) \cup Rels(i)) /\ Clear(stack, Cycles(i))
             /\ Clear(up', Recs(i) \cup Comps(i))
  <2>1. Single(i)
    BY <1>4, <1>7 DEF PipeOf, Clean
  <2>2. PICK A : A = Recs(i) \cup Comps(i)
    OBVIOUS
  <2>3. ~Clear(up, A) /\ Clear(up', A)
    BY <1>1, <1>2, <1>3, <2>1, <2>2 DEF Single, Clear
  <2> QED
    BY <2>1, <2>2, <2>3 DEF Single
<1>8. Heard' => CyclesDone(i)'
  BY <1>2, <1>4, <1>5, CyclesShrink DEF TableOf
<1>9. CASE p.type = "PUBREC"
  <2>1. PICK q \in DownPacket : q.type = "PUBREL" /\ q.id = i /\ down' = Append(down, q)
    BY <1>1, <1>9
  <2>2. /\ DOMAIN down = 1..Len(down) /\ Len(down) \in Nat
        /\ \A k \in DOMAIN down' :
             \/ k \in DOMAIN down /\ down'[k] = down[k]
             \/ k = Len(down) + 1 /\ down'[k] = q
    BY <2>1, AppendPlaces DEF TypeOK, LinkTypeOK
  <2>3. Open(i)' /\ inflight'[i].msg = inflight[i].msg /\ inflight'[i].phase = "rel"
        /\ QosOf[inflight[i].msg] = 2
    BY <1>1, <1>9 DEF Open
  <2>4. \A k \in DOMAIN down' : down'[k] \in Pubs(i) => k \in DOMAIN down /\ down'[k] = down[k]
    BY <2>1, <2>2 DEF Pubs
  <2>5. Clean(i)'
    <3>1. ASSUME i \notin retried' PROVE Single(i)'
      <4>1. /\ Clear(down, Pubs(i) \cup Rels(i)) /\ Clear(stack, Cycles(i))
            /\ Clear(up', Recs(i) \cup Comps(i))
        BY <1>1, <1>7, <3>1
      <4>2. Lone(down', Pubs(i) \cup Rels(i))
        BY <2>2, <4>1 DEF Clear, Lone
      <4>3. /\ Lone(up', Recs(i) \cup Comps(i)) /\ Lone(stack', Cycles(i))
            /\ Clear(stack', Cycles(i))
        BY <1>5, <4>1 DEF Clear, Lone
      <4> QED
        BY <4>1, <4>2, <4>3 DEF Single
    <3> QED
      BY <2>3, <3>1 DEF Clean
  <2>6. InPhase(i)'
    <3>1. \A j, k \in DOMAIN down' : down'[j] \in Rels(i) /\ down'[k] \in Pubs(i) => k < j
      <4>. SUFFICES ASSUME NEW j \in DOMAIN down', NEW k \in DOMAIN down',
                           down'[j] \in Rels(i), down'[k] \in Pubs(i)
                    PROVE  k < j
        OBVIOUS
      <4>1. k \in DOMAIN down /\ down[k] \in Pubs(i)
        BY <2>4
      <4>2. CASE j \in DOMAIN down /\ down'[j] = down[j]
        BY <1>4, <4>1, <4>2 DEF PipeOf, InPhase
      <4>3. CASE j = Len(down) + 1
        BY <2>2, <4>1, <4>3
      <4> QED
        BY <2>2, <4>2, <4>3
    <3>2. Clear(up', Comps(i)) \/ Clear(down', Pubs(i))
      BY <1>4, <1>6, <2>4 DEF PipeOf, InPhase, Clear
    <3> QED
      BY <2>3, <3>1, <3>2 DEF InPhase
  <2>7. SameMessage(i)'
    BY <1>1, <1>4, <1>5, <2>3, <2>4 DEF PipeOf, SameMessage
  <2>8. PICK m : m = inflight[i].msg
    OBVIOUS
  <2>9. Done(m)'
    <3>1. ~Clear(up, Recs(i))
      BY <1>1, <1>3, <1>9 DEF Clear
    <3> QED
      BY <1>1, <1>4, <2>8, <3>1 DEF PipeOf, AnsweredDone
  <2>10. AnsweredDone(i)'
    BY <2>3, <2>8, <2>9 DEF AnsweredDone, Done, Given, Subscribing
  <2>11. ASSUME Heard' PROVE SlotTaken(i)'
    <3>1. SlotTaken(i)
      BY <1>2, <1>4, <2>11 DEF TableOf
    <3>2. Recorded(i) => Clear(up', Comps(i))
      BY <1>6, <3>1 DEF SlotTaken
    <3> QED
      BY <1>5, <2>3, <2>8, <2>9, <3>2 DEF SlotTaken, Open, Done, Given, Subscribing
  <2> QED
    BY <1>8, <2>5, <2>6, <2>7, <2>10, <2>11 DEF PipeOf, TableOf
<1>10. CASE p.type # "PUBREC"
  <2>1. inflight'[i].phase = "free" /\ down' = down /\ ~Open(i)'
    BY <1>1, <1>10 DEF Open
  <2>2. Clean(i)'
    <3>1. ASSUME i \notin retried' PROVE Single(i)' /\ Empty(i)'
      <4>1. /\ Clear(down', Pubs(i) \cup Rels(i)) /\ Clear(stack', Cycles(i))
            /\ Clear(up', Recs(i) \cup Comps(i))
        BY <1>1, <1>5, <1>7, <2>1, <3>1 DEF Clear
      <4>2. \A s, A : Clear(s, A) => Lone(s, A)
        BY DEF Clear, Lone
      <4> QED
        BY <4>1, <4>2 DEF Single, Empty, Clear, Lone
    <3> QED
      BY <3>1 DEF Clean
  <2>3. InPhase(i)'
    BY <1>4, <1>6, <2>1 DEF PipeOf, InPhase
  <2>4. \A k \in DOMAIN down : down[k] \in Pubs(i) => down[k].val # 2
    <3>. SUFFICES ASSUME NEW k \in DOMAIN down, down[k] \in Pubs(i) PROVE down[k].val # 2
      OBVIOUS
    <3>1. CASE p.type = "PUBACK"
      <4>1. QosOf[inflight[i].msg] = 1
        BY <1>1, <3>1
      <4>2. inflight[i].msg = down[k].body
        BY <1>1, <1>4 DEF PipeOf, SameMessage
      <4>3. down[k].val = QosOf[down[k].body]
        BY <1>4 DEF PublishesRight, Pubs
      <4> QED
        BY <4>1, <4>2, <4>3
    <3>2. CASE p.type = "PUBCOMP"
      BY <1>1, <1>3, <1>4, <3>2 DEF PipeOf, InPhase, Clear
    <3> QED
      BY <1>1, <1>10, <3>1, <3>2
  <2>5. SameMessage(i)'
    BY <2>1, <2>4 DEF SameMessage, Open
  <2>6. AnsweredDone(i)'
    BY <2>1 DEF AnsweredDone
  <2>7. ASSUME Heard' PROVE SlotTaken(i)'
    <3>1. SlotTaken(i)
      BY <1>2, <1>4, <2>7 DEF TableOf
    <3>2. ~Recorded(i)
      <4>1. CASE p.type = "PUBACK"
        BY <1>1, <3>1, <4>1 DEF SlotTaken
      <4>2. CASE p.type = "PUBCOMP"
        BY <1>1, <1>3, <3>1, <4>2 DEF SlotTaken, Clear
      <4> QED
        BY <1>1, <1>10, <4>1, <4>2
    <3> QED
      BY <1>5, <3>2 DEF SlotTaken
  <2> QED
    BY <1>8, <2>2, <2>3, <2>5, <2>6, <2>7 DEF PipeOf, TableOf
<1> QED
  BY <1>9, <1>10

\* The broker takes an acknowledgement that it expects.
LEMMA ExpectedLoss ==
    ASSUME TypeOK, Assumptions, LossInv, UNCHANGED clientVars, BrokerAcked,
           NEW p, p = Head(up), Expected(p)
    PROVE  LossInv'
<1>0. Settles(p)
  BY ExpectedStep
<1>1. /\ p \in UpPacket /\ p.id \in BrokerIds /\ 1 \in DOMAIN up /\ up[1] = p
      /\ Takes(PacketType \ {"garbage"}) /\ link' = link
      /\ Open(p.id) /\ retried' = retried /\ reused' = reused /\ subs' = subs
      /\ \A i \in BrokerIds : i # p.id => inflight'[i] = inflight[i]
      /\ \/ /\ p.type = "PUBREC" /\ QosOf[inflight[p.id].msg] = 2
            /\ inflight'[p.id].phase = "rel" /\ inflight'[p.id].msg = inflight[p.id].msg
            /\ \E q \in DownPacket :
                 /\ q.type = "PUBREL" /\ q.id = p.id
                 /\ down' = Append(down, q)
         \/ /\ p.type = "PUBACK" /\ QosOf[inflight[p.id].msg] = 1
            /\ inflight'[p.id].phase = "free" /\ down' = down
         \/ /\ p.type = "PUBCOMP"
            /\ inflight'[p.id].phase = "free" /\ down' = down
      /\ \/ acked' = acked
         \/ /\ p.type # "PUBCOMP" /\ p.id \notin reused
            /\ acked' = acked \cup {inflight[p.id].msg}
  BY <1>0 DEF Settles
<1>2. (\A A : Thins(up, up', A)) /\ (Heard' => Heard)
  BY <1>1, TakesThins DEF TypeOK
<1>3. PICK q : /\ q.type \in {"PUBREL", "garbage"}
               /\ q.type = "PUBREL" => q.id = p.id
               /\ down' = down \/ (q \in DownPacket /\ down' = Append(down, q))
  <2>1. Garbage.type = "garbage"
    BY DEF Garbage, Bare, Ack, MkPacket
  <2>2. CASE down' = down
    BY <2>1, <2>2
  <2>3. CASE down' # down
    BY <1>1, <2>3
  <2> QED
    BY <2>2, <2>3
<1>4. \A t : Served(t)' => Served(t)
  <2>. SUFFICES ASSUME NEW t, Served(t)' PROVE Served(t)
    OBVIOUS
  <2>1. CASE t \in subs
    BY <2>1 DEF Served
  <2>2. CASE t \notin subs
    <3>1. PICK i \in BrokerIds : inflight'[i].phase # "free" /\ TopicOf[inflight'[i].msg] = t
      BY <1>1, <2>2 DEF Served, Open
    <3>2. CASE i # p.id
      BY <1>1, <3>1, <3>2 DEF Served, Open
    <3>3. CASE i = p.id
      BY <1>1, <3>1, <3>3 DEF Served
    <3> QED
      BY <3>2, <3>3
  <2> QED
    BY <2>1, <2>2
<1>5. /\ BrokerMoves(1, q) /\ DOMAIN up' \subseteq Nat /\ DOMAIN down' \subseteq Nat
      /\ \A A : q \notin A => DownKept(A)
  <2>1. q.type # "PUBLISH" /\ (q \in Grants => Head(up) \in Requests)
    BY <1>3 DEF Grants
  <2> QED
    BY <1>1, <1>3, <1>4, <2>1, TakesMoves DEF LossInv
<1>6. SubscribeInv' /\ \A m : Done(m) => Done(m)'
  BY <1>5, BrokerSubscription DEF LossInv
<1>7. ASSUME NEW i \in BrokerIds \ reused, i # p.id PROVE PipeOf(i)' /\ (Heard' => TableOf(i)')
  <2>1. q \notin Pubs(i) \cup Rels(i)
    BY <1>3, <1>7 DEF Pubs, Rels
  <2>2. DownKept(Pubs(i) \cup Rels(i))
    BY <1>5, <2>1
  <2>3. inflight'[i] = inflight[i] /\ (i \notin retried' => i \notin retried)
    BY <1>1, <1>7
  <2> QED
    BY <1>2, <1>5, <1>6, <2>2, <2>3, BrokerOthers
<1>8. ASSUME NEW i \in BrokerIds \ reused, i = p.id PROVE PipeOf(i)' /\ (Heard' => TableOf(i)')
  BY <1>5, <1>6, <1>8, ExpectedPipe
<1>9. PublishesRight'
  <2>1. \A k \in DOMAIN down' : down'[k].type = "PUBLISH" => k \in DOMAIN down /\ down'[k] = down[k]
    BY <1>3, <1>5 DEF BrokerMoves
  <2> QED
    BY <2>1 DEF PublishesRight, LossInv
<1>10. AckedDone'
  <2>. SUFFICES ASSUME NEW m \in acked' PROVE Done(m)'
    BY DEF AckedDone, Done, Given, Subscribing
  <2>1. CASE m \in acked
    BY <1>6, <2>1 DEF LossInv, AckedDone
  <2>2. CASE m \notin acked
    <3>1. p.type # "PUBCOMP" /\ p.id \in BrokerIds \ reused /\ m = inflight[p.id].msg
      BY <1>1, <2>2
    <3>2. PICK i : i = p.id
      OBVIOUS
    <3>3. p \in Recs(i)
      BY <1>1, <3>1, <3>2 DEF Recs
    <3>4. ~Clear(up, Recs(i))
      BY <1>1, <3>3 DEF Clear
    <3>5. AnsweredDone(i)
      BY <3>1, <3>2 DEF LossInv, PipeOf
    <3> QED
      BY <1>1, <1>6, <3>1, <3>2, <3>4, <3>5 DEF AnsweredDone
  <2> QED
    BY <2>1, <2>2
<1>11. TableIds'
  BY ClientStays DEF LossInv
<1> QED
  BY <1>1, <1>6, <1>7, <1>8, <1>9, <1>10, <1>11 DEF LossInv

\* The broker sends q of its own accord, for the message in flight or a new one.
SendsOne(q) ==
    /\ up' = up /\ link' = link /\ acked' = acked /\ reused \subseteq reused'
    /\ q \in DownPacket /\ down' = Append(down, q) /\ q.type \in {"PUBLISH", "PUBREL"}
    /\ q.type = "PUBLISH" =>
         /\ Served(TopicOf[q.body])
         /\ q.val = QosOf[q.body] /\ (q.val = 2 => q.id \in BrokerIds)
    /\ \A t : Served(t)' => Served(t)
    /\ \A i \in BrokerIds : i # q.id =>
         inflight'[i] = inflight[i] /\ (i \notin retried' => i \notin retried)

\* It keeps the invariant if it keeps it for the id it sends under.
LEMMA SendsLoss ==
    ASSUME TypeOK, Assumptions, LossInv, UNCHANGED clientVars, NEW q, SendsOne(q),
           \A i \in BrokerIds \ reused' : i = q.id /\ (\A m : Done(m) => Done(m)') =>
             PipeOf(i)' /\ (Heard' => TableOf(i)')
    PROVE  LossInv'
<1>1. /\ up' = up /\ link' = link /\ acked' = acked /\ reused \subseteq reused'
      /\ q \in DownPacket /\ down' = Append(down, q) /\ q.type \in {"PUBLISH", "PUBREL"}
      /\ q.type = "PUBLISH" =>
           /\ Served(TopicOf[q.body])
           /\ q.val = QosOf[q.body] /\ (q.val = 2 => q.id \in BrokerIds)
      /\ \A t : Served(t)' => Served(t)
      /\ \A i \in BrokerIds : i # q.id =>
           inflight'[i] = inflight[i] /\ (i \notin retried' => i \notin retried)
  BY DEF SendsOne
<1>2. up \in Seq(UpPacket) /\ down \in Seq(DownPacket)
  BY DEF TypeOK, LinkTypeOK
<1>3. /\ DOMAIN down' \subseteq Nat /\ DOMAIN down \subseteq Nat
      /\ \A k \in DOMAIN down' :
           \/ k \in DOMAIN down /\ down'[k] = down[k]
           \/ k = Len(down) + 1 /\ down'[k] = q
  BY <1>1, <1>2, AppendPlaces
<1>4. DOMAIN up \subseteq Nat /\ DOMAIN up' \subseteq Nat
  BY <1>1, <1>2, LenProperties
<1>5. BrokerMoves(0, q)
  <2>1. \A k \in DOMAIN up' : k + 0 \in DOMAIN up /\ up'[k] = up[k + 0]
    BY <1>1, <1>4
  <2>2. q \notin Grants
    BY <1>1 DEF Grants
  <2> QED
    BY <1>1, <1>3, <2>1, <2>2 DEF BrokerMoves
<1>6. SubscribeInv' /\ \A m : Done(m) => Done(m)'
  BY <1>4, <1>5, BrokerSubscription DEF LossInv
<1>7. ASSUME NEW A PROVE Thins(up, up', A) /\ (q \notin A => DownKept(A))
  <2>1. Thins(up, up', A)
    BY <1>1 DEF Thins
  <2>2. ASSUME q \notin A PROVE DownKept(A)
    <3>1. \A k \in DOMAIN down' : down'[k] \in A => k + 0 \in DOMAIN down /\ down'[k] = down[k + 0]
      BY <1>3, <2>2
    <3> QED
      BY <3>1 DEF DownKept
  <2> QED
    BY <2>1, <2>2
<1>8. Heard' <=> Heard
  BY <1>1 DEF Heard
<1>9. ASSUME NEW i \in BrokerIds \ reused', i # q.id PROVE PipeOf(i)' /\ (Heard' => TableOf(i)')
  <2>1. q \notin Pubs(i) \cup Rels(i)
    BY <1>9 DEF Pubs, Rels
  <2>2. DownKept(Pubs(i) \cup Rels(i)) /\ Thins(up, up', Recs(i) \cup Comps(i))
    BY <1>7, <2>1
  <2>3. i \in BrokerIds \ reused /\ inflight'[i] = inflight[i] /\ (i \notin retried' => i \notin retried)
    BY <1>1, <1>9
  <2> QED
    BY <1>3, <1>6, <1>8, <2>2, <2>3, BrokerOthers
<1>10. PublishesRight'
  <2>. SUFFICES ASSUME NEW k \in DOMAIN down', down'[k].type = "PUBLISH"
                PROVE  /\ down'[k].val = QosOf[down'[k].body]
                       /\ down'[k].val = 2 => down'[k].id \in BrokerIds
    BY DEF PublishesRight
  <2>1. CASE k \in DOMAIN down /\ down'[k] = down[k]
    BY <2>1 DEF LossInv, PublishesRight
  <2>2. CASE k = Len(down) + 1 /\ down'[k] = q
    BY <1>1, <2>2
  <2> QED
    BY <1>3, <2>1, <2>2
<1>11. AckedDone'
  <2>. SUFFICES ASSUME NEW m \in acked PROVE Done(m)'
    BY <1>1 DEF AckedDone, Done, Given, Subscribing
  <2> QED
    BY <1>6 DEF LossInv, AckedDone
<1>12. TableIds'
  BY ClientStays DEF LossInv
<1>13. ASSUME NEW i \in BrokerIds \ reused' PROVE PipeOf(i)' /\ (Heard' => TableOf(i)')
  BY <1>6, <1>9
<1> QED
  BY <1>6, <1>10, <1>11, <1>12, <1>13 DEF LossInv

\* A message published under id: nothing else is under that id.
LEMMA PublishesPipe ==
    ASSUME TypeOK, Assumptions, LossInv, UNCHANGED clientVars, NEW q, SendsOne(q),
           NEW i \in BrokerIds \ reused, i = q.id, i \notin retried, ~Open(i),
           q.type = "PUBLISH", inflight'[i].msg = q.body, inflight'[i].phase = "pub"
    PROVE  PipeOf(i)' /\ (Heard' => TableOf(i)')
<1>1. Single(i) /\ Empty(i) /\ (Heard => TableOf(i))
  BY DEF LossInv, PipeOf, Clean
<1>2. /\ Clear(down, Pubs(i) \cup Rels(i)) /\ Clear(up, Recs(i) \cup Comps(i))
      /\ Clear(stack, Cycles(i))
  BY <1>1 DEF Empty
<1>3. up' = up /\ link' = link /\ q \in DownPacket /\ down' = Append(down, q)
  BY DEF SendsOne
<1>4. stack' = stack /\ (Recorded(i)' <=> Recorded(i))
  BY ClientStays
<1>5. \A k \in DOMAIN down' :
        \/ k \in DOMAIN down /\ down'[k] = down[k]
        \/ k = Len(down) + 1 /\ down'[k] = q
  BY <1>3, AppendPlaces DEF TypeOK, LinkTypeOK
<1>6. \A k \in DOMAIN down' : down'[k] \in Pubs(i) \cup Rels(i) => k = Len(down) + 1 /\ down'[k] = q
  BY <1>2, <1>5 DEF Clear
<1>7. Clear(down', Rels(i))
  BY <1>6 DEF Clear, Rels
<1>8. /\ Clear(up', Recs(i) \cup Comps(i)) /\ Clear(up', Recs(i)) /\ Clear(up', Comps(i))
      /\ Clear(stack', Cycles(i))
  BY <1>2, <1>3, <1>4 DEF Clear
<1>9. Open(i)'
  BY DEF Open
<1>10. Clean(i)'
  <2>1. /\ Lone(down', Pubs(i) \cup Rels(i)) /\ Lone(up', Recs(i) \cup Comps(i))
        /\ Lone(stack', Cycles(i))
    BY <1>6, <1>8 DEF Clear, Lone
  <2>2. Single(i)'
    BY <1>8, <2>1 DEF Single
  <2> QED
    BY <1>9, <2>2 DEF Clean
<1>11. InPhase(i)'
  BY <1>7, <1>8 DEF InPhase, Clear
<1>12. SameMessage(i)'
  BY <1>6, <1>8, <1>9 DEF SameMessage, Clear
<1>13. AnsweredDone(i)'
  BY <1>8 DEF AnsweredDone
<1>14. ASSUME Heard' PROVE TableOf(i)'
  <2>1. ~Recorded(i)
    BY <1>1, <1>3, <1>14 DEF TableOf, SlotTaken, Heard
  <2>2. SlotTaken(i)'
    BY <1>4, <2>1 DEF SlotTaken
  <2>3. CyclesDone(i)'
    BY <1>8 DEF CyclesDone, Clear
  <2> QED
    BY <2>2, <2>3 DEF TableOf
<1> QED
  BY <1>10, <1>11, <1>12, <1>13, <1>14 DEF PipeOf

\* The broker publishes a message.
LEMMA PublishesLoss ==
    ASSUME TypeOK, Assumptions, LossInv, UNCHANGED clientVars, NEW m \in Msgs, BrokerPublishes(m)
    PROVE  LossInv'
<1>1. /\ up' = up /\ link' = link /\ acked' = acked /\ subs' = subs /\ retried' = retried
      /\ TopicOf[m] \in subs
  BY DEF BrokerPublishes
<1>2. CASE /\ QosOf[m] = 0
           /\ Sends(MkPacket("PUBLISH", 0, 0, m))
           /\ UNCHANGED <<inflight, reused>>
  <2>1. PICK q \in DownPacket : q = MkPacket("PUBLISH", 0, QosOf[m], m)
    BY PublishType DEF Assumptions, LinkAssumption
  <2>2. /\ down' = Append(down, q) /\ q.type = "PUBLISH" /\ q.id = 0
        /\ q.body = m /\ q.val = QosOf[m]
    BY <1>2, <2>1 DEF Sends, MkPacket
  <2>3. SendsOne(q)
    BY <1>1, <1>2, <2>2 DEF SendsOne, Served, Open
  <2>4. q.id \notin BrokerIds
    BY <2>2 DEF Assumptions, BrokerAssumption, PacketId
  <2> QED
    BY <2>3, <2>4, SendsLoss
<1>3. ASSUME NEW id \in BrokerIds,
             inflight[id].phase = "free",
             inflight' = [inflight EXCEPT ![id] = [msg |-> m, phase |-> "pub"]],
             reused' = reused \cup ({id} \cap retried),
             Sends(Publish(id))
      PROVE  LossInv'
  <2>1. id \in 0..MaxPacketId
    BY DEF Assumptions, BrokerAssumption, PacketId
  <2>2. /\ inflight'[id] = [msg |-> m, phase |-> "pub"]
        /\ \A i \in BrokerIds : i # id => inflight'[i] = inflight[i]
    BY <1>3 DEF TypeOK, BrokerTypeOK
  <2>3. PICK q \in DownPacket : q = MkPacket("PUBLISH", id, QosOf[m], m)
    BY <2>1, PublishType DEF Assumptions, LinkAssumption
  <2>4. /\ down' = Append(down, q) /\ q.type = "PUBLISH" /\ q.id = id
        /\ q.body = m /\ q.val = QosOf[m]
    BY <1>3, <2>2, <2>3 DEF Sends, Publish, MkPacket
  <2>5. \A t : Served(t)' => Served(t)
    <3>. SUFFICES ASSUME NEW t, Served(t)' PROVE Served(t)
      OBVIOUS
    <3>1. CASE t \in subs
      BY <3>1 DEF Served
    <3>2. CASE t \notin subs
      <4>1. PICK i \in BrokerIds : inflight'[i].phase # "free" /\ TopicOf[inflight'[i].msg] = t
        BY <1>1, <3>2 DEF Served, Open
      <4>2. i # id
        BY <1>1, <2>2, <3>2, <4>1
      <4> QED
        BY <2>2, <4>1, <4>2 DEF Served, Open
    <3> QED
      BY <3>1, <3>2
  <2>6. SendsOne(q)
    <3>1. Served(TopicOf[q.body])
      BY <1>1, <2>4 DEF Served
    <3>2. reused \subseteq reused'
      BY <1>3
    <3> QED
      BY <1>1, <2>2, <2>4, <2>5, <3>1, <3>2 DEF SendsOne
  <2>7. ASSUME NEW i \in BrokerIds \ reused', i = q.id PROVE PipeOf(i)' /\ (Heard' => TableOf(i)')
    <3>1. i \in BrokerIds \ reused /\ i \notin retried
      BY <1>3, <2>4, <2>7
    <3>2. ~Open(i)
      BY <1>3, <2>4, <2>7 DEF Open
    <3>3. inflight'[i].msg = q.body /\ inflight'[i].phase = "pub"
      BY <2>2, <2>4, <2>7
    <3> QED
      BY <2>4, <2>6, <2>7, <3>1, <3>2, <3>3, PublishesPipe
  <2> QED
    BY <2>6, <2>7, SendsLoss
<1> QED
  BY <1>2, <1>3 DEF BrokerPublishes

\* What is in flight under id is sent once more.
LEMMA RetriesPipe ==
    ASSUME TypeOK, Assumptions, LossInv, UNCHANGED clientVars, NEW q, SendsOne(q),
           NEW i \in BrokerIds \ reused, i = q.id, i \in retried', inflight' = inflight,
           \/ q.type = "PUBLISH" /\ inflight[i].phase = "pub" /\ inflight[i].msg = q.body
           \/ q.type = "PUBREL" /\ inflight[i].phase = "rel",
           \A m : Done(m) => Done(m)'
    PROVE  PipeOf(i)' /\ (Heard' => TableOf(i)')
<1>1. PipeOf(i) /\ (Heard => TableOf(i))
  BY DEF LossInv
<1>2. up' = up /\ link' = link /\ q \in DownPacket /\ down' = Append(down, q)
  BY DEF SendsOne
<1>3. /\ StackKept(i) /\ (Recorded(i)' <=> Recorded(i)) /\ FreshGoes
      /\ stack' = stack /\ stack \in Seq(Frame)
  BY ClientStays DEF TypeOK, ClientTypeOK
<1>4. /\ DOMAIN down = 1..Len(down) /\ Len(down) \in Nat
      /\ \A k \in DOMAIN down' :
           \/ k \in DOMAIN down /\ down'[k] = down[k]
           \/ k = Len(down) + 1 /\ down'[k] = q
  BY <1>2, AppendPlaces DEF TypeOK, LinkTypeOK
<1>5. Clean(i)'
  BY DEF Clean
<1>6. InPhase(i)'
  <2>1. CASE q.type = "PUBLISH"
    <3>1. Clear(down, Rels(i)) /\ Clear(up, Comps(i))
      BY <1>1, <2>1 DEF PipeOf, InPhase
    <3>2. Clear(down', Rels(i)) /\ Clear(up', Comps(i))
      BY <1>2, <1>4, <2>1, <3>1 DEF Clear, Rels
    <3> QED
      BY <3>2 DEF InPhase, Clear
  <2>2. CASE q.type # "PUBLISH"
    <3>1. inflight[i].phase = "rel" /\ q.type = "PUBREL"
      BY <2>2
    <3>2. \A k \in DOMAIN down' : down'[k] \in Pubs(i) => k \in DOMAIN down /\ down'[k] = down[k]
      BY <1>4, <2>2 DEF Pubs
    <3>3. \A j, k \in DOMAIN down' : down'[j] \in Rels(i) /\ down'[k] \in Pubs(i) => k < j
      <4>. SUFFICES ASSUME NEW j \in DOMAIN down', NEW k \in DOMAIN down',
                           down'[j] \in Rels(i), down'[k] \in Pubs(i)
                    PROVE  k < j
        OBVIOUS
      <4>1. k \in DOMAIN down /\ down[k] \in Pubs(i)
        BY <3>2
      <4>2. CASE j \in DOMAIN down /\ down'[j] = down[j]
        BY <1>1, <4>1, <4>2 DEF PipeOf, InPhase
      <4>3. CASE j = Len(down) + 1
        BY <1>4, <4>1, <4>3
      <4> QED
        BY <1>4, <4>2, <4>3
    <3>4. Clear(up', Comps(i)) \/ Clear(down', Pubs(i))
      BY <1>1, <1>2, <3>2 DEF PipeOf, InPhase, Clear
    <3> QED
      BY <3>1, <3>3, <3>4 DEF InPhase
  <2> QED
    BY <2>1, <2>2
<1>7. SameMessage(i)'
  <2>1. ASSUME NEW k \in DOMAIN down', down'[k] \in Pubs(i)
        PROVE  /\ down'[k].val = 2 => Open(i)
               /\ Open(i) => inflight[i].msg = down'[k].body
    <3>1. CASE k \in DOMAIN down /\ down'[k] = down[k]
      BY <1>1, <2>1, <3>1 DEF PipeOf, SameMessage
    <3>2. CASE down'[k] = q
      BY <2>1, <3>2 DEF Pubs, Open
    <3> QED
      BY <1>4, <3>1, <3>2
  <2> QED
    BY <1>1, <1>3, <2>1 DEF PipeOf, SameMessage, Open
<1>8. AnsweredDone(i)'
  BY <1>1, <1>2, AnsweredShrinks DEF PipeOf
<1>9. ASSUME Heard' PROVE TableOf(i)'
  <2>1. SameMessage(i) /\ TableOf(i)
    BY <1>1, <1>2, <1>9 DEF PipeOf, Heard
  <2>2. inflight'[i] = inflight[i] /\ (Clear(up, Comps(i)) => Clear(up', Comps(i)))
    BY <1>2
  <2> QED
    BY <1>3, <2>1, <2>2, TableShrinks
<1> QED
  BY <1>5, <1>6, <1>7, <1>8, <1>9 DEF PipeOf

\* The broker sends something again.
LEMMA RetriesLoss ==
    ASSUME TypeOK, Assumptions, LossInv, UNCHANGED clientVars,
           NEW id \in BrokerIds, BrokerRetries(id)
    PROVE  LossInv'
<1>1. /\ up' = up /\ link' = link /\ acked' = acked /\ subs' = subs /\ reused' = reused
      /\ inflight' = inflight /\ retried' = retried \cup {id}
      /\ \/ inflight[id].phase = "pub" /\ Sends(Publish(id))
         \/ inflight[id].phase = "rel" /\ Sends(Ack("PUBREL", id))
  BY DEF BrokerRetries
<1>2. id \in 0..MaxPacketId
  BY DEF Assumptions, BrokerAssumption, PacketId
<1>3. PICK q \in DownPacket :
        /\ down' = Append(down, q) /\ q.id = id
        /\ \/ /\ q.type = "PUBLISH" /\ inflight[id].phase = "pub"
              /\ inflight[id].msg = q.body /\ q.val = QosOf[q.body]
           \/ q.type = "PUBREL" /\ inflight[id].phase = "rel"
  <2>1. CASE inflight[id].phase = "pub" /\ Sends(Publish(id))
    <3>1. inflight[id].msg \in Msgs
      BY <2>1 DEF TypeOK, BrokerTypeOK, InFlight, Idle
    <3>2. PICK q \in DownPacket : q = MkPacket("PUBLISH", id, QosOf[inflight[id].msg], inflight[id].msg)
      BY <1>2, <3>1, PublishType DEF Assumptions, LinkAssumption
    <3>3. /\ down' = Append(down, q) /\ q.type = "PUBLISH" /\ q.id = id
          /\ q.body = inflight[id].msg /\ q.val = QosOf[inflight[id].msg]
      BY <1>1, <2>1, <3>2 DEF Sends, Publish, MkPacket
    <3> QED
      BY <2>1, <3>3
  <2>2. CASE inflight[id].phase = "rel" /\ Sends(Ack("PUBREL", id))
    <3>1. PICK q \in DownPacket : q = Ack("PUBREL", id)
      BY <1>2, BrokerAckType DEF Assumptions, PacketType
    <3>2. down' = Append(down, q) /\ q.type = "PUBREL" /\ q.id = id
      BY <2>2, <3>1 DEF Sends, Ack, MkPacket
    <3> QED
      BY <2>2, <3>2
  <2> QED
    BY <1>1, <2>1, <2>2
<1>4. SendsOne(q)
  <2>1. \A t : Served(t)' => Served(t)
    BY <1>1 DEF Served, Open
  <2>2. q.type = "PUBLISH" => Served(TopicOf[q.body])
    BY <1>3 DEF Served, Open
  <2>3. q.type \in {"PUBLISH", "PUBREL"} /\ (q.type = "PUBLISH" => q.val = QosOf[q.body])
    BY <1>3
  <2>4. \A i \in BrokerIds : i # q.id => (i \notin retried' => i \notin retried)
    BY <1>1
  <2> QED
    BY <1>1, <1>3, <2>1, <2>2, <2>3, <2>4 DEF SendsOne
<1>5. ASSUME NEW i \in BrokerIds \ reused', i = q.id, \A m : Done(m) => Done(m)'
      PROVE  PipeOf(i)' /\ (Heard' => TableOf(i)')
  <2>1. \/ q.type = "PUBLISH" /\ inflight[i].phase = "pub" /\ inflight[i].msg = q.body
        \/ q.type = "PUBREL" /\ inflight[i].phase = "rel"
    BY <1>3, <1>5
  <2>2. i \in BrokerIds \ reused /\ i \in retried'
    BY <1>1, <1>3, <1>5
  <2> QED
    BY <1>1, <1>4, <1>5, <2>1, <2>2, RetriesPipe
<1> QED
  BY <1>4, <1>5, SendsLoss

-----------------------------------------------------------------------------
(* The theorems *)

\* A new connection, and the program at its start: nothing is on the way.
Blank ==
    /\ up = <<>> /\ down = <<>> /\ stack = <<>>
    /\ subs = {} /\ acked = {}
    /\ inflight = [i \in BrokerIds |-> Idle]
    /\ incoming_qos2_messages = [i \in Slots |-> 0]

\* There the invariant holds.
LEMMA BlankLoss ==
    ASSUME Assumptions, Blank
    PROVE  LossInv
<1>1. /\ DOMAIN up = {} /\ DOMAIN down = {} /\ DOMAIN stack = {} /\ stack = <<>>
      /\ subs = {} /\ acked = {}
  BY DEF Blank
<1>2. \A A : /\ Clear(up, A) /\ Clear(down, A) /\ Clear(stack, A)
             /\ Lone(up, A) /\ Lone(down, A) /\ Lone(stack, A)
  BY <1>1 DEF Clear, Lone
<1>3. \A i \in BrokerIds : inflight[i].phase = "free"
  BY DEF Blank, Idle
<1>4. \A t : ~Served(t)
  BY <1>1, <1>3 DEF Served, Open
<1>5. SubscribeInv
  BY <1>1, <1>4 DEF SubscribeInv, RequestsKnown, SubsKnown, PublishesKnown, FramesKnown
<1>6. TableIds
  BY DEF Blank, TableIds
<1>7. PublishesRight /\ AckedDone
  BY <1>1 DEF PublishesRight, AckedDone
<1>8. ASSUME NEW i \in BrokerIds PROVE PipeOf(i) /\ TableOf(i)
  <2>1. Clean(i)
    BY <1>2 DEF Clean, Single, Empty
  <2>2. InPhase(i) /\ SameMessage(i)
    BY <1>1, <1>2 DEF InPhase, SameMessage
  <2>3. AnsweredDone(i)
    BY <1>2 DEF AnsweredDone
  <2>4. ~Recorded(i)
    <3>1. i # 0
      BY DEF Assumptions, BrokerAssumption, PacketId
    <3> QED
      BY <3>1 DEF Blank, Recorded, isQoS2msgidFree
  <2>5. TableOf(i)
    BY <1>1, <2>4 DEF TableOf, SlotTaken, CyclesDone
  <2> QED
    BY <2>1, <2>2, <2>3, <2>5 DEF PipeOf
<1> QED
  BY <1>5, <1>6, <1>7, <1>8 DEF LossInv

\* Every step of the client keeps the invariant.
LEMMA ClientKeepsLoss ==
    ASSUME TypeOK, Assumptions, PairedIn(stack), SlotsDistinct, LossInv,
           ClientNext, UNCHANGED sessionVars
    PROVE  LossInv'
<1>1. CASE AppCalls
  <2>1. Subscription(stack') /\ Quiet
    <3>1. CASE MQTTYield
      BY <3>1, TimeStep
    <3>2. CASE ~MQTTYield
      BY <1>1, <3>2, AppRequests, RequestStep
    <3> QED
      BY <3>1, <3>2
  <2> QED
    BY <2>1, QuietLoss
<1>2. CASE CycleReads
  <2>1. CASE ReadPublish
    BY <2>1, PublishLoss
  <2>2. ASSUME NEW outcome,
               CompleteConnect(outcome) \/ CompleteSubscribe(outcome) \/ CompleteOther(outcome)
        PROVE  LossInv'
    BY <2>2, CompleteStep, QuietLoss
  <2>3. ASSUME NEW outcome, DropAck(outcome) \/ ReadPingresp(outcome) \/ ReadPubrec(outcome)
        PROVE  LossInv'
    BY <2>3, DropStep, QuietLoss
  <2>4. ASSUME NEW outcome, ReadPubrel(outcome) PROVE LossInv'
    BY <2>4, PubrelLoss
  <2> QED
    BY <1>2, <2>1, <2>2, <2>3, <2>4 DEF CycleReads
<1>3. CASE Delivers
  <2>1. CASE CallHandler
    BY <2>1, HandlerStep, QuietLoss
  <2>2. ASSUME NEW outcome, AcknowledgePublish(outcome) PROVE LossInv'
    BY <2>2, AckLoss
  <2> QED
    BY <1>3, <2>1, <2>2 DEF Delivers
<1>4. CASE HandlerReturns
  BY <1>4, HandlerStep, QuietLoss
<1>5. CASE TimePasses \/ WaitEnds
  BY <1>5, TimeStep, QuietLoss
<1> QED
  BY <1>1, <1>2, <1>3, <1>4, <1>5 DEF ClientNext

\* A step that changes nothing of the connection, the session and the client.
LEMMA StutterLoss ==
    ASSUME TypeOK, LossInv, UNCHANGED sessionVars, UNCHANGED linkVars, UNCHANGED clientVars
    PROVE  LossInv'
<1>1. /\ UNCHANGED <<up, down, link, stack, readbuf, messageHandlers, incoming_qos2_messages>>
      /\ UNCHANGED <<unheard, handled, overflowed>>
  BY DEF linkVars, clientVars, tableVars, historyVars
<1>2. Fresh' <=> Fresh
  BY <1>1 DEF Fresh
<1>3. UpGrows(Bare("PINGREQ"))
  BY <1>1, SameGrows
<1>4. Subscription(stack')
  <2>1. PICK q : q = Bare("PINGREQ")
    OBVIOUS
  <2>2. q.type \notin {"SUBSCRIBE", "garbage"}
    BY <2>1, PingType
  <2>3. GoesOn(stack, stack')
    BY <1>1 DEF GoesOn
  <2> QED
    BY <1>1, <1>3, <2>1, <2>2, <2>3, SameSubscription
<1>5. Quiet
  BY <1>1, <1>2 DEF Quiet, Heard, Calm, Top
<1> QED
  BY <1>4, <1>5, QuietLoss

\* Every step of the broker does.
LEMMA BrokerKeepsLoss ==
    ASSUME TypeOK, Assumptions, LossInv, BrokerNext, UNCHANGED clientVars
    PROVE  LossInv'
<1>1. CASE \/ BrokerConnack \/ BrokerSuback \/ BrokerUnsuback \/ BrokerAnswers
           \/ BrokerAcked /\ ~Expected(Head(up))
  BY <1>1, AnswersLoss
<1>2. CASE BrokerAcked /\ Expected(Head(up))
  <2>1. PICK p : p = Head(up)
    OBVIOUS
  <2>2. Expected(p)
    BY <1>2, <2>1
  <2> QED
    BY <1>2, <2>1, <2>2, ExpectedLoss
<1>3. CASE BrokerCloses \/ LinkBreaks
  BY <1>3, CloseLoss DEF BrokerCloses, LinkBreaks
<1>4. ASSUME NEW m \in Msgs, BrokerPublishes(m) PROVE LossInv'
  BY <1>4, PublishesLoss
<1>5. ASSUME NEW id \in BrokerIds, BrokerRetries(id) PROVE LossInv'
  BY <1>5, RetriesLoss
<1>6. CASE PeerStalls \/ PeerReads
  BY <1>6, StutterLoss DEF PeerStalls, PeerReads
<1> QED
  BY <1>1, <1>2, <1>3, <1>4, <1>5, <1>6 DEF BrokerNext

\* Every step keeps the invariant, or starts a new connection.
LEMMA NextKeepsLoss ==
    ASSUME TypeOK, Assumptions, PairedIn(stack), SlotsDistinct, LossInv, [Next]_vars
    PROVE  LossInv' \/ Blank'
<1>1. CASE Reconnect
  BY <1>1 DEF Reconnect, NewConnection, FreshSession, Blank, reuseVars
<1>2. CASE Client
  BY <1>2, ClientKeepsLoss DEF Client, brokerVars
<1>3. CASE Broker
  BY <1>3, BrokerKeepsLoss DEF Broker
<1>4. CASE UNCHANGED vars
  BY <1>4, StutterLoss DEF vars, brokerVars
<1> QED
  BY <1>1, <1>2, <1>3, <1>4 DEF Next

\* So it is an invariant of the system.
LEMMA LossInvariance == Spec => [](TypeOK /\ LossInv)
<1>. USE LinkAssumption, ClientAssumption, BrokerAssumption DEF Assumptions
<1>1. Init => Blank
  BY DEF Init, LinkInit, ClientInit, BrokerInit, Blank
<1>2. Blank => LossInv
  BY BlankLoss
<1>3. TypeOK /\ PairedIn(stack) /\ SlotsDistinct /\ LossInv /\ [Next]_vars => LossInv' \/ Blank'
  BY NextKeepsLoss
<1> QED
  BY <1>1, <1>2, <1>3, AckInvariance, SlotsDistinctHolds, PTL DEF Spec

\* A QoS 2 slot is taken only while the broker has that handshake in progress,
\* or under an id it has used again after a retransmission.
THEOREM NoSlotLeakHolds == Spec => []NoSlotLeak
<1>1. TypeOK /\ LossInv => NoSlotLeak
  <2>. SUFFICES ASSUME LossInv, Heard, NEW s \in Slots, incoming_qos2_messages[s] # 0,
                       NEW i, i = incoming_qos2_messages[s]
                PROVE  i \in BrokerIds /\ (inflight[i].phase # "free" \/ i \in reused)
    BY DEF NoSlotLeak
  <2>1. i \in BrokerIds
    BY DEF LossInv, TableIds
  <2>2. Recorded(i)
    BY DEF Recorded, isQoS2msgidFree
  <2>3. i \notin reused => SlotTaken(i)
    BY <2>1 DEF LossInv, TableOf
  <2> QED
    BY <2>1, <2>2, <2>3 DEF SlotTaken, Open
<1> QED
  BY <1>1, LossInvariance, PTL

\* A message the client has acknowledged under an id not used again was given
\* to its handler, or had to be dropped for one of the reasons NoLoss names.
THEOREM NoLossHolds == Spec => []NoLoss
<1>1. LossInv => NoLoss
  <2>. SUFFICES ASSUME LossInv, NEW m \in acked
                PROVE  m \in handled \cup overflowed \/ TopicOf[m] \in Unheard
    BY DEF NoLoss
  <2>1. PICK t : t = TopicOf[m]
    OBVIOUS
  <2>2. m \in handled \/ m \in overflowed \/ Given(t)
    BY <2>1 DEF LossInv, AckedDone, Done
  <2>3. Given(t) => t \in Unheard
    BY DEF Given, Subscribing, Subscribes, Unheard
  <2> QED
    BY <2>1, <2>2, <2>3
<1> QED
  BY <1>1, LossInvariance, PTL

-----------------------------------------------------------------------------
(* The contract of the QoS levels.  LossInv says under which packet ids    *)
(* messages travel; in addition, what is acknowledged has been delivered   *)
(* or dropped by the full table, and nothing comes before it was sent.     *)

\* Delivered, or dropped by the full table.
Taken == overflowed \cup {m \in Msgs : accepted[m] > 0}

\* What is recorded, being delivered, or acknowledged under i has been taken.
AnsweredTaken(i) == Open(i) /\ ~Clear(up, Recs(i)) => inflight[i].msg \in Taken
RecordedTaken(i) == Open(i) /\ Recorded(i) => inflight[i].msg \in Taken
CyclesTaken(i) == \A k \in DOMAIN stack : stack[k] \in Cycles(i) => stack[k].pkt.body \in Taken

TakenOf(i) == AnsweredTaken(i) /\ (Heard => RecordedTaken(i) /\ CyclesTaken(i))

Copies(m) == {p \in DownPacket : p.type = "PUBLISH" /\ p.body = m}

\* There is nothing of a message that has not been sent.
NotYet(m) ==
    m \in unsent =>
        /\ accepted[m] = 0
        /\ Clear(down, Copies(m))
        /\ \A i \in BrokerIds : Open(i) => inflight[i].msg # m

\* A message of QoS 0 is sent once, and not delivered before it has come.
AtMostOnce(m) ==
    QosOf[m] = 0 => Lone(down, Copies(m)) /\ (Clear(down, Copies(m)) \/ accepted[m] = 0)

\* A packet id is for a message that will be acknowledged.
Graded == \A i \in BrokerIds : Open(i) => QosOf[inflight[i].msg] # 0

ContractInv ==
    /\ Graded
    /\ \A m \in Msgs : NotYet(m) /\ AtMostOnce(m)
    /\ \A i \in BrokerIds \ reused : TakenOf(i)

\* With no more packets, and no message in flight that was not, what is said of
\* m stays.
LEMMA SentShrinks ==
    ASSUME NEW m, NotYet(m), AtMostOnce(m), Thins(down, down', Copies(m)),
           accepted'[m] = accepted[m], m \in unsent' => m \in unsent,
           \A i \in BrokerIds : Open(i)' =>
             \/ Open(i) /\ inflight'[i].msg = inflight[i].msg
             \/ inflight'[i].msg # m
    PROVE  NotYet(m)' /\ AtMostOnce(m)'
<1>1. /\ Clear(down, Copies(m)) => Clear(down', Copies(m))
      /\ Lone(down, Copies(m)) => Lone(down', Copies(m))
  BY ThinsParts
<1>2. NotYet(m)'
  BY <1>1 DEF NotYet, Open
<1>3. AtMostOnce(m)'
  BY <1>1 DEF AtMostOnce
<1> QED
  BY <1>2, <1>3

\* With nothing new under i, what is said of it stays.
LEMMA TakenShrinks ==
    ASSUME NEW i, TakenOf(i), Taken \subseteq Taken', StackKept(i),
           Open(i)' => Open(i) /\ inflight'[i].msg = inflight[i].msg,
           Clear(up, Recs(i)) => Clear(up', Recs(i)), Recorded(i)' => Recorded(i), Heard' => Heard
    PROVE  TakenOf(i)'
<1>1. AnsweredTaken(i)'
  BY DEF TakenOf, AnsweredTaken
<1>2. ASSUME Heard' PROVE RecordedTaken(i)' /\ CyclesTaken(i)'
  <2>1. RecordedTaken(i) /\ CyclesTaken(i)
    BY <1>2 DEF TakenOf
  <2>2. RecordedTaken(i)'
    BY <2>1 DEF RecordedTaken
  <2>3. CyclesTaken(i)'
    BY <2>1 DEF CyclesTaken, StackKept
  <2> QED
    BY <2>2, <2>3
<1> QED
  BY <1>1, <1>2 DEF TakenOf

\* Packets read leave the others.
LEMMA ShiftThins ==
    ASSUME LinkTypeOK, down' = down \/ (down # <<>> /\ down' = Tail(down)), NEW A
    PROVE  Thins(down, down', A)
<1>1. DownShift /\ DOMAIN down \subseteq Nat /\ DOMAIN down' \subseteq Nat
  BY Shifts
<1>2. DownKept(A)
  BY <1>1 DEF DownShift, DownKept
<1> QED
  BY <1>1, <1>2, KeptThins

\* freeQoS2msgid records nothing.
LEMMA FreesOnly ==
    ASSUME ClientTypeOK, NEW id, freeQoS2msgid(id)
    PROVE  \A s \in Slots : incoming_qos2_messages'[s] \in {incoming_qos2_messages[s], 0}
<1>1. CASE \E s \in Slots : incoming_qos2_messages' = [incoming_qos2_messages EXCEPT ![s] = 0]
  BY <1>1 DEF ClientTypeOK
<1> QED
  BY <1>1 DEF freeQoS2msgid

\* A step of the client that delivers nothing: what it acknowledges is taken.
LEMMA ClientContract ==
    ASSUME TypeOK, ContractInv, UNCHANGED sessionVars, UNCHANGED <<accepted, overflowed>>,
           \A A : Thins(down, down', A), Heard' => Heard,
           NEW J, J = BrokerIds \ reused,
           \A i \in J : /\ StackKept(i) /\ (Recorded(i)' => Recorded(i))
                        /\ Clear(up, Recs(i)) => Clear(up', Recs(i)) \/ AnsweredTaken(i)'
    PROVE  ContractInv' /\ UNCHANGED <<unsent, accepted, overflowed, acked>>
<1>1. UNCHANGED <<unsent, acked, inflight, reused>> /\ Taken' = Taken
  BY DEF sessionVars, reuseVars, Taken
<1>2. ASSUME NEW m \in Msgs PROVE NotYet(m)' /\ AtMostOnce(m)'
  BY <1>1, SentShrinks DEF ContractInv, Open
<1>3. ASSUME NEW i \in J PROVE TakenOf(i)'
  <2>1. TakenOf(i)
    BY DEF ContractInv
  <2>2. CASE Clear(up, Recs(i)) => Clear(up', Recs(i))
    BY <1>1, <2>1, <2>2, TakenShrinks DEF Open
  <2>3. CASE AnsweredTaken(i)'
    <3>1. ASSUME Heard' PROVE RecordedTaken(i)' /\ CyclesTaken(i)'
      <4>1. RecordedTaken(i) /\ CyclesTaken(i)
        BY <2>1, <3>1 DEF TakenOf
      <4>2. RecordedTaken(i)'
        BY <1>1, <4>1 DEF RecordedTaken, Open
      <4>3. CyclesTaken(i)'
        BY <1>1, <4>1 DEF CyclesTaken, StackKept
      <4> QED
        BY <4>2, <4>3
    <3> QED
      BY <2>3, <3>1 DEF TakenOf
  <2> QED
    BY <2>2, <2>3
<1>4. Graded'
  BY <1>1 DEF ContractInv, Graded, Open
<1> QED
  BY <1>1, <1>2, <1>3, <1>4 DEF ContractInv

\* A step that neither reads nor answers what the broker publishes.
LEMMA QuietContract ==
    ASSUME TypeOK, ContractInv, Quiet, UNCHANGED sessionVars, UNCHANGED <<accepted, overflowed>>
    PROVE  ContractInv' /\ UNCHANGED <<unsent, accepted, overflowed, acked>>
<1>1. \A A : Thins(down, down', A)
  BY ShiftThins DEF Quiet, TypeOK
<1>2. ASSUME NEW i
      PROVE  /\ StackKept(i) /\ (Recorded(i)' => Recorded(i))
             /\ Clear(up, Recs(i)) => Clear(up', Recs(i))
  <2>1. StackKept(i)
    BY CalmKept DEF Quiet
  <2>2. Recorded(i)' => Recorded(i)
    BY DEF Quiet, Recorded, isQoS2msgidFree
  <2>3. \A k \in DOMAIN up' : up'[k] \in Recs(i) => k \in DOMAIN up /\ up'[k] = up[k]
    BY DEF Quiet, Recs
  <2> QED
    BY <2>1, <2>2, <2>3, IndexThins
<1>3. Heard' => Heard
  BY DEF Quiet
<1>4. PICK J : J = BrokerIds \ reused
  OBVIOUS
<1> QED
  BY <1>1, <1>2, <1>3, <1>4, ClientContract

\* A PUBREL is answered, and frees the slot of its id.
LEMMA PubrelContract ==
    ASSUME TypeOK, Assumptions, ContractInv, NEW outcome, ReadPubrel(outcome), UNCHANGED sessionVars
    PROVE  ContractInv' /\ UNCHANGED <<unsent, accepted, overflowed, acked>>
<1>1. PICK p : p = Head(down)
  OBVIOUS
<1>2. /\ down # <<>> /\ down' = Tail(down) /\ Calm(stack, stack')
      /\ \E q : q.type = "PUBCOMP" /\ q.id = p.id /\ UpGrows(q)
      /\ \/ incoming_qos2_messages' = incoming_qos2_messages
         \/ freeQoS2msgid(p.id)
  BY <1>1, PubrelStep
<1>3. PICK q : q.type = "PUBCOMP" /\ UpGrows(q)
  BY <1>2
<1>4. /\ \A A : Thins(down, down', A)
      /\ UNCHANGED <<accepted, overflowed>>
  BY ReadsThins DEF ReadPubrel, historyVars, TypeOK
<1>5. ASSUME NEW i \in BrokerIds
      PROVE  /\ StackKept(i) /\ (Recorded(i)' => Recorded(i))
             /\ Clear(up, Recs(i)) => Clear(up', Recs(i))
  <2>1. StackKept(i)
    BY <1>2, CalmKept
  <2>2. Recorded(i)' => Recorded(i)
    <3>1. i # 0
      BY DEF Assumptions, BrokerAssumption, PacketId
    <3>2. CASE incoming_qos2_messages' = incoming_qos2_messages
      BY <3>2 DEF Recorded, isQoS2msgidFree
    <3>3. CASE freeQoS2msgid(p.id)
      <4>1. \A s \in Slots : incoming_qos2_messages'[s] \in {incoming_qos2_messages[s], 0}
        BY <3>3, FreesOnly DEF TypeOK
      <4> QED
        BY <3>1, <4>1 DEF Recorded, isQoS2msgidFree
    <3> QED
      BY <1>2, <3>2, <3>3
  <2>3. \A k \in DOMAIN up' : up'[k] \in Recs(i) => k \in DOMAIN up /\ up'[k] = up[k]
    <3>1. Garbage.type = "garbage"
      BY DEF Garbage, Bare, Ack, MkPacket
    <3> QED
      BY <1>3, <3>1 DEF UpGrows, Recs
  <2> QED
    BY <2>1, <2>2, <2>3, IndexThins
<1>6. Heard' => Heard
  BY <1>3 DEF UpGrows
<1>7. PICK J : J = BrokerIds \ reused
  OBVIOUS
<1> QED
  BY <1>4, <1>5, <1>6, <1>7, ClientContract

\* A cycle answers its PUBLISH: the message is one it has taken.
LEMMA AckContract ==
    ASSUME TypeOK, Assumptions, LossInv, ContractInv, NEW outcome, AcknowledgePublish(outcome),
           UNCHANGED sessionVars
    PROVE  ContractInv' /\ UNCHANGED <<unsent, accepted, overflowed, acked>>
<1>1. PICK p : p = Top.pkt
  OBVIOUS
<1>2. /\ Len(stack) \in DOMAIN stack /\ Top = stack[Len(stack)] /\ Top \in DeliverFrame
      /\ \A k \in DOMAIN stack' : stack'[k] \in DeliverFrame =>
           /\ k \in DOMAIN stack /\ k # Len(stack)
           /\ stack[k] \in DeliverFrame /\ stack'[k].pkt = stack[k].pkt
      /\ down' = down /\ incoming_qos2_messages' = incoming_qos2_messages
      /\ \E q : /\ UpGrows(q) /\ q.type \in {"PINGREQ", "PUBACK", "PUBREC"}
                /\ q.type # "PINGREQ" => q.id = p.id
  BY <1>1, AckStep
<1>3. PICK q : /\ UpGrows(q) /\ q.type \in {"PINGREQ", "PUBACK", "PUBREC"}
               /\ q.type # "PINGREQ" => q.id = p.id
  BY <1>2
<1>4. UNCHANGED <<accepted, overflowed>> /\ inflight' = inflight /\ Taken' = Taken
  BY DEF AcknowledgePublish, historyVars, sessionVars, Taken
<1>5. /\ \A k \in DOMAIN up' : up'[k].type \in {"PUBACK", "PUBREC"} =>
           \/ k \in DOMAIN up /\ up'[k] = up[k]
           \/ up'[k] = q /\ Heard
      /\ Heard' => Heard
  <2>1. Garbage.type = "garbage"
    BY DEF Garbage, Bare, Ack, MkPacket
  <2> QED
    BY <1>3, <2>1 DEF UpGrows
<1>6. PICK J : J = BrokerIds \ reused
  OBVIOUS
<1>7. ASSUME NEW i \in J, Clear(up, Recs(i)), ~Clear(up', Recs(i)) PROVE AnsweredTaken(i)'
  <2>1. PICK k \in DOMAIN up' : up'[k] \in Recs(i)
    BY <1>7 DEF Clear
  <2>2. up'[k] = q /\ Heard /\ q.id = i /\ q.type # "PINGREQ"
    BY <1>5, <1>7, <2>1 DEF Recs, Clear
  <2>3. Top \in Cycles(i)
    BY <1>1, <1>2, <1>3, <2>2 DEF Cycles
  <2>4. p.body \in Taken
    BY <1>1, <1>2, <1>6, <2>2, <2>3 DEF ContractInv, TakenOf, CyclesTaken
  <2>5. Open(i) => inflight[i].msg = p.body
    BY <1>1, <1>2, <1>6, <2>3 DEF LossInv, PipeOf, SameMessage
  <2> QED
    BY <1>4, <2>4, <2>5 DEF AnsweredTaken, Open
<1>8. ASSUME NEW i \in J
      PROVE  /\ StackKept(i) /\ (Recorded(i)' => Recorded(i))
             /\ Clear(up, Recs(i)) => Clear(up', Recs(i)) \/ AnsweredTaken(i)'
  BY <1>2, <1>7, <1>8 DEF StackKept, Cycles, Recorded, isQoS2msgidFree
<1>9. \A A : Thins(down, down', A)
  BY <1>2, SameThins
<1> QED
  BY <1>4, <1>5, <1>6, <1>8, <1>9, ClientContract

\* A PUBLISH is read: a new message is delivered or dropped, and a repeated one
\* of QoS 2 was taken before.
LEMMA PublishContract ==
    ASSUME TypeOK, Assumptions, LossInv, ContractInv, Qos2AtMostOnce', ReadPublish,
           UNCHANGED sessionVars
    PROVE  /\ ContractInv'
           /\ \/ UNCHANGED <<unsent, accepted, overflowed, acked>>
              \/ \E m \in Msgs : Contract!Deliver(m) \/ Contract!Refuse(m)
<1>1. PICK p : p = Head(down)
  OBVIOUS
<1>2. /\ 1 \in DOMAIN down /\ down[1] = p /\ p \in DownPacket /\ p.type = "PUBLISH"
      /\ up' = up /\ (Heard' => Heard)
      /\ \A k \in DOMAIN stack' :
           \/ k \in DOMAIN stack /\ stack'[k] = stack[k]
           \/ k = Len(stack') /\ stack'[k] \in DeliverFrame /\ stack'[k].pkt = p
  BY <1>1, PublishStep
<1>3. /\ \/ /\ p.val # 2 /\ Accept(p)
            /\ UNCHANGED <<incoming_qos2_messages, overflowed>>
         \/ p.val = 2 /\ useQoS2msgid(p.id) /\ Accept(p) /\ overflowed' = overflowed
         \/ /\ p.val = 2 /\ overflowed' = overflowed \cup {p.body} /\ accepted' = accepted
            /\ incoming_qos2_messages' = incoming_qos2_messages
         \/ /\ p.val = 2 /\ Recorded(p.id)
            /\ UNCHANGED <<accepted, overflowed, incoming_qos2_messages>>
  BY <1>1 DEF ReadPublish, Recorded, Ignore
<1>4. Reads({"PUBLISH"})
  BY DEF ReadPublish
<1>5. UNCHANGED <<unsent, acked, inflight, reused>>
  BY DEF sessionVars, reuseVars
<1>6. PICK m \in Msgs : m = p.body
  BY <1>2 DEF DownPacket
<1>7. p.val = QosOf[m] /\ QosOf[m] \in 0..2 /\ accepted \in [Msgs -> Nat]
  BY <1>2, <1>6 DEF LossInv, PublishesRight, Assumptions, LinkAssumption, TypeOK, ClientTypeOK
<1>8. p \in Copies(m) /\ ~Clear(down, Copies(m))
  BY <1>2, <1>6 DEF Copies, Clear
<1>9. /\ m \notin unsent
      /\ QosOf[m] = 0 => accepted[m] = 0 /\ Lone(down, Copies(m))
  BY <1>8 DEF ContractInv, NotYet, AtMostOnce
<1>10. Accept(p) => /\ accepted' = [accepted EXCEPT ![m] = @ + 1]
                    /\ accepted'[m] = accepted[m] + 1
                    /\ \A n \in Msgs : n # m => accepted'[n] = accepted[n]
  BY <1>6, <1>7 DEF Accept
<1>11. /\ Taken \subseteq Taken'
       /\ m \in Taken' \/ (p.val = 2 /\ Recorded(p.id) /\ incoming_qos2_messages' = incoming_qos2_messages)
  <2>1. CASE Accept(p) /\ overflowed' = overflowed
    <3>1. \A n \in Msgs : accepted[n] > 0 => accepted'[n] > 0
      BY <1>7, <1>10, <2>1
    <3>2. accepted'[m] > 0
      BY <1>7, <1>10, <2>1
    <3> QED
      BY <2>1, <3>1, <3>2 DEF Taken
  <2>2. CASE overflowed' = overflowed \cup {p.body} /\ accepted' = accepted
    BY <1>6, <2>2 DEF Taken
  <2>3. CASE /\ p.val = 2 /\ Recorded(p.id)
             /\ UNCHANGED <<accepted, overflowed, incoming_qos2_messages>>
    BY <2>3 DEF Taken
  <2> QED
    BY <1>3, <2>1, <2>2, <2>3
<1>12. ASSUME NEW n \in Msgs PROVE NotYet(n)' /\ AtMostOnce(n)'
  <2>1. Thins(down, down', Copies(n))
    BY <1>4, ReadsThins DEF TypeOK
  <2>2. CASE n # m
    <3>1. accepted'[n] = accepted[n]
      BY <1>3, <1>10, <2>2
    <3> QED
      BY <1>5, <2>1, <3>1, SentShrinks DEF ContractInv, Open
  <2>3. CASE n = m
    <3>1. Lone(down, Copies(m)) => Clear(down', Copies(m))
      BY <1>1, <1>4, <1>8, ReadsThins DEF TypeOK
    <3>2. Clear(down', Copies(m)) => Lone(down', Copies(m))
      BY DEF Clear, Lone
    <3> QED
      BY <1>5, <1>9, <2>3, <3>1, <3>2 DEF NotYet, AtMostOnce
  <2> QED
    BY <2>2, <2>3
<1>13. ASSUME NEW i \in BrokerIds \ reused PROVE TakenOf(i)'
  <2>1. TakenOf(i) /\ SameMessage(i)
    BY DEF ContractInv, LossInv, PipeOf
  <2>2. p.id = i => /\ p.val = 2 => Open(i)
                    /\ Open(i) => inflight[i].msg = m
    BY <1>2, <1>6, <2>1 DEF SameMessage, Pubs
  <2>3. AnsweredTaken(i)'
    BY <1>2, <1>5, <1>11, <2>1 DEF TakenOf, AnsweredTaken, Open
  <2>4. ASSUME Heard' PROVE RecordedTaken(i)' /\ CyclesTaken(i)'
    <3>1. RecordedTaken(i) /\ CyclesTaken(i)
      BY <1>2, <2>1, <2>4 DEF TakenOf
    <3>2. Recorded(i)' => Recorded(i) \/ (i = p.id /\ m \in Taken')
      <4>1. CASE incoming_qos2_messages' = incoming_qos2_messages
        BY <4>1 DEF Recorded, isQoS2msgidFree
      <4>2. CASE useQoS2msgid(p.id) /\ m \in Taken'
        <5>1. i # 0
          BY DEF Assumptions, BrokerAssumption, PacketId
        <5> QED
          BY <4>2, <5>1, TableAdds DEF TypeOK
      <4> QED
        BY <1>3, <1>11, <4>1, <4>2
    <3>3. RecordedTaken(i)'
      BY <1>5, <1>11, <2>2, <3>1, <3>2 DEF RecordedTaken, Open
    <3>4. ASSUME NEW k \in DOMAIN stack', stack'[k] \in Cycles(i)
          PROVE  stack'[k].pkt.body \in Taken'
      <4>1. CASE k \in DOMAIN stack /\ stack'[k] = stack[k]
        BY <1>11, <3>1, <3>4, <4>1 DEF CyclesTaken
      <4>2. CASE stack'[k].pkt = p
        <5>1. p.id = i /\ stack'[k].pkt.body = m
          BY <1>6, <3>4, <4>2 DEF Cycles
        <5> QED
          BY <1>11, <2>2, <3>1, <5>1 DEF RecordedTaken
      <4> QED
        BY <1>2, <4>1, <4>2
    <3> QED
      BY <3>3, <3>4 DEF CyclesTaken
  <2> QED
    BY <2>3, <2>4 DEF TakenOf
<1>14. ContractInv'
  BY <1>5, <1>12, <1>13 DEF ContractInv, Graded, Open
<1>15. CASE Accept(p) /\ overflowed' = overflowed
  <2>1. QosOf[m] = 2 => accepted[m] = 0
    BY <1>7, <1>10, <1>15 DEF Qos2AtMostOnce
  <2>2. Contract!Deliver(m)
    BY <1>5, <1>7, <1>9, <1>10, <1>15, <2>1 DEF Contract!Deliver
  <2> QED
    BY <1>14, <2>2
<1>16. CASE /\ p.val = 2 /\ overflowed' = overflowed \cup {p.body} /\ accepted' = accepted
  <2>1. Contract!Refuse(m)
    BY <1>5, <1>6, <1>7, <1>9, <1>16 DEF Contract!Refuse
  <2> QED
    BY <1>14, <2>1
<1> QED
  BY <1>3, <1>5, <1>14, <1>15, <1>16

\* A step of the broker that puts nothing new in flight.
LEMMA BrokerContract ==
    ASSUME ContractInv, UNCHANGED clientVars, Heard' => Heard, unsent' = unsent,
           reused' = reused,
           \A m \in Msgs : Thins(down, down', Copies(m)) \/ (m \notin unsent /\ QosOf[m] # 0),
           \A i \in BrokerIds : Open(i)' => Open(i) /\ inflight'[i].msg = inflight[i].msg,
           \A i : Clear(up, Recs(i)) => Clear(up', Recs(i))
    PROVE  ContractInv' /\ UNCHANGED <<unsent, accepted, overflowed>>
<1>1. UNCHANGED <<accepted, overflowed>> /\ Taken' = Taken
  BY DEF clientVars, historyVars, Taken
<1>2. \A i : StackKept(i) /\ (Recorded(i)' <=> Recorded(i))
  BY ClientStays
<1>3. ASSUME NEW m \in Msgs PROVE NotYet(m)' /\ AtMostOnce(m)'
  <2>1. CASE Thins(down, down', Copies(m))
    BY <1>1, <2>1, SentShrinks DEF ContractInv
  <2>2. CASE m \notin unsent /\ QosOf[m] # 0
    BY <2>2 DEF NotYet, AtMostOnce
  <2> QED
    BY <2>1, <2>2
<1>4. ASSUME NEW i \in BrokerIds \ reused PROVE TakenOf(i)'
  BY <1>1, <1>2, TakenShrinks DEF ContractInv
<1>5. Graded'
  BY DEF ContractInv, Graded
<1> QED
  BY <1>1, <1>3, <1>4, <1>5 DEF ContractInv

\* down has grown by q at most, and every A that q is not of by nothing.
LEMMA GrowsThins ==
    ASSUME LinkTypeOK, NEW q \in DownPacket, down' = Append(down, q), NEW A, q \notin A
    PROVE  Thins(down, down', A)
  BY AppendThins DEF LinkTypeOK

\* The broker's answers to requests, and acknowledgements it does not expect.
LEMMA AnswersContract ==
    ASSUME TypeOK, Assumptions, ContractInv, UNCHANGED clientVars, BrokerNext,
           \/ BrokerConnack \/ BrokerSuback \/ BrokerUnsuback \/ BrokerAnswers
           \/ BrokerAcked /\ ~Expected(Head(up))
    PROVE  ContractInv' /\ UNCHANGED <<unsent, accepted, overflowed, acked>>
<1>1. /\ UNCHANGED <<link, inflight, unsent, acked, reused>>
      /\ \E types : Takes(types)
  BY DEF BrokerConnack, BrokerSuback, BrokerUnsuback, BrokerAnswers, BrokerAcked,
       brokerVars, sessionVars,
         reuseVars
<1>2. BrokerTakes
  BY <1>1, TakesOnly
<1>3. Takes(PacketType \ {"garbage"})
  BY <1>2 DEF BrokerTakes
<1>4. (Heard' => Heard) /\ \A A : Thins(up, up', A)
  BY <1>1, <1>3, TakesThins DEF TypeOK
<1>5. \A i : Clear(up, Recs(i)) => Clear(up', Recs(i))
  BY <1>4, ThinsParts
<1>6. ASSUME NEW m \in Msgs PROVE Thins(down, down', Copies(m))
  <2>1. CASE down' = down
    BY <2>1, SameThins
  <2>2. CASE down' # down
    <3>1. PICK q \in DownPacket : down' = Append(down, q) /\ Replies(Head(up), q)
      BY <1>2, <2>2 DEF BrokerTakes
    <3>2. q \notin Copies(m)
      BY <3>1 DEF Replies, Copies
    <3> QED
      BY <3>1, <3>2, GrowsThins DEF TypeOK
  <2> QED
    BY <2>1, <2>2
<1>7. \A i \in BrokerIds : Open(i)' => Open(i) /\ inflight'[i].msg = inflight[i].msg
  BY <1>1 DEF Open
<1> QED
  BY <1>1, <1>4, <1>5, <1>6, <1>7, BrokerContract

\* An acknowledgement the broker expects settles a message that was taken.
LEMMA SettlesContract ==
    ASSUME TypeOK, Assumptions, LossInv, ContractInv, UNCHANGED clientVars, BrokerAcked,
           NEW p, p = Head(up), Expected(p)
    PROVE  /\ ContractInv'
           /\ \/ UNCHANGED <<unsent, accepted, overflowed, acked>>
              \/ \E m \in Msgs : Contract!Settle(m)
<1>1. Settles(p) /\ unsent' = unsent
  BY ExpectedStep DEF BrokerAcked
<1>2. (Heard' => Heard) /\ \A A : Thins(up, up', A)
  BY <1>1, TakesThins DEF Settles, TypeOK
<1>3. \A i : Clear(up, Recs(i)) => Clear(up', Recs(i))
  BY <1>2, ThinsParts
<1>4. ASSUME NEW m \in Msgs PROVE Thins(down, down', Copies(m))
  <2>1. CASE down' = down
    BY <2>1, SameThins
  <2>2. CASE \E q \in DownPacket : q.type = "PUBREL" /\ down' = Append(down, q)
    <3>1. PICK q \in DownPacket : q.type = "PUBREL" /\ down' = Append(down, q)
      BY <2>2
    <3>2. q \notin Copies(m)
      BY <3>1 DEF Copies
    <3> QED
      BY <3>1, <3>2, GrowsThins DEF TypeOK
  <2> QED
    BY <1>1, <2>1, <2>2 DEF Settles
<1>5. \A i \in BrokerIds : Open(i)' => Open(i) /\ inflight'[i].msg = inflight[i].msg
  BY <1>1 DEF Settles, Open
<1>6. reused' = reused
  BY <1>1 DEF Settles
<1>7. ContractInv' /\ UNCHANGED <<unsent, accepted, overflowed>>
  BY <1>1, <1>2, <1>3, <1>4, <1>5, <1>6, BrokerContract
<1>8. ASSUME acked' # acked PROVE \E m \in Msgs : Contract!Settle(m)
  <2>1. /\ p.id \in BrokerIds \ reused /\ Open(p.id) /\ p \in UpPacket
        /\ 1 \in DOMAIN up /\ up[1] = p /\ p.type \in {"PUBACK", "PUBREC"}
        /\ QosOf[inflight[p.id].msg] > 0
        /\ acked' = acked \cup {inflight[p.id].msg}
    BY <1>1, <1>8 DEF Settles
  <2>2. PICK m \in Msgs : m = inflight[p.id].msg
    BY <2>1 DEF Open, TypeOK, BrokerTypeOK, InFlight, Idle
  <2>3. ~Clear(up, Recs(p.id))
    BY <2>1 DEF Recs, Clear
  <2>4. m \in Taken
    BY <2>1, <2>2, <2>3 DEF ContractInv, TakenOf, AnsweredTaken
  <2>5. accepted[m] > 0 \/ m \in overflowed
    BY <2>4 DEF Taken
  <2> QED
    BY <1>7, <2>1, <2>2, <2>5 DEF Contract!Settle
<1> QED
  BY <1>7, <1>8

\* The connection ends.
LEMMA CloseContract ==
    ASSUME TypeOK, ContractInv, UNCHANGED clientVars, Close
    PROVE  ContractInv' /\ UNCHANGED <<unsent, accepted, overflowed, acked>>
<1>1. /\ link' = "closed" /\ up' = <<>> /\ UNCHANGED <<inflight, unsent, acked, reused>>
      /\ down \in Seq(DownPacket) /\ Len(down) \in Nat
  BY LenProperties DEF Close, reuseVars, TypeOK, LinkTypeOK
<1>2. PICK n \in 0..Len(down) : down' = SubSeq(down, 1, n)
  BY DEF Close
<1>3. ASSUME NEW m \in Msgs PROVE Thins(down, down', Copies(m))
  BY <1>1, <1>2, PrefixThins
<1>4. ~Heard' /\ \A i : Clear(up', Recs(i))
  BY <1>1 DEF Heard, Clear
<1>5. \A i \in BrokerIds : Open(i)' => Open(i) /\ inflight'[i].msg = inflight[i].msg
  BY <1>1 DEF Open
<1> QED
  BY <1>1, <1>3, <1>4, <1>5, BrokerContract

\* The broker publishes a message: there was nothing of it before, and nothing
\* under the packet id it goes by.
LEMMA PublishesContract ==
    ASSUME TypeOK, Assumptions, LossInv, ContractInv, UNCHANGED clientVars,
           NEW m \in Msgs, BrokerPublishes(m)
    PROVE  ContractInv' /\ Contract!Send(m)
<1>1. /\ m \in unsent /\ unsent' = unsent \ {m}
      /\ UNCHANGED <<up, link, retried, acked>> /\ (Heard' => Heard)
  BY DEF BrokerPublishes, Heard
<1>2. /\ UNCHANGED <<accepted, overflowed, stack>> /\ Taken' = Taken
      /\ \A i : StackKept(i) /\ (Recorded(i)' <=> Recorded(i))
  BY ClientStays DEF clientVars, historyVars, Taken
<1>3. /\ accepted[m] = 0 /\ Clear(down, Copies(m))
      /\ \A i \in BrokerIds : Open(i) => inflight[i].msg # m
  BY <1>1 DEF ContractInv, NotYet
<1>4. Contract!Send(m)
  BY <1>1, <1>2 DEF Contract!Send
<1>5. ASSUME NEW q \in DownPacket, q.body = m, down' = Append(down, q),
             \A i \in BrokerIds : Open(i)' =>
               \/ Open(i) /\ inflight'[i].msg = inflight[i].msg
               \/ inflight'[i].msg = m
      PROVE  \A n \in Msgs : NotYet(n)' /\ AtMostOnce(n)'
  <2>1. ASSUME NEW n \in Msgs, n # m PROVE NotYet(n)' /\ AtMostOnce(n)'
    <3>1. q \notin Copies(n)
      BY <1>5, <2>1 DEF Copies
    <3>2. Thins(down, down', Copies(n))
      BY <1>5, <3>1, GrowsThins DEF TypeOK
    <3> QED
      BY <1>1, <1>2, <1>5, <2>1, <3>2, SentShrinks DEF ContractInv
  <2>2. \A k \in DOMAIN down' : down'[k] \in Copies(m) => k = Len(down) + 1
    BY <1>3, <1>5, AppendPlaces DEF Clear, TypeOK, LinkTypeOK
  <2>3. NotYet(m)' /\ AtMostOnce(m)'
    BY <1>1, <1>2, <1>3, <2>2 DEF NotYet, AtMostOnce, Lone
  <2> QED
    BY <2>1, <2>3
<1>6. CASE /\ Sends(MkPacket("PUBLISH", 0, 0, m)) /\ QosOf[m] = 0
           /\ UNCHANGED <<inflight, reused>>
  <2>1. PICK q \in DownPacket : q = MkPacket("PUBLISH", 0, QosOf[m], m)
    BY PublishType DEF Assumptions, LinkAssumption
  <2>2. q.body = m /\ down' = Append(down, q)
    BY <1>6, <2>1 DEF Sends, MkPacket
  <2>3. \A n \in Msgs : NotYet(n)' /\ AtMostOnce(n)'
    BY <1>5, <1>6, <2>2 DEF Open
  <2>4. ASSUME NEW i \in BrokerIds \ reused PROVE TakenOf(i)'
    BY <1>1, <1>2, <1>6, TakenShrinks DEF ContractInv, Open
  <2>5. Graded'
    BY <1>6 DEF ContractInv, Graded, Open
  <2> QED
    BY <1>4, <1>6, <2>3, <2>4, <2>5 DEF ContractInv
<1>7. ASSUME NEW id \in BrokerIds, QosOf[m] > 0, ~Open(id), Sends(Publish(id)),
             inflight' = [inflight EXCEPT ![id] = [msg |-> m, phase |-> "pub"]],
             reused' = reused \cup ({id} \cap retried)
      PROVE  ContractInv'
  <2>1. /\ inflight'[id] = [msg |-> m, phase |-> "pub"]
        /\ \A i \in BrokerIds : i # id => inflight'[i] = inflight[i]
    BY <1>7 DEF TypeOK, BrokerTypeOK
  <2>2. PICK q \in DownPacket : q = MkPacket("PUBLISH", id, QosOf[m], m)
    BY PublishType DEF Assumptions, LinkAssumption, BrokerAssumption, PacketId
  <2>3. q.body = m /\ down' = Append(down, q)
    BY <1>7, <2>1, <2>2 DEF Sends, Publish, MkPacket
  <2>4. inflight'[id].msg = m /\ Open(id)'
    BY <2>1 DEF Open
  <2>5. \A i \in BrokerIds : i # id => /\ Open(i)' <=> Open(i)
                                       /\ inflight'[i].msg = inflight[i].msg
    BY <2>1 DEF Open
  <2>6. \A n \in Msgs : NotYet(n)' /\ AtMostOnce(n)'
    BY <1>5, <2>3, <2>4, <2>5
  <2>7. ASSUME NEW i \in BrokerIds \ reused' PROVE TakenOf(i)'
    <3>1. i \in BrokerIds \ reused
      BY <1>7, <2>7
    <3>2. CASE i # id
      BY <1>1, <1>2, <2>5, <3>1, <3>2, TakenShrinks DEF ContractInv
    <3>3. CASE i = id
      <4>1. Empty(i) /\ (Heard => ~Recorded(i))
        BY <1>7, <2>7, <3>1, <3>3 DEF LossInv, PipeOf, Clean, TableOf, SlotTaken
      <4>2. Clear(up', Recs(i)) /\ Clear(stack', Cycles(i))
        BY <1>1, <1>2, <4>1 DEF Empty, Clear
      <4> QED
        BY <1>1, <1>2, <4>1, <4>2 DEF TakenOf, AnsweredTaken, RecordedTaken, CyclesTaken, Clear
    <3> QED
      BY <3>2, <3>3
  <2>8. Graded'
    BY <1>7, <2>4, <2>5 DEF ContractInv, Graded
  <2> QED
    BY <2>6, <2>7, <2>8 DEF ContractInv
<1> QED
  BY <1>4, <1>6, <1>7 DEF BrokerPublishes, Open

\* The broker sends again what is in flight under id.
LEMMA RetriesContract ==
    ASSUME TypeOK, Assumptions, ContractInv, UNCHANGED clientVars,
           NEW id \in BrokerIds, BrokerRetries(id)
    PROVE  ContractInv' /\ UNCHANGED <<unsent, accepted, overflowed, acked>>
<1>1. /\ UNCHANGED <<up, link, inflight, unsent, acked, reused>> /\ (Heard' => Heard)
      /\ \/ inflight[id].phase = "pub" /\ Sends(Publish(id))
         \/ inflight[id].phase = "rel" /\ Sends(Ack("PUBREL", id))
  BY DEF BrokerRetries, Heard
<1>2. id \in 0..MaxPacketId
  BY DEF Assumptions, BrokerAssumption, PacketId
<1>3. ASSUME NEW m \in Msgs
      PROVE  Thins(down, down', Copies(m)) \/ (m \notin unsent /\ QosOf[m] # 0)
  <2>1. CASE inflight[id].phase = "pub" /\ Sends(Publish(id))
    <3>1. PICK n \in Msgs : n = inflight[id].msg
      BY <2>1 DEF TypeOK, BrokerTypeOK, InFlight, Idle
    <3>2. PICK q \in DownPacket : q = MkPacket("PUBLISH", id, QosOf[n], n)
      BY <1>2, PublishType DEF Assumptions, LinkAssumption
    <3>3. q.body = n /\ down' = Append(down, q)
      BY <1>1, <2>1, <3>1, <3>2 DEF Sends, Publish, MkPacket
    <3>4. m # n => q \notin Copies(m)
      BY <3>3 DEF Copies
    <3>5. m = n => m \notin unsent /\ QosOf[m] # 0
      BY <2>1, <3>1 DEF ContractInv, NotYet, Graded, Open
    <3> QED
      BY <3>3, <3>4, <3>5, GrowsThins DEF TypeOK
  <2>2. CASE inflight[id].phase = "rel" /\ Sends(Ack("PUBREL", id))
    <3>1. PICK q \in DownPacket : q = Ack("PUBREL", id)
      BY <1>2, BrokerAckType DEF Assumptions, PacketType
    <3>2. q \notin Copies(m) /\ down' = Append(down, q)
      BY <2>2, <3>1 DEF Sends, Ack, MkPacket, Copies
    <3> QED
      BY <3>2, GrowsThins DEF TypeOK
  <2> QED
    BY <1>1, <2>1, <2>2
<1>4. \A i \in BrokerIds : Open(i)' => Open(i) /\ inflight'[i].msg = inflight[i].msg
  BY <1>1 DEF Open
<1> QED
  BY <1>1, <1>3, <1>4, BrokerContract

\* Every step of the client is allowed by the contract.
LEMMA ClientKeepsContract ==
    ASSUME TypeOK, Assumptions, PairedIn(stack), LossInv, ContractInv, Qos2AtMostOnce',
           ClientNext, UNCHANGED sessionVars
    PROVE  /\ ContractInv'
           /\ \/ UNCHANGED <<unsent, accepted, overflowed, acked>>
              \/ \E m \in Msgs : Contract!Deliver(m) \/ Contract!Refuse(m)
<1>1. CASE AppCalls
  <2>1. CASE MQTTYield
    <3>1. UNCHANGED <<accepted, overflowed>>
      BY <2>1 DEF MQTTYield, historyVars
    <3> QED
      BY <2>1, <3>1, TimeStep, QuietContract
  <2>2. CASE ~MQTTYield
    <3>1. PICK p \in UpPacket : \E op, await, outcome :
            /\ Request(p, op, await, outcome) /\ Asks(p, op, await)
            /\ NotesOverrun(p, outcome)
      BY <1>1, <2>2, AppRequests
    <3>2. UNCHANGED <<accepted, overflowed>>
      BY <3>1 DEF Request
    <3> QED
      BY <3>1, <3>2, RequestStep, QuietContract
  <2> QED
    BY <2>1, <2>2
<1>2. CASE CycleReads
  <2>1. CASE ReadPublish
    BY <2>1, PublishContract
  <2>2. ASSUME NEW outcome,
               CompleteConnect(outcome) \/ CompleteSubscribe(outcome) \/ CompleteOther(outcome)
        PROVE  ContractInv' /\ UNCHANGED <<unsent, accepted, overflowed, acked>>
    <3>1. UNCHANGED <<accepted, overflowed>>
      BY <2>2 DEF CompleteConnect, CompleteSubscribe, CompleteOther, historyVars
    <3> QED
      BY <2>2, <3>1, CompleteStep, QuietContract
  <2>3. ASSUME NEW outcome, DropAck(outcome) \/ ReadPingresp(outcome) \/ ReadPubrec(outcome)
        PROVE  ContractInv' /\ UNCHANGED <<unsent, accepted, overflowed, acked>>
    <3>1. UNCHANGED <<accepted, overflowed>>
      BY <2>3 DEF DropAck, ReadPingresp, ReadPubrec, historyVars
    <3> QED
      BY <2>3, <3>1, DropStep, QuietContract
  <2>4. ASSUME NEW outcome, ReadPubrel(outcome)
        PROVE  ContractInv' /\ UNCHANGED <<unsent, accepted, overflowed, acked>>
    BY <2>4, PubrelContract
  <2> QED
    BY <1>2, <2>1, <2>2, <2>3, <2>4 DEF CycleReads
<1>3. CASE CallHandler \/ HandlerReturns
  <2>1. UNCHANGED <<accepted, overflowed>>
    BY <1>3 DEF CallHandler, HandlerReturns, historyVars
  <2> QED
    BY <1>3, <2>1, HandlerStep, QuietContract
<1>4. ASSUME NEW outcome, AcknowledgePublish(outcome)
      PROVE  ContractInv' /\ UNCHANGED <<unsent, accepted, overflowed, acked>>
  BY <1>4, AckContract
<1>5. CASE TimePasses \/ WaitEnds
  <2>1. UNCHANGED <<accepted, overflowed>>
    BY <1>5 DEF TimePasses, PingTimerExpires, CycleIdle, TimerExpires, WaitEnds, historyVars
  <2> QED
    BY <1>5, <2>1, TimeStep, QuietContract
<1> QED
  BY <1>1, <1>2, <1>3, <1>4, <1>5 DEF ClientNext, Delivers

\* A step that changes nothing of the connection, the session and the client.
LEMMA StutterContract ==
    ASSUME TypeOK, ContractInv, UNCHANGED sessionVars, UNCHANGED linkVars,
           UNCHANGED clientVars
    PROVE  ContractInv' /\ UNCHANGED <<unsent, accepted, overflowed, acked>>
<1>1. UNCHANGED <<up, down, link, stack, incoming_qos2_messages, accepted, overflowed>>
  BY DEF linkVars, clientVars, tableVars, historyVars
<1>2. PICK J : J = BrokerIds \ reused
  OBVIOUS
<1>3. \A i : StackKept(i) /\ (Recorded(i)' => Recorded(i))
  BY <1>1 DEF StackKept, Recorded, isQoS2msgidFree
<1>4. (Heard' => Heard) /\ \A A : Thins(down, down', A)
  BY <1>1, SameThins DEF Heard
<1> QED
  BY <1>1, <1>2, <1>3, <1>4, ClientContract

\* Every step of the broker is.
LEMMA BrokerKeepsContract ==
    ASSUME TypeOK, Assumptions, LossInv, ContractInv, BrokerNext, UNCHANGED clientVars
    PROVE  /\ ContractInv'
           /\ \/ UNCHANGED <<unsent, accepted, overflowed, acked>>
              \/ \E m \in Msgs : Contract!Send(m) \/ Contract!Settle(m)
<1>1. CASE \/ BrokerConnack \/ BrokerSuback \/ BrokerUnsuback \/ BrokerAnswers
           \/ BrokerAcked /\ ~Expected(Head(up))
  BY <1>1, AnswersContract
<1>2. CASE BrokerAcked /\ Expected(Head(up))
  <2>1. PICK p : p = Head(up)
    OBVIOUS
  <2>2. Expected(p)
    BY <1>2, <2>1
  <2> QED
    BY <1>2, <2>1, <2>2, SettlesContract
<1>3. CASE BrokerCloses \/ LinkBreaks
  BY <1>3, CloseContract DEF BrokerCloses, LinkBreaks
<1>4. ASSUME NEW m \in Msgs, BrokerPublishes(m)
      PROVE  ContractInv' /\ Contract!Send(m)
  BY <1>4, PublishesContract
<1>5. ASSUME NEW id \in BrokerIds, BrokerRetries(id)
      PROVE  ContractInv' /\ UNCHANGED <<unsent, accepted, overflowed, acked>>
  BY <1>5, RetriesContract
<1>6. CASE PeerStalls \/ PeerReads
  BY <1>6, StutterContract DEF PeerStalls, PeerReads
<1> QED
  BY <1>1, <1>2, <1>3, <1>4, <1>5, <1>6 DEF BrokerNext

\* A new connection starts a session: nothing is on the way, and what was not
\* sent still is not.
LEMMA ReconnectContract ==
    ASSUME Assumptions, ContractInv, Reconnect
    PROVE  ContractInv' /\ Contract!NewSession
<1>1. /\ up' = <<>> /\ down' = <<>> /\ stack' = <<>> /\ acked' = {}
      /\ \A i \in BrokerIds : ~Open(i)'
      /\ UNCHANGED <<unsent, accepted, overflowed>>
  BY DEF Reconnect, NewConnection, FreshSession, Open, Idle
<1>2. \A A : Clear(down', A) /\ Lone(down', A) /\ Clear(stack', A)
  BY <1>1 DEF Clear, Lone
<1>3. \A m \in Msgs : NotYet(m)' /\ AtMostOnce(m)'
  BY <1>1, <1>2 DEF ContractInv, NotYet, AtMostOnce
<1>4. \A i \in BrokerIds : TakenOf(i)'
  BY <1>1, <1>2 DEF TakenOf, AnsweredTaken, RecordedTaken, CyclesTaken, Clear
<1> QED
  BY <1>1, <1>3, <1>4 DEF ContractInv, Graded, Contract!NewSession

\* At the start nothing has been sent.
LEMMA InitContract ==
    ASSUME Assumptions, Init
    PROVE  ContractInv /\ Contract!Init
<1>1. /\ up = <<>> /\ down = <<>> /\ stack = <<>> /\ acked = {} /\ overflowed = {}
      /\ \A i \in BrokerIds : ~Open(i)
      /\ unsent = Msgs /\ accepted = [m \in Msgs |-> 0]
  BY DEF Init, LinkInit, ClientInit, BrokerInit, Open, Idle
<1>2. \A A : Clear(down, A) /\ Lone(down, A) /\ Clear(stack, A)
  BY <1>1 DEF Clear, Lone
<1>3. \A m \in Msgs : NotYet(m) /\ AtMostOnce(m)
  BY <1>1, <1>2 DEF NotYet, AtMostOnce
<1>4. \A i \in BrokerIds : TakenOf(i)
  BY <1>1, <1>2 DEF TakenOf, AnsweredTaken, RecordedTaken, CyclesTaken, Clear
<1> QED
  BY <1>1, <1>3, <1>4 DEF ContractInv, Graded, Contract!Init

\* What the client delivers and acknowledges, and what the broker then takes for
\* settled, keeps the contract of the QoS levels: MqttSystem implements
\* QosContract, for every table size, set of messages and QoS of each, whatever
\* is repeated, lost, cut short or called by a handler.
THEOREM KeepsContractHolds == Spec => KeepsContract
<1>. USE LinkAssumption, ClientAssumption, BrokerAssumption DEF Assumptions
<1>1. Init => ContractInv /\ Contract!Init
  BY InitContract
<1>2. TypeOK /\ PairedIn(stack) /\ LossInv /\ ContractInv /\ Qos2AtMostOnce' /\ [Next]_vars
        => ContractInv' /\ [Contract!Next]_(Contract!contractVars)
  <2>. SUFFICES ASSUME TypeOK, PairedIn(stack), LossInv, ContractInv, Qos2AtMostOnce', [Next]_vars
                PROVE  ContractInv' /\ [Contract!Next]_(Contract!contractVars)
    OBVIOUS
  <2>1. CASE Reconnect
    BY <2>1, ReconnectContract DEF Contract!Next
  <2>2. CASE Client
    BY <2>2, ClientKeepsContract DEF Client, brokerVars, Contract!Next, Contract!contractVars
  <2>3. CASE Broker
    BY <2>3, BrokerKeepsContract DEF Broker, Contract!Next, Contract!contractVars
  <2>4. CASE UNCHANGED vars
    BY <2>4, StutterContract DEF vars, brokerVars, Contract!contractVars
  <2> QED
    BY <2>1, <2>2, <2>3, <2>4 DEF Next
<1>3. Spec => [](TypeOK /\ PairedIn(stack) /\ LossInv)
  BY AckInvariance, LossInvariance, PTL
<1> QED
  BY <1>1, <1>2, <1>3, Qos2AtMostOnceHolds, PTL DEF Spec, KeepsContract, Contract!Spec
==============================================================================
