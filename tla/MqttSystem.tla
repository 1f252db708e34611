------------------------------ MODULE MqttSystem ------------------------------
(***************************************************************************)
(* The client and the broker on one connection, and what is promised of    *)
(* the two together.                                                       *)
(***************************************************************************)
EXTENDS MqttClient, MqttBroker

vars == <<linkVars, clientVars, brokerVars>>

TypeOK == LinkTypeOK /\ ClientTypeOK /\ BrokerTypeOK

Init == LinkInit /\ ClientInit /\ BrokerInit

\* connect_datonis opens a connection; the broker has nothing of the old one.
Reconnect ==
    /\ \E result \in {"open", "none"} : NewConnection(result)
    /\ FreshSession

Client == ClientNext /\ UNCHANGED brokerVars
Broker == BrokerNext /\ UNCHANGED clientVars

Next == Reconnect \/ Client \/ Broker

Spec == Init /\ [][Next]_vars

\* The client's thread is not inside a write() that blocks: such a call is not
\* seen in the state, so that no step is sure while the peer does not read.
Unblocked == ~stalled /\ UNCHANGED brokerVars

\* Time goes on, a loop whose timer has expired ends, and the code between
\* two network reads runs to its end; a write() that blocks goes on whenever the
\* peer reads, so that it ends if the peer does so again and again.
Fairness ==
    /\ SF_vars(Delivers /\ Unblocked)
    /\ SF_vars(HandlerReturns /\ Unblocked)
    /\ SF_vars(WaitEnds /\ Unblocked)
    /\ SF_vars((\E outcome \in WriteOutcomes : CycleIdle(outcome)) /\ Unblocked)

FairSpec == Spec /\ Fairness

-----------------------------------------------------------------------------
(* Deduplication of QoS 2 messages *)

\* isQoS2msgidFree/useQoS2msgid/freeQoS2msgid: a packet id occupies at most one
\* slot of the table, so that freeing its first slot really frees it.
SlotsDistinct ==
    \A i, j \in Slots :
        i # j /\ incoming_qos2_messages[i] = incoming_qos2_messages[j]
            => incoming_qos2_messages[i] = 0

\* However often the broker sends a QoS 2 message again, and whatever is lost
\* or cut short, cycle() hands it to deliverMessage at most once.
Qos2AtMostOnce == \A m \in Msgs : QosOf[m] = 2 => accepted[m] <= 1

\* A slot is taken only by an id whose handshake the broker has not finished:
\* no slot leaks on an open connection whose stream is intact.  Ids that the
\* broker used again after a retransmission are apart: the answer to the second
\* copy can end the next message's handshake, since cycle() compares ids only.
NoSlotLeak ==
    Heard =>
        \A i \in Slots :
            incoming_qos2_messages[i] # 0 =>
                /\ incoming_qos2_messages[i] \in BrokerIds
                /\ \/ inflight[incoming_qos2_messages[i]].phase # "free"
                   \/ incoming_qos2_messages[i] \in reused

\* A message the client has acknowledged was given to a handler, unless the
\* table of QoS 2 ids was full or there was no handler yet: MQTTSubscribe is
\* running further out (a handler's nested wait may have taken its SUBACK), gave
\* up, or found no free slot.  (acked leaves out the ids of reused: there the
\* acknowledgement may be the one of the message before.)
Unheard ==
    unheard \cup {stack[i].topic : i \in {k \in DOMAIN stack : stack[k].op = "subscribe"}}

NoLoss ==
    \A m \in acked : m \in handled \cup overflowed \/ TopicOf[m] \in Unheard

\* Every step of the client and the broker is a step of QosContract or changes
\* nothing it is about: what cycle() gives to deliverMessage, and what its PUBACK
\* or PUBREC lets the broker take for settled, is what the QoS promises.  (Again
\* without the ids of reused.)
Contract == INSTANCE QosContract WITH
                pending <- unsent, delivered <- accepted, refused <- overflowed, settled <- acked

KeepsContract == Contract!Spec

(* Acknowledgements of the client's own requests *)

CompletesCommand ==
    /\ Waiting /\ Top.await \in AckTypes
    /\ stack' = Below /\ down' # down

\* MQTTSubscribe, MQTTUnsubscribe and MQTTPublish succeed on the ack of the
\* request they sent, although waitfor() looks at its type only, unless an
\* earlier request of that kind was given up on this connection or is being
\* waited for further out.
AckIsOurs ==
    [][CompletesCommand =>
          /\ Head(down).type = Top.await
          /\ \/ Top.op = "connect"
             \/ Head(down).id = Top.id
             \/ Top.await \in orphaned]_vars

\* MQTTUnsubscribe: "should be the same as the packetid above".
UnsubackIsOurs ==
    [][CompletesCommand /\ Top.op = "unsubscribe" => Head(down).id = Top.id]_vars

(* Keep-alive *)

Count(s, type) == Cardinality({k \in DOMAIN s : s[k].type = type})

\* keepalive() has at most one ping on its way, and ping_outstanding says
\* whether it has, on an open connection whose stream is intact.
OnePing ==
    Heard =>
        Count(up, "PINGREQ") + Count(down, "PINGRESP")
            = IF ping_outstanding THEN 1 ELSE 0

(* Progress *)

\* While the connection stays open, every call of the application, and every
\* handler's, returns: when nothing arrives, when what arrives is for someone
\* else, when a write fails, and when the peer reads only now and then.  One that
\* stays connected and never reads again may keep a write(), and the call, for
\* ever: the time limit linux_write is given is set on the wrong direction.
CallsReturn ==
    \/ <>[]stalled
    \/ stack # <<>> /\ link = "open" ~> stack = <<>> \/ link # "open"

\* RETRIES_FOR_ACK: "it would at max wait for 5000 * 10 = 50 seconds for the
\* ack before it gives up": the MQTTYield it waits in returns.
YieldReturns == stack # <<>> ~> stack = <<>>
=============================================================================
