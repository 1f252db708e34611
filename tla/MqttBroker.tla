------------------------------ MODULE MqttBroker ------------------------------
(***************************************************************************)
(* The broker at the other end of the connection.  Its code is not in the  *)
(* repository: this is what the client's code and its tests take for       *)
(* granted of an MQTT 3.1 server with cleansession=1.  It answers packets  *)
(* in the order they come, may refuse a connection or a subscription, may  *)
(* send again a PUBLISH or PUBREL that was not acknowledged, and closes    *)
(* the connection on a packet it cannot read.  It may also stop reading    *)
(* while the connection stays open: TCP's buffers fill up then.            *)
(***************************************************************************)
EXTENDS MqttLink

CONSTANTS
    BrokerIds,      \* packet ids the broker uses
    Refusals,       \* may the broker refuse connections and subscriptions?
    Stalls,         \* may it stop reading?
    MaxRetries      \* bound on retransmissions

ASSUME BrokerAssumption ==
    /\ BrokerIds \subseteq PacketId
    /\ Refusals \in BOOLEAN
    /\ Stalls \in BOOLEAN
    /\ MaxRetries \in Nat

VARIABLES
    session,        \* has a CONNECT been accepted on this connection?
    subs,           \* topics subscribed to
    inflight,       \* per packet id, the message in flight and its phase
    unsent,         \* messages still to be published
    retries,        \* retransmissions so far (bounded)
    acked,          \* history: messages of this session the client answered for
    retried,        \* history: packet ids of this session used for a copy
    reused          \* history: those used for another message after that

reuseVars == <<retried, reused>>
sessionVars == <<session, subs, inflight, unsent, retries, acked, reuseVars>>
brokerVars == <<stalled, sessionVars>>

Idle == [msg |-> None, phase |-> "free"]
InFlight == [msg : Msgs, phase : {"pub", "rel"}] \cup {Idle}

BrokerTypeOK ==
    /\ stalled \in BOOLEAN
    /\ session \in BOOLEAN
    /\ subs \subseteq Topics
    /\ inflight \in [BrokerIds -> InFlight]
    /\ unsent \subseteq Msgs
    /\ retries \in Nat
    /\ acked \subseteq Msgs
    /\ retried \subseteq BrokerIds
    /\ reused \subseteq retried

FreshSession ==
    /\ stalled' = FALSE
    /\ session' = FALSE
    /\ subs' = {}
    /\ inflight' = [i \in BrokerIds |-> Idle]
    /\ acked' = {}
    /\ retried' = {}
    /\ reused' = {}
    /\ UNCHANGED <<unsent, retries>>

-----------------------------------------------------------------------------
Takes(types) ==
    /\ link = "open" /\ ~stalled
    /\ up # <<>>
    /\ Head(up).type \in types
    /\ up' = Tail(up)

Sends(p) == down' = Append(down, p)

BrokerConnack ==
    /\ ~session
    /\ Takes({"CONNECT"})
    /\ \E rc \in {0} \cup (IF Refusals THEN {NotAuthorized} ELSE {}) :
         /\ Sends(MkPacket("CONNACK", 0, rc, None))
         /\ session' = (rc = 0)
    /\ UNCHANGED <<link, stalled, subs, inflight, unsent, retries, acked, reuseVars>>

BrokerSuback ==
    /\ session
    /\ Takes({"SUBSCRIBE"})
    /\ \/ /\ Sends(MkPacket("SUBACK", Head(up).id, Head(up).val, None))
          /\ subs' = subs \cup {Head(up).body}
       \/ /\ Refusals
          /\ Sends(MkPacket("SUBACK", Head(up).id, Refused, None))
          /\ UNCHANGED subs
    /\ UNCHANGED <<link, stalled, session, inflight, unsent, retries, acked, reuseVars>>

BrokerUnsuback ==
    /\ session
    /\ Takes({"UNSUBSCRIBE"})
    /\ Sends(Ack("UNSUBACK", Head(up).id))
    /\ subs' = subs \ {Head(up).body}
    /\ UNCHANGED <<link, stalled, session, inflight, unsent, retries, acked, reuseVars>>

\* The answers to a PUBLISH, to its PUBREL and to PINGREQ.
Answer(p) ==
    CASE p.type = "PUBLISH" /\ p.val = 0 -> <<>>
      [] p.type = "PUBLISH" /\ p.val = 1 -> <<Ack("PUBACK", p.id)>>
      [] p.type = "PUBLISH" /\ p.val = 2 -> <<Ack("PUBREC", p.id)>>
      [] p.type = "PUBREL" -> <<Ack("PUBCOMP", p.id)>>
      [] p.type = "PINGREQ" -> <<Bare("PINGRESP")>>

BrokerAnswers ==
    /\ session
    /\ Takes({"PUBLISH", "PUBREL", "PINGREQ"})
    /\ down' = down \o Answer(Head(up))
    /\ UNCHANGED <<link, brokerVars>>

-----------------------------------------------------------------------------
(* Messages for the client.  The duplicates are equal to the first copy: the
   client does not look at the DUP flag. *)

Publish(id) == MkPacket("PUBLISH", id, QosOf[inflight'[id].msg], inflight'[id].msg)

BrokerPublishes(m) ==
    /\ link = "open" /\ session
    /\ m \in unsent
    /\ TopicOf[m] \in subs
    /\ unsent' = unsent \ {m}
    /\ \/ /\ QosOf[m] = 0
          /\ Sends(MkPacket("PUBLISH", 0, 0, m))
          /\ UNCHANGED <<inflight, reused>>
       \/ /\ QosOf[m] > 0
          /\ \E id \in BrokerIds :
               /\ inflight[id].phase = "free"
               /\ inflight' = [inflight EXCEPT ![id] = [msg |-> m, phase |-> "pub"]]
               /\ reused' = reused \cup ({id} \cap retried)
               /\ Sends(Publish(id))
    /\ UNCHANGED <<up, link, stalled, session, subs, retries, acked, retried>>

BrokerRetries(id) ==
    /\ link = "open" /\ session
    /\ retries < MaxRetries
    /\ retries' = retries + 1
    /\ retried' = retried \cup {id}
    /\ UNCHANGED inflight
    /\ \/ inflight[id].phase = "pub" /\ Sends(Publish(id))
       \/ inflight[id].phase = "rel" /\ Sends(Ack("PUBREL", id))
    /\ UNCHANGED <<up, link, stalled, session, subs, unsent, acked, reused>>

\* Does acknowledgement p fit the phase its packet id is in?
Expected(p) ==
    /\ p.id \in BrokerIds
    /\ LET f == inflight[p.id] IN
         \/ p.type = "PUBCOMP" /\ f.phase = "rel"
         \/ p.type = "PUBREC" /\ f.phase # "free" /\ QosOf[f.msg] = 2
         \/ p.type = "PUBACK" /\ f.phase # "free" /\ QosOf[f.msg] = 1

\* PUBACK and PUBCOMP free the packet id; PUBREC, also a repeated one, is
\* answered with PUBREL.  What is acknowledged under an id of reused may be the
\* message that had the id before.
BrokerAcked ==
    /\ session
    /\ Takes({"PUBACK", "PUBREC", "PUBCOMP"})
    /\ LET p == Head(up) IN
         \/ ~Expected(p) /\ UNCHANGED <<inflight, acked, down>>
         \/ /\ Expected(p)
            /\ inflight' = [inflight EXCEPT ![p.id] =
                              IF p.type = "PUBREC" THEN [@ EXCEPT !.phase = "rel"] ELSE Idle]
            /\ acked' = IF p.type = "PUBCOMP" \/ p.id \in reused THEN acked
                        ELSE acked \cup {inflight[p.id].msg}
            /\ down' = IF p.type = "PUBREC" THEN Append(down, Ack("PUBREL", p.id)) ELSE down
    /\ UNCHANGED <<link, stalled, session, subs, unsent, retries, reuseVars>>

-----------------------------------------------------------------------------
\* The connection ends: on DISCONNECT or a packet the broker does not accept,
\* or because it breaks.  Some of what was sent may still reach the client.
Close ==
    /\ link' = "closed"
    /\ session' = FALSE
    /\ up' = <<>>
    /\ \E n \in 0..Len(down) : down' = SubSeq(down, 1, n)
    /\ stalled' = FALSE
    /\ UNCHANGED <<subs, inflight, unsent, retries, acked, reuseVars>>

BrokerCloses ==
    /\ link = "open" /\ ~stalled
    /\ up # <<>>
    /\ \/ Head(up).type \in {"DISCONNECT", "garbage"}
       \/ session /\ Head(up).type = "CONNECT"
       \/ ~session /\ Head(up).type # "CONNECT"
    /\ Close

LinkBreaks ==
    /\ link = "open"
    /\ Close

\* The peer stops reading with the send buffer full, and may or may not go on.
PeerStalls ==
    /\ Stalls
    /\ link = "open" /\ ~stalled
    /\ stalled' = TRUE
    /\ UNCHANGED <<linkVars, sessionVars>>

PeerReads ==
    /\ stalled
    /\ stalled' = FALSE
    /\ UNCHANGED <<linkVars, sessionVars>>

BrokerInit ==
    /\ stalled = FALSE
    /\ session = FALSE
    /\ subs = {}
    /\ inflight = [i \in BrokerIds |-> Idle]
    /\ unsent = Msgs
    /\ retries = 0
    /\ acked = {}
    /\ retried = {}
    /\ reused = {}

BrokerNext ==
    \/ BrokerConnack \/ BrokerSuback \/ BrokerUnsuback \/ BrokerAnswers
    \/ BrokerAcked \/ BrokerCloses \/ LinkBreaks \/ PeerStalls \/ PeerReads
    \/ \E m \in Msgs : BrokerPublishes(m)
    \/ \E id \in BrokerIds : BrokerRetries(id)
=============================================================================
