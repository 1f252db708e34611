------------------------------- MODULE MqttLink -------------------------------
(***************************************************************************)
(* The MQTT control packets and the TCP connection that carries them       *)
(* between the client and the broker: a FIFO byte stream in each           *)
(* direction, seen here as a sequence of packets.  Strings and payloads    *)
(* are not modelled: what the broker publishes is a member of Msgs, of     *)
(* which only the topic and the QoS matter to the client.                  *)
(***************************************************************************)
EXTENDS Integers, Sequences

CONSTANTS
    MaxPacketId,    \* MAX_PACKET_ID
    Topics,         \* topic filters (no wildcard: a filter matches itself)
    Msgs,           \* application messages the broker may publish
    TopicOf,        \* the topic of a message
    QosOf,          \* the QoS a message is published with
    None            \* no topic, no message

ASSUME LinkAssumption ==
    /\ MaxPacketId \in Nat \ {0}
    /\ TopicOf \in [Msgs -> Topics]
    /\ QosOf \in [Msgs -> 0..2]
    /\ None \notin Topics \cup Msgs

VARIABLES
    up,             \* written by the client, not yet read by the broker
    down,           \* written by the broker, not yet read by the client
    link,           \* "open"; "closed" by the peer or broken; "none" yet
    stalled         \* the peer does not read, and a write() blocks

linkVars == <<up, down, link>>

-----------------------------------------------------------------------------
PacketId == 1..MaxPacketId

Refused == 128          \* SUBACK return code 0x80
NotAuthorized == 5      \* a CONNACK return code other than 0

AckTypes == {"CONNACK", "PUBACK", "SUBACK", "UNSUBACK", "PUBCOMP"}

PacketType == AckTypes \cup
    {"CONNECT", "PUBLISH", "PUBREC", "PUBREL", "SUBSCRIBE", "UNSUBSCRIBE",
     "PINGREQ", "PINGRESP", "DISCONNECT", "garbage"}

\* "val" is the QoS of a PUBLISH or SUBSCRIBE, the return code of a CONNACK
\* or SUBACK; "body" the topic of a (un)subscription or the message carried.
Packet ==
    [type : PacketType, id : 0..MaxPacketId,
     val : 0..2 \cup {NotAuthorized, Refused}, body : Topics \cup Msgs \cup {None}]

\* What each end may put on the wire.
UpPacket ==
    {p \in Packet : /\ p.type = "SUBSCRIBE" => p.body \in Topics
                    /\ p.type = "PUBLISH" => p.val \in 0..2}
DownPacket == {p \in Packet : p.type = "PUBLISH" => p.body \in Msgs}

MkPacket(type, id, val, body) ==
    [type |-> type, id |-> id, val |-> val, body |-> body]

Ack(type, id) == MkPacket(type, id, 0, None)
Bare(type) == Ack(type, 0)

\* What the broker's parser sees after a frame that was cut short, or in the
\* bytes that follow a frame that was written twice.
Garbage == Bare("garbage")

LinkTypeOK ==
    /\ up \in Seq(UpPacket)
    /\ down \in Seq(DownPacket)
    /\ link \in {"none", "open", "closed"}

LinkInit ==
    /\ up = <<>>
    /\ down = <<>>
    /\ link = "none"
=============================================================================
