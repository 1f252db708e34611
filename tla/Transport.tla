------------------------------ MODULE Transport ------------------------------
(***************************************************************************)
(* The bytes below MqttClient: sendPacket over linux_write, and readPacket *)
(* over decodePacket and linux_read.  A write takes any number of the      *)
(* bytes it is given, a recv() returns any number of those it is asked     *)
(* for, and both may fail or run out of time at any moment.                *)
(*                                                                         *)
(* A byte is a number below 2*Base (Base is 128 in the code).  The header  *)
(* byte stands for the packet's type.  The client is single threaded:      *)
(* sendPacket and readPacket run one after the other.                      *)
(***************************************************************************)
EXTENDS Integers, Sequences

CONSTANTS
    Base,               \* 128
    MaxLengthBytes,     \* MAX_NO_OF_REMAINING_LENGTH_BYTES
    Types,              \* header bytes
    Bodies,             \* what follows the remaining length
    Frames,             \* packets the client serialises into buf
    Junk,               \* a byte of the write buffer behind the packet
    MaxSends,           \* bound on the calls of sendPacket
    MaxPackets          \* bound on the packets the peer sends

Byte == 0..(2 * Base - 1)

ASSUME TransportAssumption ==
    /\ Base \in Nat \ {0, 1}
    /\ MaxLengthBytes \in Nat \ {0}
    /\ Types \subseteq Byte
    /\ Bodies \subseteq Seq(Byte)
    /\ Frames \subseteq Seq(Byte) \ {<<>>}
    /\ Junk \notin Byte
    /\ MaxSends \in Nat /\ MaxPackets \in Nat

Packet == [type : Types, body : Bodies]

\* MQTTPacket_encode: digits of 7 bits, the lowest first, all but the last
\* with the top bit set.
encode[n \in Nat] ==
    IF n < Base THEN <<n>> ELSE <<Base + (n % Base)>> \o encode[n \div Base]

\* MQTT 3.1, 2.1: a remaining length has at most as many bytes as decodePacket
\* reads.
ASSUME LengthsFit == \A b \in Bodies : Len(encode[Len(b)]) <= MaxLengthBytes

FrameOf(p) == <<p.type>> \o encode[Len(p.body)] \o p.body

VARIABLES
    frame, written,     \* the packet in buf; what sendPacket has written of buf
    sender,             \* "sending", or what sendPacket returned last
    sends,              \* calls of sendPacket so far (bounded)
    stream,             \* bytes from the peer that are still to be read
    reader,             \* readPacket's progress
    published,          \* history: the packets the peer sent
    received,           \* history: the packets readPacket returned
    torn                \* history: did a read time out inside a packet?

sendVars == <<frame, written, sender, sends>>
readVars == <<stream, reader, published, received, torn>>
vars == <<sendVars, readVars>>

-----------------------------------------------------------------------------
(* sendPacket *)

\* The byte at c->buf[i - 1].
BufByte(i) == IF i <= Len(frame) THEN frame[i] ELSE Junk

sendPacket(f) ==
    /\ sender # "sending" /\ reader.phase = "header"
    /\ sends < MaxSends
    /\ sends' = sends + 1
    /\ frame' = f
    /\ written' = <<>>
    /\ sender' = "sending"
    /\ UNCHANGED readVars

\* One turn of the loop: write() is given the length of the whole packet, also
\* when a part of it has been written, and takes k bytes.
linux_write(k) ==
    /\ sender = "sending"
    /\ Len(written) < Len(frame)
    /\ written' = written \o [i \in 1..k |-> BufByte(Len(written) + i)]
    /\ UNCHANGED <<frame, sender, sends, readVars>>

\* Slip: too much is as good as enough.
AllWrittenOrMore == Len(written) >= Len(frame)
AllWritten == Len(written) = Len(frame)

\* The loop ends: all is written, the timer has expired, or write() failed.
SendReturns ==
    /\ sender = "sending"
    /\ sender' = IF AllWritten THEN "SUCCESS" ELSE "FAILURE"
    /\ UNCHANGED <<frame, written, sends, readVars>>

-----------------------------------------------------------------------------
(* readPacket *)

Reader ==
    [phase : {"header", "length", "body"}, type : Byte, value : Nat,
     multiplier : Nat, len : Nat, body : Seq(Byte)]

\* Before, and between, calls of readPacket.  A call that times out in this
\* phase has read nothing and changes nothing.
AtHeader ==
    [phase |-> "header", type |-> 0, value |-> 0, multiplier |-> 1, len |-> 0,
     body |-> <<>>]

PeerSends(p) ==
    /\ Len(published) < MaxPackets
    /\ published' = Append(published, p)
    /\ stream' = stream \o FrameOf(p)
    /\ UNCHANGED <<sendVars, reader, received, torn>>

\* recv() returns the next k bytes.
Recv(k) ==
    /\ sender # "sending"
    /\ k <= Len(stream)
    /\ stream' = SubSeq(stream, k + 1, Len(stream))

ReadHeader ==
    /\ reader.phase = "header"
    /\ Recv(1)
    /\ reader' = [AtHeader EXCEPT !.phase = "length", !.type = Head(stream)]
    /\ UNCHANGED <<sendVars, published, received, torn>>

PacketReturned(r) ==
    /\ received' = Append(received, [type |-> r.type, body |-> r.body])
    /\ reader' = AtHeader

\* (For every packet this would be a slip: a body may be empty.)
AwaitBody(r) ==
    /\ reader' = [r EXCEPT !.phase = "body"]
    /\ UNCHANGED received

\* decodePacket has come back; its result is not looked at, only the value it
\* has got so far.
LengthKnown(r) ==
    \/ r.value = 0 /\ PacketReturned(r)
    \/ r.value > 0 /\ AwaitBody(r)

\* Slip: every digit counts the same.
SameMultiplier == reader.multiplier
NextMultiplier == reader.multiplier * Base

\* One turn of decodePacket's loop.
ReadLength ==
    /\ reader.phase = "length"
    /\ Recv(1)
    /\ LET b == Head(stream)
           r == [reader EXCEPT !.value = @ + (b % Base) * reader.multiplier,
                               !.multiplier = NextMultiplier, !.len = @ + 1]
       IN \/ /\ b >= Base /\ r.len < MaxLengthBytes
             /\ reader' = r
             /\ UNCHANGED received
          \/ (b < Base \/ r.len = MaxLengthBytes) /\ LengthKnown(r)
    /\ UNCHANGED <<sendVars, published, torn>>

WholeBody(r) == Len(r.body) = r.value

\* Slip: every recv() asks for the whole body.
AllOfIt == reader.value
Missing == reader.value - Len(reader.body)

\* linux_read asks for what is missing until it has all of it.
ReadBody(k) ==
    /\ reader.phase = "body"
    /\ k <= Missing
    /\ Recv(k)
    /\ LET r == [reader EXCEPT !.body = @ \o SubSeq(stream, 1, k)] IN
         \/ WholeBody(r) /\ PacketReturned(r)
         \/ ~WholeBody(r) /\ reader' = r /\ UNCHANGED received
    /\ UNCHANGED <<sendVars, published, torn>>

\* recv() gives up in decodePacket: readPacket goes on with the digits read.
LengthTimesOut ==
    /\ reader.phase = "length" /\ sender # "sending"
    /\ torn' = TRUE
    /\ LengthKnown(reader)
    /\ UNCHANGED <<sendVars, stream, published>>

\* It gives up in the body: readPacket fails, and what it has read is gone.
BodyTimesOut ==
    /\ reader.phase = "body" /\ sender # "sending"
    /\ torn' = TRUE
    /\ reader' = AtHeader
    /\ UNCHANGED <<sendVars, stream, published, received>>

-----------------------------------------------------------------------------
Init ==
    /\ frame = <<>> /\ written = <<>> /\ sender = "SUCCESS" /\ sends = 0
    /\ stream = <<>> /\ reader = AtHeader
    /\ published = <<>> /\ received = <<>> /\ torn = FALSE

Sends == SendReturns \/ \E k \in 1..Len(frame) : linux_write(k)
Reads == ReadHeader \/ ReadLength \/ \E k \in 1..Len(stream) : ReadBody(k)

Next ==
    \/ \E f \in Frames : sendPacket(f)
    \/ \E p \in Packet : PeerSends(p)
    \/ Sends \/ Reads \/ LengthTimesOut \/ BodyTimesOut

Spec == Init /\ [][Next]_vars

\* The application goes on calling MQTTYield.  Nothing says that sendPacket
\* returns: a write() blocks while the peer does not read, for linux_write sets
\* SO_RCVTIMEO where SO_SNDTIMEO is meant.
FairSpec == Spec /\ WF_vars(Reads)

-----------------------------------------------------------------------------
SendTypeOK ==
    /\ frame \in Seq(Byte)
    /\ written \in Seq(Byte \cup {Junk})
    /\ sender \in {"sending", "SUCCESS", "FAILURE"}
    /\ sends \in Nat

TypeOK ==
    /\ SendTypeOK
    /\ stream \in Seq(Byte)
    /\ reader \in Reader
    /\ Len(reader.body) <= reader.value     \* no byte behind its place in readbuf
    /\ published \in Seq(Packet)
    /\ received \in Seq([type : Byte, body : Seq(Byte)])
    /\ torn \in BOOLEAN

Begins(s, t) == Len(s) < Len(t) /\ \A i \in 1..Len(s) : s[i] = t[i]

\* sendPacket returns SUCCESS only if it has written the packet and nothing
\* else; when it fails, it has written nothing, a part, or the packet and then
\* at most as many bytes of what lies behind it.  (The outcomes of MqttClient.)
SendOutcome ==
    /\ sender = "SUCCESS" => written = frame
    /\ sender = "FAILURE" =>
         \/ Begins(written, frame)
         \/ Begins(frame, written) /\ Len(written) < 2 * Len(frame)

Pipe == INSTANCE PacketPipe WITH put <- published, taken <- received

\* Until a read has timed out inside a packet, readPacket returns the packets
\* the peer sent, whole, in their order and each once, however their bytes
\* come: every step is a step of the pipe or leaves it alone.
InOrder == Pipe!Init /\ [][torn' \/ Pipe!Next]_<<published, received>>

\* Every packet that was sent is returned, also one without a body, unless a
\* read has timed out inside a packet or a send never returns.
AllReceived ==
    \/ <>[](sender = "sending")
    \/ received # published ~> received = published \/ torn
=============================================================================
