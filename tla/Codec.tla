-------------------------------- MODULE Codec --------------------------------
(***************************************************************************)
(* Two pure functions the MQTT client rests on: the length of a packet     *)
(* (MQTTPacket.c), which decides whether it fits into the send buffer, and *)
(* the comparison of a topic with a filter (MQTTClient.c).                 *)
(***************************************************************************)
EXTENDS Integers, Sequences, FiniteSetsExt

----------------------------------------------------------------------------
(* Lengths *)

\* Digits of 7 bits, the lowest first, all but the last with the top bit set.
MQTTPacket_encode[length \in Nat] ==
    IF length < 128 THEN <<length>>
    ELSE <<128 + (length % 128)>> \o MQTTPacket_encode[length \div 128]

\* MQTTPacket_decode reads four bytes at most; multiplier at each of them.
MaxLengthBytes == 4
Multiplier == <<1, 128, 16384, 2097152>>

\* What its loop adds to the value from the i-th byte on.
Added(bytes) ==
    LET from[i \in 1 .. MaxLengthBytes + 1] ==
            IF i > MaxLengthBytes \/ i > Len(bytes) THEN 0
            ELSE (bytes[i] % 128) * Multiplier[i]
                 + (IF bytes[i] < 128 THEN 0 ELSE from[i + 1])
    IN from
MQTTPacket_decode(bytes) == Added(bytes)[1]

\* The bounds are those of the remaining length alone, but the header byte has
\* been added.
LengthField(len) ==
    IF len < 128 THEN 1 ELSE IF len < 16384 THEN 2 ELSE IF len < 2097151 THEN 3 ELSE 4

\* Slip: the header byte is forgotten.
LenWithoutHeader(rem_len) == rem_len + LengthField(rem_len)
MQTTPacket_len(rem_len) == rem_len + 1 + LengthField(rem_len + 1)

\* What the serializers write: header, length, and the rest.
BytesWritten(rem_len) == 1 + Len(MQTTPacket_encode[rem_len]) + rem_len

----------------------------------------------------------------------------
(* Topics: sequences of characters *)

\* The last character of the level that position n of name is in.
LevelEnd(name, n) == Max({e \in n .. Len(name) : \A i \in n + 1 .. e : name[i] # "/"})

Fits(f, n) == (n = "/" => f = "/") /\ (f \in {"+", "#"} \/ f = n)

\* Slip: "+" stands for one character.
SkipOne(name, f, n) == IF f = "#" THEN Len(name) ELSE n
Skip(name, f, n) ==
    CASE f = "+" -> LevelEnd(name, n)
      [] f = "#" -> Len(name)
      [] OTHER -> n

\* isTopicMatched's loop: where curn is when curf has come to position f; 0
\* when the loop has ended before.
Curn(filter, name) ==
    LET at[f \in 1 .. Len(filter) + 1] ==
            IF f = 1 THEN 1
            ELSE LET n == at[f - 1] IN
                 IF n \in 1 .. Len(name) /\ Fits(filter[f - 1], name[n])
                 THEN Skip(name, filter[f - 1], n) + 1
                 ELSE 0
    IN at

isTopicMatched(filter, name) == Curn(filter, name)[Len(filter) + 1] = Len(name) + 1
=============================================================================
