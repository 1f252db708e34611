--------------------------------- MODULE Wire ---------------------------------
(***************************************************************************)
(* The library's pure functions on numbers and characters, one input at a  *)
(* time: lengths and topics (Codec), the frames of a text (Lzf).  The      *)
(* properties compare each with a reference definition.                    *)
(***************************************************************************)
EXTENDS Codec, Lzf

CONSTANTS
    Letters,            \* characters of topics, without "/", "+" and "#"
    RemainingLengths,   \* lengths of packets
    Filters,            \* topic filters, as sequences of levels
    TopicNames,         \* topic names, as sequences of levels
    Texts               \* texts to compress, with the compressor's answers

\* "assume topic filter and name is in correct format: # can only be at end;
\* + and # can only be next to separator."
Word == Seq(Letters) \ {<<>>}
IsFilter(f) ==
    \A i \in DOMAIN f : f[i] \in Word \/ f[i] = <<"+">> \/ (i = Len(f) /\ f[i] = <<"#">>)

\* A text of any length, and for each of its chunks what the compressor may
\* answer.
IsText(t) ==
    /\ Len(t.answers) = Len(Chunks[t.length])
    /\ \A i \in DOMAIN t.answers : t.answers[i] <= Room(Chunks[t.length][i])

\* MQTT's limit.
MaxRemainingLength == 268435455

ASSUME WireAssumption ==
    /\ BLOCKSIZE \in Nat \ {0}
    /\ Letters \cap {"/", "+", "#"} = {}
    /\ RemainingLengths \subseteq 0 .. MaxRemainingLength
    /\ \A f \in Filters : f \in Seq(Seq(Letters \cup {"+", "#"})) \ {<<>>} /\ IsFilter(f)
    /\ TopicNames \subseteq Seq(Word) \ {<<>>}
    /\ \A t \in Texts : t \in [length : Nat, answers : Seq(Nat)] /\ IsText(t)

\* The text of a filter or a name: its levels, with separators.
UpTo(levels) ==
    LET upTo[k \in 1 .. Len(levels)] ==
            IF k = 1 THEN levels[1] ELSE upTo[k - 1] \o <<"/">> \o levels[k]
    IN upTo
Joined(levels) == UpTo(levels)[Len(levels)]

LevelMatches(f, n) == f = <<"+">> \/ f = n

\* Level by level.  MQTT's own "x/#" also matches "x", which this does not.
Matches(filter, name) ==
    LET n == Len(filter) IN
    IF filter[n] = <<"#">>
    THEN n <= Len(name) /\ \A i \in 1..n - 1 : LevelMatches(filter[i], name[i])
    ELSE n = Len(name) /\ \A i \in 1..n : LevelMatches(filter[i], name[i])

----------------------------------------------------------------------------
VARIABLE input

None == [kind |-> "none"]

Takes(kind, values) ==
    /\ input = None
    /\ \E v \in values : input' = [kind |-> kind, value |-> v]

Init == input = None
Next ==
    \/ Takes("length", RemainingLengths)
    \/ Takes("topic", Filters)
    \/ Takes("compress", Texts)
Spec == Init /\ [][Next]_input

Is(kind) == input.kind = kind

\* A packet that passes the test of its serializer does not exceed the send
\* buffer, the test refuses one too early at most, and the length that is
\* written is the length that is read.
LengthIsEnough ==
    Is("length") =>
        /\ MQTTPacket_len(input.value) - BytesWritten(input.value) \in {0, 1}
        /\ MQTTPacket_decode(MQTTPacket_encode[input.value]) = input.value

\* The walk over two strings, with no look back, decides what a comparison
\* level by level decides.
TopicsMatch ==
    Is("topic") =>
        \A name \in TopicNames :
            isTopicMatched(Joined(input.value), Joined(name)) = Matches(input.value, name)

\* A text shorter than that has four chunks at most, with room for their headers.
SafeBlock == 12001

\* Whatever the compressor makes of the chunks, the frames add up to the text,
\* and none is empty.  LZFcompress_data knows the size of no array, and repeats
\* its outer loop for a text of exactly a block.  On a text shorter than a block
\* it ends, its chunks fit into buf1, and its frames and the byte behind them into
\* the caller's array, with a BLOCKSIZE up to SafeBlock.  Of a longer one that is
\* not said.
FramesFit ==
    Is("compress") =>
        LET length == input.value.length
            frames == LZFcompress_data(length, input.value.answers)
        IN /\ SumOf([i \in DOMAIN frames |-> frames[i].us]) = length
           /\ \A i \in DOMAIN frames : frames[i].body \in 1 .. frames[i].us
           /\ length < BLOCKSIZE =>
                /\ Ends(length)
                /\ \A i \in DOMAIN frames : MAX_HDR_SIZE + frames[i].us <= BufferSize
                /\ BLOCKSIZE <= SafeBlock => OutputPtr(frames) + 1 <= BufferSize
=============================================================================
