--------------------------------- MODULE Lzf ---------------------------------
(***************************************************************************)
(* The frames of a compressed message (LZFcompress_data in                 *)
(* Aliot/LZFcompress.c), as lengths.  The compressor is given a chunk and  *)
(* room for less than the chunk; 0 is its answer when that does not do.    *)
(***************************************************************************)
EXTENDS Integers, Sequences

\* LZFcompress.h asks implementers to choose it; there it is 8191.
CONSTANT BLOCKSIZE

MAX_HDR_SIZE == 7
TYPE0_HDR_SIZE == 5
TYPE1_HDR_SIZE == 7

\* The size of buf1, and of the array send_data passes as outputBuffer.
BufferSize == BLOCKSIZE + MAX_HDR_SIZE + 16

\* Slip: chunks for a smaller controller.
SmallChunk == 2000
ChunkSize == 3000

\* The inner loop: us of every turn.
Chunks[length \in Nat] ==
    IF length = 0 THEN <<>>
    ELSE IF length > ChunkSize THEN <<ChunkSize>> \o Chunks[length - ChunkSize]
    ELSE <<length>>

\* The room for the compressed chunk.
Room(us) == IF us > 4 THEN us - 4 ELSE us

\* The outer loop ends unless exactly a block has been read.
Ends(length) == length # BLOCKSIZE

\* A frame: what its header says, cs being the compressor's answer.
Frame(us, cs) ==
    IF cs = 0 THEN [type |-> 0, us |-> us, body |-> us, len |-> us + TYPE0_HDR_SIZE]
    ELSE [type |-> 1, us |-> us, body |-> cs, len |-> cs + TYPE1_HDR_SIZE]

LZFcompress_data(length, answers) ==
    LET chunks == Chunks[length]
    IN [i \in DOMAIN chunks |-> Frame(chunks[i], answers[i])]

\* The sums of the first numbers, and of all.
Sums(numbers) ==
    LET upTo[i \in 0 .. Len(numbers)] == IF i = 0 THEN 0 ELSE upTo[i - 1] + numbers[i]
    IN upTo
SumOf(numbers) == Sums(numbers)[Len(numbers)]

OutputPtr(frames) == SumOf([i \in DOMAIN frames |-> frames[i].len])
=============================================================================
