------------------------------ MODULE MCFormats ------------------------------
(* Lengths and texts around every boundary; topics of up to three levels with
   words of which one begins another. *)
EXTENDS Formats

Near(numbers) == UNION {{n - 2, n - 1, n, n + 1, n + 2} : n \in numbers}

\* Around every number of digits; MQTT's limit is 2^28 - 1.
MCRemainingLengths == 0..2 \cup Near({128, 16384, 2097152, 268435453})

MCLetters == {"a", "b"}
Words == {<<"a">>, <<"b">>, <<"a", "b">>, <<"b", "a">>}
MCFilters ==
    LET Level == Words \cup {<<"+">>}
    IN UNION {{Append(levels, last) : levels \in [1..n -> Level], last \in Level \cup {<<"#">>}} :
                n \in 0..2}
MCTopicNames == UNION {[1..n -> Words] : n \in 1..3}

\* send_data compresses what is longer than 1024, also what is longer than a
\* block.
TextLengths == Near({1027, 3000, 3004, 6000, 6004, BLOCKSIZE, 9000, 9004})
Answer(us, how) == CASE how = "no" -> 0 [] how = "best" -> 1 [] how = "worst" -> Room(us)
MCTexts ==
    UNION {LET chunks == Chunks[n]
           IN {[length |-> n, answers |-> [i \in DOMAIN chunks |-> Answer(chunks[i], how[i])]] :
                 how \in [DOMAIN chunks -> {"no", "best", "worst"}]} :
             n \in TextLengths}
=============================================================================
