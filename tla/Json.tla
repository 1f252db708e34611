-------------------------------- MODULE Json --------------------------------
(***************************************************************************)
(* How the gateway reads what the platform sends (Aliot/aliotutil.c): an   *)
(* acknowledgement is read for its context and its code, an instruction    *)
(* for its fields and for the text that its hash was computed of.  Both    *)
(* walk over the tokens of jsmn, a pre-order of the JSON, with one number, *)
(* "state", that says which value comes next.                              *)
(*                                                                         *)
(* A text is a sequence of names, primitives and punctuation; a name       *)
(* stands for a string with its quotes.                                    *)
(***************************************************************************)
EXTENDS Naturals, Sequences, SequencesExt

\* JSON: a leaf has a text, an object's members are keys and values in
\* turn.
Name(text) == [type |-> "STRING", text |-> text, members |-> <<>>]
Primitive(text) == [type |-> "PRIMITIVE", text |-> text, members |-> <<>>]
Object(members) == [type |-> "OBJECT", text |-> "", members |-> members]
Array(members) == [type |-> "ARRAY", text |-> "", members |-> members]

\* jsmn_parse on a well-formed text: a token for each part of the JSON, in the
\* order in which they begin.  An object's size is the number of its keys.
Token(json) ==
    [type |-> json.type, text |-> json.text,
     size |-> IF json.type = "OBJECT" THEN Len(json.members) \div 2 ELSE Len(json.members)]

RECURSIVE Tokens(_)
Tokens(json) ==
    FoldLeft(LAMBDA toks, member : toks \o Tokens(member), <<Token(json)>>, json.members)

(* What a text of JSON is, for reference. *)

RECURSIVE TextOf(_)
TextOf(json) ==
    LET Members == [i \in DOMAIN json.members |-> TextOf(json.members[i])]
        Separated(mark) ==
            FoldLeft(LAMBDA text, i : text \o (IF i = 1 THEN <<>> ELSE <<mark[i % 2]>>)
                                           \o Members[i],
                     <<>>, [i \in DOMAIN json.members |-> i])
    IN CASE json.type = "OBJECT" -> <<"{">> \o Separated([i \in {0, 1} |-> IF i = 0 THEN ":" ELSE ","]) \o <<"}">>
         [] json.type = "ARRAY" -> <<"[">> \o Separated([i \in {0, 1} |-> ","]) \o <<"]">>
         [] OTHER -> <<json.text>>

\* Members are pairs of a key and a value.
Message(pairs) == Object(FlattenSeq([i \in DOMAIN pairs |-> <<Name(pairs[i][1]), pairs[i][2]>>]))

----------------------------------------------------------------------------
(***************************************************************************)
(* ack_handler.  A result r says how many tokens were used and what state, *)
(* context and http_code have become.                                      *)
(***************************************************************************)

\* atoi on the codes of the platform.
atoi(text) ==
    CASE text = "200" -> 200 [] text = "406" -> 406 [] OTHER -> 0

Globals(context, code) == [used |-> 0, state |-> 0, context |-> context, http_code |-> code]

\* What a name says of the value behind it.
AckStateAfter(text) == CASE text = "context" -> 1 [] text = "http_code" -> 2 [] OTHER -> 0

\* Slip: the state is not reset after a value.
AckStringSticky(text, r) ==
    CASE r.state = 1 -> [r EXCEPT !.context = text]
      [] r.state = 2 -> [r EXCEPT !.http_code = atoi(text)]
      [] OTHER -> [r EXCEPT !.state = AckStateAfter(text)]
AckString(text, r) ==
    CASE r.state = 1 -> [r EXCEPT !.context = text, !.state = 0]
      [] r.state = 2 -> [r EXCEPT !.http_code = atoi(text), !.state = 0]
      [] OTHER -> [r EXCEPT !.state = AckStateAfter(text)]

AckPrimitive(text, r) ==
    [r EXCEPT !.state = 0, !.http_code = IF r.state = 2 THEN atoi(text) ELSE @]

\* The tokens that are still to be walked start behind r.used.
RECURSIVE ack_handler(_, _)
ack_handler(toks, r) ==
    LET t == toks[r.used + 1]
        calls == IF t.type = "OBJECT" THEN 2 * t.size ELSE t.size
        next == [r EXCEPT !.used = @ + 1]
    IN IF r.used = Len(toks) THEN r
       ELSE CASE t.type = "PRIMITIVE" -> AckPrimitive(t.text, next)
              [] t.type = "STRING" -> AckString(t.text, next)
              [] OTHER -> FoldLeft(LAMBDA acc, call : ack_handler(toks, acc), next,
                                   [call \in 1 .. calls |-> call])

parse_http_ack(json, context, code) == ack_handler(Tokens(json), Globals(context, code))

----------------------------------------------------------------------------
(***************************************************************************)
(* json_handler.  A result also has the text that is built ("current") and *)
(* the fields that were found.                                             *)
(***************************************************************************)

Unread == [used |-> 0, state |-> 0, text |-> <<>>, hash |-> "", alert_key |-> "",
           thing_key |-> "", instruction |-> <<>>]

StateAfter(text) ==
    CASE text = "hash" -> 1 [] text = "access_key" -> 2 [] text = "alert_key" -> 3
      [] text = "thing_key" -> 4 [] text = "instruction" -> 5 [] OTHER -> 0

\* The name and the value of hash and access_key are left out.
JsonString(text, r) ==
    CASE r.state = 1 -> [r EXCEPT !.hash = text, !.state = 0]
      [] r.state = 2 -> [r EXCEPT !.state = 0]
      [] OTHER ->
            [r EXCEPT !.alert_key = IF r.state = 3 THEN text ELSE @,
                      !.thing_key = IF r.state = 4 THEN text ELSE @,
                      !.state = StateAfter(text),
                      !.text = IF StateAfter(text) \in {1, 2} THEN @ ELSE Append(@, text)]

Skipped(r) == r.state \in {1, 2}
Put(r, mark) == [r EXCEPT !.text = Append(@, mark)]

\* new_object has been filled behind what there was; the last character,
\* a comma, is replaced.
Open(r, mark) == Put([r EXCEPT !.text = <<>>], mark)
Close(r, mark) == [r EXCEPT !.text = Append(Front(@), mark)]

\* Slip: the marks of a left out member are put.
PutAlways(r, skipped, mark) == Put(r, mark)
PutUnless(r, skipped, mark) == IF skipped THEN r ELSE Put(r, mark)

RECURSIVE json_handler(_, _)
json_handler(toks, r) ==
    LET t == toks[r.used + 1]
        next == [r EXCEPT !.used = @ + 1]
        Member(acc) ==
            LET key == json_handler(toks, acc)
                value == json_handler(toks, PutUnless(key, Skipped(key), ":"))
            IN PutUnless(value, Skipped(key), ",")
        Element(acc) == Put(json_handler(toks, acc), ",")
        walked == Close(FoldLeft(LAMBDA acc, i : IF t.type = "OBJECT" THEN Member(acc)
                                                 ELSE Element(acc),
                                 Open(next, IF t.type = "OBJECT" THEN "{" ELSE "["),
                                 [i \in 1 .. t.size |-> i]),
                        IF t.type = "OBJECT" THEN "}" ELSE "]")
    IN IF r.used = Len(toks) THEN r
       ELSE CASE t.type = "PRIMITIVE" -> Put(next, t.text)
              [] t.type = "STRING" -> JsonString(t.text, next)
              [] OTHER ->
                    [walked EXCEPT !.text = r.text \o walked.text,
                                   !.instruction = IF r.state = 5 THEN walked.text ELSE @]

parse_instruction_json(json) == json_handler(Tokens(json), Unread)
=============================================================================
