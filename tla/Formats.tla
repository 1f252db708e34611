------------------------------- MODULE Formats -------------------------------
(***************************************************************************)
(* The library's pure functions on JSON, beside those of Wire, one input   *)
(* at a time: what is read of the platform's messages (Json), the texts    *)
(* that are sent (JsonBuild).  The properties compare each with a          *)
(* reference definition.                                                   *)
(***************************************************************************)
EXTENDS Wire, Json, JsonBuild, TLC

----------------------------------------------------------------------------
(* Messages of the platform: pairs of a key and a value, in any order. *)

Hello == Name("hello")
Values == {Hello, Primitive("0"), Array(<<Primitive("0"), Hello>>),
           Message(<<<<"a", Hello>>, <<"b", Primitive("0")>>>>)}

\* With and without another member, whatever it is.
Acks ==
    LET Required == {<<"context", Name("h")>>, <<"http_code", Primitive("200")>>}
    IN UNION {SetToSeqs(Required \cup more) :
                more \in {{}} \cup {{<<"message", v>>} : v \in Values}}

\* Instructions, as objects and as arrays, with the access key or with a
\* member that is not known.  The platform's own keys are strings.
Orders == {Array(<<Hello>>), Message(<<<<"a", Primitive("0")>>>>),
           Message(<<<<"a", Array(<<Primitive("0"), Array(<<Hello>>)>>)>>,
                     <<"b", Message(<<<<"c", Hello>>>>)>>>>)}

Instructions ==
    UNION {SetToSeqs({<<"hash", Name("h")>>, <<"alert_key", Name("alert")>>,
                      <<"thing_key", Name("thing")>>, <<"instruction", order>>, other}) :
             order \in Orders,
             other \in {<<"access_key", Name("k")>>, <<"timestamp", Primitive("0")>>}}

Signed(pairs) == SelectSeq(pairs, LAMBDA p : p[1] \notin {"hash", "access_key"})

----------------------------------------------------------------------------
(* Requests, as the members their text should have. *)

Thing == [key |-> "thing", name |-> "name"]
Data == Message(<<<<"v", Primitive("0")>>>>)
Now == <<"timestamp", Primitive("now")>>
ThingKey == <<"thing_key", Name("thing")>>

\* The pair, if it is wanted.
When(wanted, key, value) == IF wanted THEN <<<<key, value>>>> ELSE <<>>
TextWhen(wanted, value) == IF wanted THEN TextOf(value) ELSE NULL

DataMembers(data, waypoint) ==
    <<Now, ThingKey>> \o When(data, "data", Data) \o When(waypoint, "waypoint", Array(<<Hello>>))

\* A request's text before it is signed, and its members.
Request(text, members) == [text |-> text, members |-> members]

Registration(handler, description) ==
    Request(get_thing_register_json([handler |-> handler, description |-> description] @@ Thing),
            <<Now, <<"name", Name("name")>>>>
            \o When(description # "", "description", Name(description))
            \o <<ThingKey, <<"bi_directional", Primitive(IF handler THEN "1" ELSE "0")>>>>)

Heartbeat == Request(get_thing_heartbeat_json(Thing), <<ThingKey, Now>>)

Event(data, waypoint) ==
    Request(get_thing_data_json_ts(Thing, TextWhen(data, Data),
                                   TextWhen(waypoint, Array(<<Hello>>))),
            DataMembers(data, waypoint))

Bulk(events) ==
    Request(get_thing_bulk_data_json([i \in DOMAIN events |-> events[i].text]),
            <<<<"events", Array([i \in DOMAIN events |-> Message(events[i].members)])>>>>)

Alert(feedback, data) ==
    Request(get_alert_json(IF feedback THEN "" ELSE "thing", IF feedback THEN "alert" ELSE "",
                           TextWhen(data, Data)),
            <<<<"alert", Message(<<Now>>
                \o When(~feedback, "thing_key", Name("thing"))
                \o When(feedback, "alert_key", Name("alert"))
                \o <<<<"alert_type", Primitive("0")>>, <<"message", Name("text")>>>>
                \o When(data, "data", Data))>>>>)

\* "Both cannot be NULL": an event has data or a waypoint.
Events == {Event(data, waypoint) : <<data, waypoint>> \in (BOOLEAN \X BOOLEAN) \ {<<FALSE, FALSE>>}}

Requests ==
    {Registration(handler, text) : handler \in BOOLEAN, text \in {"", "text"}}
    \cup {Heartbeat} \cup Events
    \cup {Bulk(events) : events \in UNION {[1..n -> Events] : n \in 0..3}}
    \cup {Alert(feedback, data) : feedback, data \in BOOLEAN}

SignatureMembers ==
    <<<<"hash", Name("h")>>, <<"access_key", Name("k")>>,
      <<"aliot_protocol_version", Primitive("2")>>>>

----------------------------------------------------------------------------
JsonNext ==
    \/ Takes("ack", Acks)
    \/ Takes("instruction", Instructions)
    \/ Takes("request", Requests)

\* Wire's inputs and these.
FormatsSpec == Init /\ [][Next \/ JsonNext]_input

\* An acknowledgement gives both globals their values, in whatever order its
\* members come and whatever else it has: nothing remains of the one before.
AckRead ==
    Is("ack") =>
        LET r == parse_http_ack(Message(input.value), "before", 406) IN
        r.context = "h" /\ r.http_code = 200

\* An instruction's fields are found, and the text its hash is compared with
\* is the message without hash and access_key, in whatever order its members
\* come.
InstructionRead ==
    Is("instruction") =>
        LET r == parse_instruction_json(Message(input.value)) IN
        /\ r.hash = "h" /\ r.alert_key = "alert" /\ r.thing_key = "thing"
        /\ r.text = TextOf(Message(Signed(input.value)))
        /\ \A p \in ToSet(input.value) : p[1] = "instruction" => r.instruction = TextOf(p[2])

\* Whichever optional parts a request has, its text is JSON: commas stand
\* between members and only there, and signing it appends to its members.
RequestIsJson ==
    Is("request") =>
        /\ input.value.text = TextOf(Message(input.value.members))
        /\ Sign(input.value.text) = TextOf(Message(input.value.members \o SignatureMembers))
=============================================================================
