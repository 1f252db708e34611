------------------------------ MODULE JsonBuild ------------------------------
(***************************************************************************)
(* The texts the gateways send (Aliot/aliotutil.c over jsonutils.c), built *)
(* piece by piece at the end of a buffer, and the signature that           *)
(* encode_and_send_data puts into the finished text.  A text is a sequence *)
(* of names, primitives and punctuation, as in Json.                       *)
(***************************************************************************)
EXTENDS Naturals, Sequences, SequencesExt

startJSON == <<"{">>
endJSON(json) == Append(json, "}")

\* A member whose value is one name or number, or a text.
put(json, key, value) == json \o <<key, ":", value>>
putAndComma(json, key, value) == Append(put(json, key, value), ",")
putText(json, key, text) == json \o <<key, ":">> \o text

\* An argument that is NULL.
NULL == <<>>

\* A thing may have no description ("").
get_thing_register_json(thing) ==
    LET timestamp == putAndComma(startJSON, "timestamp", "now")
        name == putAndComma(timestamp, "name", thing.name)
        description == IF thing.description = "" THEN name
                       ELSE putAndComma(name, "description", thing.description)
        key == putAndComma(description, "thing_key", thing.key)
    IN endJSON(put(key, "bi_directional", IF thing.handler THEN "1" ELSE "0"))

get_thing_heartbeat_json(thing) ==
    endJSON(put(putAndComma(startJSON, "thing_key", thing.key), "timestamp", "now"))

\* Slip: the second member has its comma whatever comes before it.
WaypointAlways(json, value, waypoint) ==
    IF waypoint = NULL THEN json ELSE putText(Append(json, ","), "waypoint", waypoint)
putWaypoint(json, value, waypoint) ==
    IF waypoint = NULL THEN json
    ELSE putText(IF value = NULL THEN json ELSE Append(json, ","), "waypoint", waypoint)

get_thing_data_json_ts(thing, value, waypoint) ==
    LET key == putAndComma(putAndComma(startJSON, "timestamp", "now"), "thing_key", thing.key)
        data == IF value = NULL THEN key ELSE putText(key, "data", value)
    IN endJSON(putWaypoint(data, value, waypoint))

\* packets: the texts of the packets, one behind the other in the buffer.
get_thing_bulk_data_json(packets) ==
    LET Add(json, i) == (IF i = 1 THEN json ELSE Append(json, ",")) \o packets[i]
        events == FoldLeft(Add, startJSON \o <<"events", ":", "[">>,
                           [i \in DOMAIN packets |-> i])
    IN endJSON(Append(events, "]"))

\* The alert of a thing has its key, the answer to an instruction the
\* instruction's; the key that is not given is "".
get_alert_json(thing_key, alert_key, data) ==
    LET start == putAndComma(startJSON \o <<"alert", ":", "{">>, "timestamp", "now")
        thing == IF thing_key = "" THEN start ELSE putAndComma(start, "thing_key", thing_key)
        alert == IF alert_key = "" THEN thing ELSE putAndComma(thing, "alert_key", alert_key)
        message == put(putAndComma(alert, "alert_type", "0"), "message", "text")
    IN endJSON(endJSON(IF data = NULL THEN message
                       ELSE putText(Append(message, ","), "data", data)))

\* encode_and_send_data: the last brace makes room for the signature, the
\* signature's last comma for the brace.
Sign(json) ==
    LET hash == putAndComma(Append(Front(json), ","), "hash", "h")
        access_key == putAndComma(hash, "access_key", "k")
        version == putAndComma(access_key, "aliot_protocol_version", "2")
    IN endJSON(Front(version))
=============================================================================
