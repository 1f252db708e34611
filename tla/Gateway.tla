-------------------------------- MODULE Gateway --------------------------------
(***************************************************************************)
(* The Datonis gateway of src/c/linux/Aliot/aliotgateway_mqtt.c.  Every    *)
(* transmit_* call and register_thing go through encode_and_send_data: it  *)
(* publishes a JSON that carries its hash and then yields to the client    *)
(* until an ack with that hash has come on the httpAck topic.  The ack is  *)
(* not matched when it comes: handle_http_ack leaves its context and code  *)
(* in two globals, which the loop looks at after each MQTTYield(10).       *)
(*                                                                         *)
(* The MQTT client is seen as its users see it: while one of its calls is  *)
(* on the stack it hands over messages that have come, and the call        *)
(* returns, or hangs: in a write() to a peer that does not read, or in a   *)
(* read from one that has closed the connection (MqttSystem).  An          *)
(* instruction's handler runs inside such a call and sends a feedback      *)
(* alert (sample.c), so encode_and_send_data is re-entered, on the same    *)
(* two globals.                                                            *)
(***************************************************************************)
EXTENDS Integers, Sequences, FiniteSets

CONSTANTS
    Hashes,             \* one per JSON sent: its HMAC
    Registrations,      \* those that are sent by register_thing
    RETRIES_FOR_ACK,
    Codes,              \* codes the platform answers a well-formed JSON with
    MaxInstructions,    \* bound on the instructions the platform fires
    MaxConnects,        \* bound on the calls of connect_datonis
    MaxThings,          \* entries of registered_things
    PointerHalves,      \* a pointer's low half, read as an int
    PARSE_ERROR,        \* the context of an ack to a JSON that did not parse
    NoContext           \* the empty string

ASSUME GatewayAssumption ==
    /\ Registrations \subseteq Hashes
    /\ RETRIES_FOR_ACK \in Nat \ {0}
    /\ Codes \subseteq {200, 202, 400, 401, 406, 422, 429}
    /\ {MaxInstructions, MaxConnects, MaxThings} \subseteq Nat
    /\ PointerHalves \subseteq Int
    /\ PARSE_ERROR \notin Hashes /\ NoContext \notin Hashes
    /\ PARSE_ERROR # NoContext

VARIABLES
    process,                    \* "runs"; "hangs" in the MQTT client; or "crashed"
    http_return_code, http_ack_context,     \* the two globals
    connected,                  \* client.isconnected
    registered_thing_counter,
    subscribed,                 \* handler slots that hold handle_instruction
    stack,                      \* the calls that have not returned
    result,                     \* history: what each send has returned
    outbox,                     \* published, not yet seen by the platform
    acks,                       \* on the httpAck topic, not yet delivered
    instructions,               \* fired, not yet delivered
    connects, fired,            \* bounded counters
    answer,                     \* history: the platform's ack of each JSON
    heard,                      \* history: sends whose ack came during the call
    masked                      \* history: those whose ack was then overwritten

globals == <<http_return_code, http_ack_context>>
things == <<registered_thing_counter, subscribed>>
platform == <<outbox, acks, instructions, fired, answer>>
memory == <<globals, connected, things, stack, result, platform, connects, heard,
            masked>>
vars == <<process, memory>>

TimedOut == 408
AckMsg == [context : Hashes \cup {PARSE_ERROR}, code : Codes \cup {500}]
NoAnswer == [context |-> NoContext, code |-> 0]
NoHash == NoContext

\* "publish": inside MQTTPublish; "yield": inside the MQTTYield of the ack
\* loop; "subscribe": inside register_thing's MQTTSubscribe; "app": inside the
\* application's yield(); "instruction": "cnt" handler calls to go.
Pc == {"publish", "yield", "subscribe", "app", "instruction"}
Frame == [pc : Pc, hash : Hashes \cup {NoHash}, cnt : Nat]

\* What a send has come to: a code, or -1 when MQTTPublish failed.
Unsent == 0
UnderWay == 1
Results == {Unsent, UnderWay, -1, TimedOut, 500} \cup Codes

TypeOK ==
    /\ process \in {"runs", "hangs", "crashed"}
    /\ http_return_code \in {-1, TimedOut, 500} \cup Codes
    /\ http_ack_context \in Hashes \cup {PARSE_ERROR, NoContext}
    /\ connected \in BOOLEAN
    /\ registered_thing_counter \in Int
    /\ subscribed \in Nat
    /\ stack \in Seq(Frame)
    /\ result \in [Hashes -> Results]
    /\ outbox \subseteq Hashes
    /\ acks \in Seq(AckMsg)
    /\ instructions \in Nat /\ connects \in Nat /\ fired \in Nat
    /\ answer \in [Hashes -> AckMsg \cup {NoAnswer}]
    /\ heard \subseteq Hashes
    /\ masked \subseteq Hashes

Init ==
    /\ process = "runs"
    /\ http_return_code = -1
    /\ http_ack_context = NoContext
    /\ connected = FALSE
    /\ registered_thing_counter = 0
    /\ subscribed = 0
    /\ stack = <<>>
    /\ result = [h \in Hashes |-> Unsent]
    /\ outbox = {}
    /\ acks = <<>>
    /\ instructions = 0 /\ connects = 0 /\ fired = 0
    /\ answer = [h \in Hashes |-> NoAnswer]
    /\ heard = {}
    /\ masked = {}

-----------------------------------------------------------------------------
Top == stack[Len(stack)]
Below == SubSeq(stack, 1, Len(stack) - 1)
On(pc) == stack # <<>> /\ Top.pc = pc
Replace(frame) == stack' = [stack EXCEPT ![Len(stack)] = frame]

\* The MQTT client is in a call, and may hand over a message.
InClient == stack # <<>> /\ Top.pc # "instruction"

\* Sends that are under way.
Pending == {h \in Hashes : result[h] = UnderWay}

(* connect_datonis_instance.  The client id is new, so nothing that is under
   way for the old one comes any more; the things stay registered, but the
   new client has no handler for them. *)
Connect(ok) ==
    /\ stack = <<>>
    /\ connects < MaxConnects
    /\ connects' = connects + 1
    /\ connected' = ok
    /\ http_ack_context' = IF ok THEN NoContext ELSE http_ack_context
    /\ subscribed' = 0
    /\ outbox' = {}
    /\ acks' = <<>>
    /\ instructions' = 0
    /\ UNCHANGED <<http_return_code, registered_thing_counter, stack, result, fired,
                   answer, heard, masked>>

(* disconnect_datonis: DISCONNECT, and the socket is closed.  The session was a
   clean one: what was under way is lost, and no handler is called any more. *)
disconnect_datonis ==
    /\ stack = <<>> /\ connected
    /\ connected' = FALSE
    /\ subscribed' = 0
    /\ outbox' = {}
    /\ acks' = <<>>
    /\ instructions' = 0
    /\ UNCHANGED <<globals, registered_thing_counter, stack, result, fired, answer,
                   connects, heard, masked>>

\* Slip: a handler sends more than it has calls.
MaySendAgain(h) == stack = <<>> \/ (On("instruction") /\ h \notin Registrations)
MaySend(h) ==
    \/ stack = <<>>
    \/ On("instruction") /\ Top.cnt > 0 /\ h \notin Registrations

(* encode_and_send_data, up to and including the write of the PUBLISH; the
   packet may be lost on the way.  The application sends when it is not in
   the client, or from its instruction handler. *)
Send(h) ==
    /\ MaySend(h)
    /\ result[h] = Unsent
    /\ result' = [result EXCEPT ![h] = UnderWay]
    /\ outbox' \in IF connected THEN {outbox, outbox \cup {h}} ELSE {outbox}
    /\ stack' = Append(IF stack = <<>> THEN <<>>
                       ELSE [stack EXCEPT ![Len(stack)].cnt = @ - 1],
                       [pc |-> "publish", hash |-> h, cnt |-> 0])
    /\ UNCHANGED <<globals, connected, things, acks, instructions, fired, answer,
                   connects, heard, masked>>

Return(h, code) == result' = [result EXCEPT ![h] = code] /\ stack' = Below

PublishFails ==
    /\ On("publish")
    /\ Return(Top.hash, -1)
    /\ UNCHANGED <<globals, connected, things, platform, connects, heard, masked>>

\* MQTTPublish has returned 0: http_return_code is reset only now, whatever has
\* been delivered since the packet was written.
PublishReturns ==
    /\ On("publish") /\ connected
    /\ Replace([Top EXCEPT !.pc = "yield"])
    /\ http_return_code' = TimedOut
    /\ masked' = masked \cup (Pending \cap heard)
    /\ UNCHANGED <<http_ack_context, connected, things, result, platform, connects,
                   heard>>

\* handle_http_ack; QoS 1: the same ack may come again.
HttpAck(again) ==
    /\ InClient
    /\ acks # <<>>
    /\ http_ack_context' = Head(acks).context
    /\ http_return_code' = Head(acks).code
    /\ acks' = IF again THEN acks ELSE Tail(acks)
    /\ LET h == Head(acks).context IN
         /\ heard' = heard \cup (Pending \cap {h})
         /\ masked' = (masked \cup (Pending \cap heard)) \ (Pending \cap {h})
    /\ UNCHANGED <<connected, things, stack, result, outbox, instructions, fired,
                   answer, connects>>

\* Slips: the context is not compared; only one code counts as an ack.
AcknowledgedByAny == http_return_code # TimedOut
AcknowledgedIfGood == http_return_code = 200 /\ http_ack_context = Top.hash

\* The test after MQTTYield(10).
Acknowledged ==
    \/ http_return_code # TimedOut /\ http_ack_context = Top.hash
    \/ http_return_code = 500 /\ http_ack_context = PARSE_ERROR

\* register_thing goes on if translate_http_code has made ERR_OK of the code.
\* Slip: it does not look at the code.
RegisteredAnyway == Top.hash \in Registrations
Registered == Top.hash \in Registrations /\ http_return_code \in {200, 202}

\* registered_things[registered_thing_counter++] = thing, with no look at the
\* length of the array.  What lies behind it is the build's choice: padding and
\* buffers, the counter itself, or, for a wild index, no memory at all.
EnterThing ==
    \/ /\ registered_thing_counter' = registered_thing_counter + 1
       /\ UNCHANGED process
    \/ /\ registered_thing_counter \notin 0..(MaxThings - 1)
       /\ \/ registered_thing_counter' \in PointerHalves /\ UNCHANGED process
          \/ process' = "crashed" /\ UNCHANGED registered_thing_counter

GotAck ==
    /\ On("yield")
    /\ Acknowledged
    /\ IF Registered
       THEN /\ EnterThing
            /\ Replace([Top EXCEPT !.pc = "subscribe"])
            /\ result' = [result EXCEPT ![Top.hash] = http_return_code]
       ELSE /\ Return(Top.hash, http_return_code)
            /\ UNCHANGED <<process, registered_thing_counter>>
    /\ UNCHANGED <<globals, connected, subscribed, platform, connects, heard, masked>>

\* Slip: the retries are not counted.
SameTry == Top.cnt
NextTry == Top.cnt + 1

NoAckYet ==
    /\ On("yield")
    /\ ~Acknowledged
    /\ http_return_code' = TimedOut
    /\ IF NextTry = RETRIES_FOR_ACK
       THEN Return(Top.hash, TimedOut)
       ELSE Replace([Top EXCEPT !.cnt = NextTry]) /\ UNCHANGED result
    /\ masked' = masked \cup ((Pending \cap heard) \ {Top.hash})
    /\ UNCHANGED <<http_ack_context, connected, things, platform, connects, heard>>

\* register_thing's MQTTSubscribe, granted or not.
SubscribeReturns(ok) ==
    /\ On("subscribe")
    /\ subscribed' = IF ok THEN subscribed + 1 ELSE subscribed
    /\ stack' = Below
    /\ UNCHANGED <<globals, connected, registered_thing_counter, result, platform,
                   connects, heard, masked>>

\* The application calls yield(), and it returns.
AppYield ==
    /\ stack = <<>> /\ connected
    /\ stack' = <<[pc |-> "app", hash |-> NoHash, cnt |-> 0]>>
    /\ UNCHANGED <<globals, connected, things, result, platform, connects, heard,
                   masked>>

AppYieldReturns ==
    /\ On("app")
    /\ stack' = Below
    /\ UNCHANGED <<globals, connected, things, result, platform, connects, heard,
                   masked>>

\* How often handle_instruction finds the thing in registered_things: any number
\* of times in what lies behind the array, and never for a negative counter.
Found ==
    CASE registered_thing_counter < 0 -> {0}
      [] registered_thing_counter \in 0..MaxThings -> {registered_thing_counter}
      [] registered_thing_counter > MaxThings -> 0..registered_thing_counter

\* handle_instruction is called once per slot, and calls the thing's handler
\* once for each time it finds the thing.
Instruction ==
    /\ InClient
    /\ instructions > 0
    /\ instructions' = instructions - 1
    /\ \E n \in Found :
         stack' = Append(stack, [pc |-> "instruction", hash |-> NoHash,
                                 cnt |-> subscribed * n])
    /\ UNCHANGED <<globals, connected, things, result, outbox, acks, fired, answer,
                   connects, heard, masked>>

\* A handler that sends no feedback, or the return of handle_instruction.
InstructionReturns ==
    /\ On("instruction")
    /\ IF Top.cnt = 0 THEN stack' = Below ELSE Replace([Top EXCEPT !.cnt = @ - 1])
    /\ UNCHANGED <<globals, connected, things, result, platform, connects, heard,
                   masked>>

-----------------------------------------------------------------------------
(* The Datonis platform, which is not in the repository *)

PlatformAnswers(h, reply) ==
    /\ h \in outbox
    /\ outbox' = outbox \ {h}
    /\ answer' = [answer EXCEPT ![h] = reply]
    /\ acks' = Append(acks, reply)
    /\ UNCHANGED <<globals, connected, things, stack, result, instructions, fired,
                   connects, heard, masked>>

AckLost ==
    /\ acks # <<>>
    /\ acks' = Tail(acks)
    /\ UNCHANGED <<globals, connected, things, stack, result, outbox, instructions,
                   fired, answer, connects, heard, masked>>

PlatformFires ==
    /\ fired < MaxInstructions
    /\ subscribed > 0
    /\ fired' = fired + 1
    /\ instructions' = instructions + 1
    /\ UNCHANGED <<globals, connected, things, stack, result, outbox, acks, answer,
                   connects, heard, masked>>

Platform ==
    \/ AckLost
    \/ PlatformFires
    \/ \E h \in Hashes :
         \/ PlatformAnswers(h, [context |-> PARSE_ERROR, code |-> 500])
         \/ \E c \in Codes : PlatformAnswers(h, [context |-> h, code |-> c])

\* handle_instruction takes what lies behind the array for pointers.
ReadsWild ==
    /\ On("instruction")
    /\ registered_thing_counter > MaxThings
    /\ process' = "crashed"
    /\ UNCHANGED memory

\* The call of the client on top of the stack does not return, until the peer
\* reads or the connection breaks, if it ever does.
Hangs == process = "runs" /\ InClient /\ process' = "hangs" /\ UNCHANGED memory
GoesOn == process = "hangs" /\ process' = "runs" /\ UNCHANGED memory

\* What the application does on its own account.
AppCalls ==
    \/ \E ok \in BOOLEAN : Connect(ok)
    \/ disconnect_datonis
    \/ \E h \in Hashes : Send(h)
    \/ AppYield

\* The loop of encode_and_send_data and the calls it makes.
Ends ==
    \/ PublishFails \/ PublishReturns \/ NoAckYet
    \/ AppYieldReturns \/ InstructionReturns
    \/ \E ok \in BOOLEAN : SubscribeReturns(ok)

Returns == process = "runs" /\ (GotAck \/ (Ends /\ UNCHANGED process))

Deliveries == Instruction \/ \E again \in BOOLEAN : HttpAck(again)

Next ==
    \/ Returns
    \/ process = "runs" /\ (AppCalls \/ Deliveries) /\ UNCHANGED process
    \/ process = "runs" /\ ReadsWild
    \/ Platform /\ UNCHANGED process
    \/ Hangs \/ GoesOn

Spec == Init /\ [][Next]_vars

\* While the connection is open and the peer reads, every call of the MQTT
\* client returns (CallsReturn of MqttSystem), and so does the code around it.
\* Nothing says whether a call that hangs goes on; one that does ends, for it
\* makes a few writes only.
FairSpec == Spec /\ SF_vars(Returns)

-----------------------------------------------------------------------------
\* What encode_and_send_data returns, 408, 500 and -1 apart, is the platform's
\* answer to that very JSON, also when acks come late, twice or to a send that
\* was interrupted by another.
AnswerIsOurs ==
    \A h \in Hashes :
        result[h] \in Codes => answer[h] = [context |-> h, code |-> result[h]]

\* Registrations the platform accepted, on this connection and on earlier ones.
Accepted ==
    {h \in Registrations : answer[h].context = h /\ answer[h].code \in {200, 202}}

\* A thing is in registered_things only if the platform accepted one
\* registration for each time it is there, and nothing behind the array is
\* written or read, as long as no more registrations were accepted, over all
\* connections, than the array has entries.
RegisteredWasAccepted ==
    \/ Cardinality(Accepted) > MaxThings
    \/ registered_thing_counter \in 0..Cardinality(Accepted) /\ process # "crashed"

\* An ack that came while its send was under way is found by the send's loop,
\* unless the globals were overwritten between its coming and the loop's test:
\* by the reset after MQTTPublish, another ack, or a send of a handler.
TimeoutExplained ==
    \A h \in Hashes : result[h] = TimedOut => h \notin heard \ masked

\* The loop takes a PARSE_ERROR for "the expected acknowledge for THE MESSAGE WE
\* SENT".
ParseErrorIsOurs == \A h \in Hashes : result[h] = 500 => answer[h].code = 500

\* "before it gives up": encode_and_send_data returns, whatever comes and does
\* not come, and however handlers nest, unless a call of the MQTT client hangs
\* for ever or the overrun array of things ends the process.
SendReturns ==
    \/ <>[](process # "runs")
    \/ \A h \in Hashes : result[h] = UnderWay ~> result[h] # UnderWay
=============================================================================
