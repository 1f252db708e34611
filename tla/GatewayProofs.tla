---------------------------- MODULE GatewayProofs ----------------------------
(***************************************************************************)
(* A code that encode_and_send_data returns is the platform's answer to    *)
(* the JSON it sent, for any number of sends, retries, nested handlers,    *)
(* late, lost and repeated acks.                                           *)
(*                                                                         *)
(* The second half is about the calls on the stack and the acks that come  *)
(* while they are there: an ack that came in time is found unless          *)
(* something is named that hid it, and a thing is registered only for an   *)
(* accepted registration.                                                  *)
(***************************************************************************)
EXTENDS Gateway, SequenceTheorems, FiniteSetTheorems, TLAPS

(* The inductive invariant *)

\* The calls that belong to a send know its hash.
FramesHaveHash ==
    \A k \in DOMAIN stack :
        stack[k].pc \in {"publish", "yield", "subscribe"} => stack[k].hash \in Hashes

\* A JSON is answered once, and only after it was sent.
Fresh ==
    \A h \in Hashes :
        /\ result[h] = Unsent => h \notin outbox
        /\ result[h] = Unsent \/ h \in outbox => answer[h] = NoAnswer

\* An ack that is under way, and the one the globals hold, is the platform's
\* answer to the JSON it names.
AcksTrue ==
    \A k \in DOMAIN acks :
        acks[k].context \in Hashes => answer[acks[k].context] = acks[k]

GlobalsTrue ==
    http_ack_context \in Hashes /\ http_return_code # TimedOut =>
        answer[http_ack_context] =
            [context |-> http_ack_context, code |-> http_return_code]

TypeInv == TypeOK /\ FramesHaveHash
AnswerInv == Fresh /\ AcksTrue /\ GlobalsTrue /\ AnswerIsOurs

-----------------------------------------------------------------------------
(* The stack *)

StackOK(s) ==
    /\ s \in Seq(Frame)
    /\ \A k \in DOMAIN s :
         s[k].pc \in {"publish", "yield", "subscribe"} => s[k].hash \in Hashes

\* The top frame is one of the stack, and without it the stack is one.
LEMMA TopAndBelow ==
    ASSUME StackOK(stack), stack # <<>>
    PROVE  /\ Len(stack) \in DOMAIN stack
           /\ Top \in Frame
           /\ Top.pc \in {"publish", "yield", "subscribe"} => Top.hash \in Hashes
           /\ StackOK(Below)
<1>1. stack \in Seq(Frame) /\ DOMAIN stack = 1..Len(stack) /\ Len(stack) \in Nat \ {0}
  BY LenProperties, EmptySeq DEF StackOK
<1>2. Len(stack) \in DOMAIN stack
  BY <1>1
<1>3. Top \in Frame
  BY <1>1, <1>2, ElementOfSeq DEF Top
<1>4. /\ Below \in Seq(Frame) /\ DOMAIN Below = 1..(Len(stack) - 1)
      /\ \A k \in 1..(Len(stack) - 1) : Below[k] = stack[k]
  BY <1>1, SubSeqProperties, LenProperties DEF Below
<1> QED
  BY <1>1, <1>2, <1>3, <1>4 DEF StackOK, Top

\* Pushing and replacing a frame.
LEMMA PushFrame ==
    ASSUME NEW s, StackOK(s), NEW f \in Frame,
           f.pc \in {"publish", "yield", "subscribe"} => f.hash \in Hashes
    PROVE  StackOK(Append(s, f))
<1>1. /\ Append(s, f) \in Seq(Frame) /\ Len(Append(s, f)) = Len(s) + 1
      /\ \A k \in 1..Len(s) : Append(s, f)[k] = s[k]
      /\ Append(s, f)[Len(s) + 1] = f
  BY AppendProperties DEF StackOK
<1>2. /\ DOMAIN s = 1..Len(s) /\ Len(s) \in Nat
      /\ DOMAIN Append(s, f) = 1..(Len(s) + 1)
  BY <1>1, LenProperties DEF StackOK
<1> QED
  BY <1>1, <1>2 DEF StackOK

\* The top frame replaced by one that carries its hash, if it waits for one.
LEMMA ReplaceFrame ==
    ASSUME StackOK(stack), stack # <<>>, NEW f \in Frame,
           f.pc \in {"publish", "yield", "subscribe"} => f.hash \in Hashes
    PROVE  StackOK([stack EXCEPT ![Len(stack)] = f])
<1>1. stack \in Seq(Frame) /\ DOMAIN stack = 1..Len(stack) /\ Len(stack) \in 1..Len(stack)
  BY TopAndBelow, LenProperties DEF StackOK
<1>2. /\ [stack EXCEPT ![Len(stack)] = f] \in Seq(Frame)
      /\ DOMAIN [stack EXCEPT ![Len(stack)] = f] = DOMAIN stack
  BY <1>1, ExceptSeq
<1> QED
  BY <1>1, <1>2 DEF StackOK

-----------------------------------------------------------------------------
(* Types *)

\* TypeInv says of the stack what StackOK does.
LEMMA StackTyped ==
    ASSUME TypeInv
    PROVE  StackOK(stack)
  BY DEF TypeInv, TypeOK, FramesHaveHash, StackOK

\* The initial state has its types.
LEMMA InitTypes ==
    ASSUME GatewayAssumption, Init
    PROVE  TypeInv
<1>1. stack = <<>> /\ acks = <<>> /\ stack \in Seq(Frame) /\ acks \in Seq(AckMsg)
  BY EmptySeq DEF Init
<1>2. registered_thing_counter \in Int /\ process \in {"runs", "hangs", "crashed"}
  BY DEF Init
<1>3. /\ result \in [Hashes -> Results] /\ answer \in [Hashes -> AckMsg \cup {NoAnswer}]
      /\ subscribed \in Nat /\ instructions \in Nat /\ connects \in Nat /\ fired \in Nat
  BY DEF Init, Results, Unsent
<1>4. FramesHaveHash
  BY <1>1 DEF FramesHaveHash
<1>5. /\ http_return_code \in {-1, TimedOut, 500} \cup Codes
      /\ http_ack_context \in Hashes \cup {PARSE_ERROR, NoContext}
      /\ connected \in BOOLEAN
      /\ outbox \subseteq Hashes /\ heard \subseteq Hashes /\ masked \subseteq Hashes
  <2>1. /\ http_ack_context = NoContext
        /\ outbox = {} /\ heard = {} /\ masked = {}
    BY DEF Init
  <2>2. connected \in BOOLEAN
    <3>1. connected = FALSE
      BY DEF Init
    <3> QED
      BY <3>1
  <2>3. http_return_code \in {-1, TimedOut, 500} \cup Codes
    BY DEF Init
  <2> QED
    BY <2>1, <2>2, <2>3
<1>6. TypeOK
  BY <1>1, <1>2, <1>3, <1>5 DEF TypeOK
<1> QED
  BY <1>4, <1>6 DEF TypeInv

\* A call that has ended leaves the stack below it; one that goes on has
\* another frame in its place.
LEMMA EndsTyped ==
    ASSUME TypeInv, stack # <<>>, stack' = Below
    PROVE  stack' \in Seq(Frame) /\ FramesHaveHash'
  BY StackTyped, TopAndBelow DEF StackOK, FramesHaveHash

\* The same of an action that does so.
LEMMA ReplaceTyped ==
    ASSUME TypeInv, stack # <<>>, NEW f \in Frame, Replace(f),
           f.pc \in {"publish", "yield", "subscribe"} => f.hash \in Hashes
    PROVE  stack' \in Seq(Frame) /\ FramesHaveHash'
  BY StackTyped, ReplaceFrame DEF StackOK, FramesHaveHash, Replace

\* A call pushes a frame.
LEMMA PushTyped ==
    ASSUME NEW s, StackOK(s), NEW f \in Frame, stack' = Append(s, f),
           f.pc \in {"publish", "yield", "subscribe"} => f.hash \in Hashes
    PROVE  stack' \in Seq(Frame) /\ FramesHaveHash'
  BY PushFrame DEF StackOK, FramesHaveHash

\* connect_datonis keeps the types.
LEMMA ConnectTypes ==
    ASSUME TypeInv, UNCHANGED process, NEW ok \in BOOLEAN, Connect(ok)
    PROVE  TypeInv'
<1>1. acks' \in Seq(AckMsg)
  BY EmptySeq DEF Connect
<1> QED
  BY <1>1 DEF Connect, TypeInv, TypeOK, FramesHaveHash

\* disconnect_datonis keeps the types.
LEMMA DisconnectTypes ==
    ASSUME TypeInv, UNCHANGED process, disconnect_datonis
    PROVE  TypeInv'
<1>1. acks' \in Seq(AckMsg)
  BY EmptySeq DEF disconnect_datonis
<1> QED
  BY <1>1 DEF disconnect_datonis, TypeInv, TypeOK, FramesHaveHash, globals

\* So does the start of a send.
LEMMA SendTypes ==
    ASSUME TypeInv, UNCHANGED process, NEW h \in Hashes, Send(h)
    PROVE  TypeInv'
<1>. DEFINE f == [pc |-> "publish", hash |-> h, cnt |-> 0]
            s == IF stack = <<>> THEN <<>> ELSE [stack EXCEPT ![Len(stack)].cnt = @ - 1]
<1>1. f \in Frame /\ f.hash \in Hashes
  BY DEF Frame, Pc
<1>2. StackOK(s)
  <2>1. CASE stack = <<>>
    BY <2>1, EmptySeq DEF StackOK
  <2>2. CASE stack # <<>>
    <3>1. Top \in Frame /\ Top.cnt > 0 /\ Top.pc = "instruction"
      BY <2>2, StackTyped, TopAndBelow DEF Send, MaySend, On
    <3>2. [Top EXCEPT !.cnt = @ - 1] \in Frame /\ [Top EXCEPT !.cnt = @ - 1].pc = "instruction"
      BY <3>1 DEF Frame
    <3>3. StackOK([stack EXCEPT ![Len(stack)] = [Top EXCEPT !.cnt = @ - 1]])
      BY <2>2, <3>2, StackTyped, ReplaceFrame
    <3>4. s = [stack EXCEPT ![Len(stack)] = [Top EXCEPT !.cnt = @ - 1]]
      BY <2>2 DEF Top
    <3> QED
      BY <3>3, <3>4
  <2> QED
    BY <2>1, <2>2
<1>3. stack' = Append(s, f)
  BY DEF Send
<1>4. stack' \in Seq(Frame) /\ FramesHaveHash'
  <2>. HIDE DEF f, s
  <2> QED
    BY <1>1, <1>2, <1>3, PushTyped
<1>5. result' \in [Hashes -> Results] /\ outbox' \subseteq Hashes
  BY DEF Send, TypeInv, TypeOK, Results, UnderWay
<1> QED
  BY <1>4, <1>5 DEF Send, TypeInv, TypeOK, globals, things

\* The ends of MQTTPublish.
LEMMA PublishTypes ==
    ASSUME TypeInv, UNCHANGED process, PublishFails \/ PublishReturns
    PROVE  TypeInv'
<1>1. stack # <<>> /\ Top \in Frame /\ Top.hash \in Hashes
  BY StackTyped, TopAndBelow DEF PublishFails, PublishReturns, On
<1>2. CASE PublishFails
  <2>1. stack' \in Seq(Frame) /\ FramesHaveHash'
    BY <1>1, <1>2, EndsTyped DEF PublishFails, Return
  <2>2. result' \in [Hashes -> Results]
    BY <1>1, <1>2 DEF PublishFails, Return, TypeInv, TypeOK, Results
  <2> QED
    BY <1>2, <2>1, <2>2 DEF PublishFails, TypeInv, TypeOK, globals, things, platform
<1>3. CASE PublishReturns
  <2>1. [Top EXCEPT !.pc = "yield"] \in Frame /\ [Top EXCEPT !.pc = "yield"].hash \in Hashes
    BY <1>1 DEF Frame, Pc
  <2>2. stack' \in Seq(Frame) /\ FramesHaveHash'
    BY <1>1, <1>3, <2>1, ReplaceTyped DEF PublishReturns
  <2>3. masked' \subseteq Hashes
    BY <1>3 DEF PublishReturns, Pending, TypeInv, TypeOK
  <2> QED
    BY <1>3, <2>2, <2>3 DEF PublishReturns, TypeInv, TypeOK, things, platform
<1> QED
  BY <1>2, <1>3

\* handle_http_ack.
LEMMA HttpAckTypes ==
    ASSUME TypeInv, UNCHANGED process, NEW again, HttpAck(again)
    PROVE  TypeInv'
<1>1. Head(acks) \in AckMsg /\ Tail(acks) \in Seq(AckMsg) /\ acks \in Seq(AckMsg)
  BY HeadTailProperties DEF HttpAck, TypeInv, TypeOK
<1>2. acks' \in Seq(AckMsg)
  BY <1>1 DEF HttpAck
<1>3. /\ http_ack_context' \in Hashes \cup {PARSE_ERROR, NoContext}
      /\ http_return_code' \in {-1, TimedOut, 500} \cup Codes
  BY <1>1 DEF HttpAck, AckMsg
<1>4. heard' \subseteq Hashes /\ masked' \subseteq Hashes
  BY DEF HttpAck, Pending, TypeInv, TypeOK
<1> QED
  BY <1>2, <1>3, <1>4 DEF HttpAck, TypeInv, TypeOK, FramesHaveHash, things

\* The test of the ack loop, passed or not.
LEMMA LoopTypes ==
    ASSUME TypeInv, GatewayAssumption, GotAck \/ (NoAckYet /\ UNCHANGED process)
    PROVE  TypeInv'
<1>1. stack # <<>> /\ Top \in Frame /\ Top.pc = "yield" /\ Top.hash \in Hashes
  BY StackTyped, TopAndBelow DEF GotAck, NoAckYet, On
<1>2. CASE GotAck
  <2>1. http_return_code \in Results
    BY DEF TypeInv, TypeOK, Results
  <2>2. result' \in [Hashes -> Results]
    <3>1. result' = [result EXCEPT ![Top.hash] = http_return_code]
      BY <1>2 DEF GotAck, Return
    <3>2. result \in [Hashes -> Results]
      BY DEF TypeInv, TypeOK
    <3> QED
      BY <1>1, <2>1, <3>1, <3>2
  <2>3. registered_thing_counter' \in Int /\ process' \in {"runs", "hangs", "crashed"}
    BY <1>2 DEF GotAck, EnterThing, TypeInv, TypeOK, GatewayAssumption
  <2>4. stack' \in Seq(Frame) /\ FramesHaveHash'
    <3>1. CASE Registered
      <4>. DEFINE next == [Top EXCEPT !.pc = "subscribe"]
      <4>1. next \in Frame /\ next.hash \in Hashes /\ Replace(next)
        BY <1>1, <1>2, <3>1 DEF GotAck, Frame, Pc
      <4>. HIDE DEF next
      <4>2. PICK f \in Frame : f = next
        BY <4>1
      <4>3. Replace(f) /\ f.hash \in Hashes
        BY <4>1, <4>2
      <4> QED
        BY <1>1, <4>3, StackTyped, ReplaceTyped
    <3>2. CASE ~Registered
      BY <1>1, <1>2, <3>2, EndsTyped DEF GotAck, Return
    <3> QED
      BY <3>1, <3>2
  <2> QED
    BY <1>2, <2>2, <2>3, <2>4 DEF GotAck, TypeInv, TypeOK, globals, platform
<1>3. CASE NoAckYet /\ UNCHANGED process
  <2>1. result' \in [Hashes -> Results]
    <3>1. result' = result \/ result' = [result EXCEPT ![Top.hash] = TimedOut]
      BY <1>3 DEF NoAckYet, Return
    <3>2. result \in [Hashes -> Results] /\ TimedOut \in Results
      BY DEF TypeInv, TypeOK, Results
    <3> QED
      BY <1>1, <3>1, <3>2
  <2>2. stack' \in Seq(Frame) /\ FramesHaveHash'
    <3>1. CASE NextTry = RETRIES_FOR_ACK
      BY <1>1, <1>3, <3>1, EndsTyped DEF NoAckYet, Return
    <3>2. CASE NextTry # RETRIES_FOR_ACK
      <4>1. NextTry \in Nat
        BY <1>1 DEF NextTry, Frame
      <4>. DEFINE next == [Top EXCEPT !.cnt = NextTry]
      <4>2. next \in Frame /\ next.hash \in Hashes /\ Replace(next)
        BY <1>1, <1>3, <3>2, <4>1 DEF NoAckYet, Frame
      <4>. HIDE DEF next
      <4>3. PICK f \in Frame : f = next
        BY <4>2
      <4>4. Replace(f) /\ f.hash \in Hashes
        BY <4>2, <4>3
      <4> QED
        BY <1>1, <4>4, StackTyped, ReplaceTyped
    <3> QED
      BY <3>1, <3>2
  <2>3. masked' \subseteq Hashes
    BY <1>3 DEF NoAckYet, Pending, TypeInv, TypeOK
  <2> QED
    BY <1>3, <2>1, <2>2, <2>3 DEF NoAckYet, TypeInv, TypeOK, things, platform
<1> QED
  BY <1>2, <1>3

\* A thing is found a number of times, whatever has become of the counter.
LEMMA FoundNat ==
    ASSUME TypeInv, GatewayAssumption
    PROVE  Found \subseteq Nat
<1>. registered_thing_counter \in Int /\ MaxThings \in Nat
  BY DEF TypeInv, TypeOK, GatewayAssumption
<1>1. CASE registered_thing_counter < 0
  BY <1>1 DEF Found
<1>2. CASE registered_thing_counter \in 0..MaxThings
  BY <1>2 DEF Found
<1>3. CASE registered_thing_counter > MaxThings
  BY <1>3 DEF Found
<1> QED
  BY <1>1, <1>2, <1>3

\* register_thing's MQTTSubscribe, the application's yield and instructions.
LEMMA CallTypes ==
    ASSUME TypeInv, GatewayAssumption, UNCHANGED process,
           \/ \E ok \in BOOLEAN : SubscribeReturns(ok)
           \/ AppYield \/ AppYieldReturns \/ Instruction \/ InstructionReturns
    PROVE  TypeInv'
<1>1. ASSUME NEW ok \in BOOLEAN, SubscribeReturns(ok) PROVE TypeInv'
  <2>1. stack' \in Seq(Frame) /\ FramesHaveHash'
    BY <1>1, EndsTyped DEF SubscribeReturns, On
  <2>2. subscribed' \in Nat
    BY <1>1 DEF SubscribeReturns, TypeInv, TypeOK
  <2> QED
    BY <1>1, <2>1, <2>2 DEF SubscribeReturns, TypeInv, TypeOK, globals, platform
<1>2. CASE AppYield
  <2>1. [pc |-> "app", hash |-> NoHash, cnt |-> 0] \in Frame
    BY DEF Frame, Pc
  <2>2. StackOK(<<>>) /\ stack' = Append(<<>>, [pc |-> "app", hash |-> NoHash, cnt |-> 0])
    BY <1>2, StackTyped DEF AppYield
  <2>3. stack' \in Seq(Frame) /\ FramesHaveHash'
    BY <2>1, <2>2, PushTyped
  <2> QED
    BY <1>2, <2>3 DEF AppYield, TypeInv, TypeOK, globals, things, platform
<1>3. CASE AppYieldReturns
  <2>1. stack' \in Seq(Frame) /\ FramesHaveHash'
    BY <1>3, EndsTyped DEF AppYieldReturns, On
  <2> QED
    BY <1>3, <2>1 DEF AppYieldReturns, TypeInv, TypeOK, globals, things, platform
<1>4. CASE Instruction
  <2>. PICK n \in Found :
         stack' = Append(stack, [pc |-> "instruction", hash |-> NoHash,
                                 cnt |-> subscribed * n])
    BY <1>4 DEF Instruction
  <2>. DEFINE f == [pc |-> "instruction", hash |-> NoHash, cnt |-> subscribed * n]
  <2>1. subscribed * n \in Nat
    BY FoundNat DEF TypeInv, TypeOK
  <2>2. f \in Frame /\ f.pc = "instruction"
    BY <2>1 DEF Frame, Pc
  <2>3. stack' = Append(stack, f)
    OBVIOUS
  <2>4. stack' \in Seq(Frame) /\ FramesHaveHash'
    <3>. HIDE DEF f
    <3> QED
      BY <2>2, <2>3, StackTyped, PushTyped
  <2>5. instructions' \in Nat
    BY <1>4 DEF Instruction, TypeInv, TypeOK
  <2> QED
    BY <1>4, <2>4, <2>5 DEF Instruction, TypeInv, TypeOK, globals, things
<1>5. CASE InstructionReturns
  <2>1. stack # <<>> /\ Top \in Frame /\ Top.pc = "instruction"
    BY <1>5, StackTyped, TopAndBelow DEF InstructionReturns, On
  <2>2. stack' \in Seq(Frame) /\ FramesHaveHash'
    <3>1. CASE Top.cnt = 0
      BY <1>5, <2>1, <3>1, EndsTyped DEF InstructionReturns
    <3>2. CASE Top.cnt # 0
      <4>. DEFINE next == [Top EXCEPT !.cnt = @ - 1]
      <4>1. next \in Frame /\ next.pc = "instruction"
        BY <2>1, <3>2 DEF Frame
      <4>2. Replace(next)
        BY <1>5, <3>2 DEF InstructionReturns
      <4>. HIDE DEF next
      <4> QED
        BY <2>1, <4>1, <4>2, ReplaceTyped
    <3> QED
      BY <3>1, <3>2
  <2> QED
    BY <1>5, <2>2 DEF InstructionReturns, TypeInv, TypeOK, globals, things, platform
<1> QED
  BY <1>1, <1>2, <1>3, <1>4, <1>5

\* The platform answers that it could not parse a JSON, or with its hash.
NotParsed(h) == PlatformAnswers(h, [context |-> PARSE_ERROR, code |-> 500])
Answered(h, c) == PlatformAnswers(h, [context |-> h, code |-> c])

\* What the platform may do in one step.
LEMMA PlatformCases ==
    ASSUME Platform
    PROVE  \/ AckLost
           \/ PlatformFires
           \/ \E h \in Hashes : NotParsed(h) \/ \E c \in Codes : Answered(h, c)
  BY DEF Platform, NotParsed, Answered

\* The platform.
LEMMA PlatformTypes ==
    ASSUME TypeInv, UNCHANGED process, Platform
    PROVE  TypeInv'
<1>1. CASE AckLost
  <2>1. acks' \in Seq(AckMsg)
    BY <1>1, HeadTailProperties DEF AckLost, TypeInv, TypeOK
  <2> QED
    BY <1>1, <2>1 DEF AckLost, TypeInv, TypeOK, FramesHaveHash, globals, things
<1>2. CASE PlatformFires
  BY <1>2 DEF PlatformFires, TypeInv, TypeOK, FramesHaveHash, globals, things
<1>3. ASSUME NEW h \in Hashes, NEW reply \in AckMsg, PlatformAnswers(h, reply)
      PROVE  TypeInv'
  <2>1. acks' \in Seq(AckMsg)
    BY <1>3, AppendProperties DEF PlatformAnswers, TypeInv, TypeOK
  <2>2. answer' \in [Hashes -> AckMsg \cup {NoAnswer}] /\ outbox' \subseteq Hashes
    BY <1>3 DEF PlatformAnswers, TypeInv, TypeOK
  <2> QED
    BY <1>3, <2>1, <2>2 DEF PlatformAnswers, TypeInv, TypeOK, FramesHaveHash, globals, things
<1>4. ASSUME NEW h \in Hashes, NotParsed(h) PROVE TypeInv'
  <2>1. [context |-> PARSE_ERROR, code |-> 500] \in AckMsg
    BY DEF AckMsg
  <2> QED
    BY <1>3, <1>4, <2>1 DEF NotParsed
<1>5. ASSUME NEW h \in Hashes, NEW c \in Codes, Answered(h, c) PROVE TypeInv'
  <2>1. [context |-> h, code |-> c] \in AckMsg
    BY DEF AckMsg
  <2> QED
    BY <1>3, <1>5, <2>1 DEF Answered
<1> QED
  BY <1>1, <1>2, <1>4, <1>5, PlatformCases

\* A process that crashes, hangs or goes on, and one that does nothing.
StandsStill == ReadsWild \/ Hangs \/ GoesOn \/ UNCHANGED vars

\* What may happen in one step.
LEMMA NextCases ==
    ASSUME [Next]_vars
    PROVE  \/ GotAck
           \/ UNCHANGED process /\ (Ends \/ AppCalls \/ Deliveries \/ Platform)
           \/ StandsStill
  BY DEF Next, Returns, StandsStill

\* Such a step leaves the memory as it is.
LEMMA MemoryStays ==
    ASSUME StandsStill
    PROVE  UNCHANGED memory
  BY DEF StandsStill, ReadsWild, Hangs, GoesOn, vars

\* TypeInv is inductive.
LEMMA NextTypes ==
    ASSUME TypeInv, GatewayAssumption, [Next]_vars
    PROVE  TypeInv'
<1>1. CASE StandsStill
  <2>1. process' \in {"runs", "hangs", "crashed"}
    BY <1>1 DEF StandsStill, ReadsWild, Hangs, GoesOn, vars, TypeInv, TypeOK
  <2> QED
    BY <1>1, <2>1, MemoryStays
    DEF memory, TypeInv, TypeOK, FramesHaveHash, globals, things, platform
<1>2. CASE GotAck
  BY <1>2, LoopTypes
<1>3. CASE UNCHANGED process /\ (Ends \/ Deliveries)
  BY <1>3, PublishTypes, LoopTypes, CallTypes, HttpAckTypes DEF Ends, Deliveries
<1>4. CASE UNCHANGED process /\ (AppCalls \/ Platform)
  BY <1>4, ConnectTypes, DisconnectTypes, SendTypes, CallTypes, PlatformTypes DEF AppCalls
<1> QED
  BY <1>1, <1>2, <1>3, <1>4, NextCases

\* The globals, the calls on the stack and the platform's messages keep their
\* types, also when registrations overrun the array of things; of the number of
\* registered things nothing is claimed but that it is one.
THEOREM GatewayTypeCorrect == Spec => []TypeOK
<1>1. Init => TypeInv
  BY InitTypes, GatewayAssumption
<1>2. TypeInv /\ [Next]_vars => TypeInv'
  BY NextTypes, GatewayAssumption
<1>3. TypeInv => TypeOK
  BY DEF TypeInv
<1> QED
  BY <1>1, <1>2, <1>3, PTL DEF Spec

-----------------------------------------------------------------------------
(* Answers *)

\* A code of the platform is none of the values with a meaning of their own.
LEMMA CodesApart ==
    ASSUME GatewayAssumption
    PROVE  \A c \in Codes : c \notin {-1, Unsent, UnderWay, TimedOut, 500}
  BY DEF GatewayAssumption, Unsent, UnderWay, TimedOut

\* What a step that leaves the platform and the globals alone does to a send's
\* result: it starts it, or ends it with something that is no code of the
\* platform.
EndsWith(h, v) == result' = [result EXCEPT ![h] = v]
Apart == {-1, UnderWay, TimedOut, 500}

\* A result that is no code of the platform disturbs no answer.
LEMMA ResultKeeps ==
    ASSUME TypeInv, GatewayAssumption, AnswerInv, NEW h \in Hashes, NEW v \in Apart,
           EndsWith(h, v), UNCHANGED answer
    PROVE  /\ AnswerIsOurs'
           /\ UNCHANGED outbox => Fresh'
<1>1. result \in [Hashes -> Results] /\ v \notin Codes /\ v # Unsent
  BY CodesApart DEF Apart, TypeInv, TypeOK, Unsent, UnderWay, TimedOut
<1>2. \A g \in Hashes : result'[g] = IF g = h THEN v ELSE result[g]
  BY <1>1 DEF EndsWith
<1>3. AnswerIsOurs'
  BY <1>1, <1>2 DEF AnswerInv, AnswerIsOurs
<1>4. UNCHANGED outbox => Fresh'
  BY <1>1, <1>2 DEF AnswerInv, Fresh
<1> QED
  BY <1>3, <1>4

\* encode_and_send_data up to the end of MQTTPublish.
LEMMA SendAnswers ==
    ASSUME TypeInv, GatewayAssumption, AnswerInv,
           (\E h \in Hashes : Send(h)) \/ PublishFails \/ PublishReturns
    PROVE  AnswerInv'
<1>1. ASSUME NEW h \in Hashes, Send(h) PROVE AnswerInv'
  <2>1. /\ result \in [Hashes -> Results] /\ result[h] = Unsent /\ UnderWay # Unsent
        /\ result' = [result EXCEPT ![h] = UnderWay]
        /\ outbox' = outbox \/ outbox' = outbox \cup {h}
        /\ UNCHANGED <<answer, acks, http_ack_context, http_return_code>>
    BY <1>1 DEF Send, TypeInv, TypeOK, Unsent, UnderWay, globals
  <2>2. AnswerIsOurs'
    <3>1. EndsWith(h, UnderWay) /\ UnderWay \in Apart
      BY <2>1 DEF EndsWith, Apart
    <3> QED
      BY <2>1, <3>1, ResultKeeps
  <2>3. \A g \in Hashes : result'[g] = IF g = h THEN UnderWay ELSE result[g]
    BY <2>1
  <2>4. Fresh'
    BY <2>1, <2>3 DEF AnswerInv, Fresh
  <2> QED
    BY <2>1, <2>2, <2>4 DEF AnswerInv, AcksTrue, GlobalsTrue
<1>2. CASE PublishFails
  <2>1. /\ Top.hash \in Hashes
        /\ result' = [result EXCEPT ![Top.hash] = -1]
        /\ UNCHANGED <<answer, acks, outbox, http_ack_context, http_return_code>>
    BY <1>2, StackTyped, TopAndBelow DEF PublishFails, Return, On, globals, platform
  <2>2. AnswerIsOurs' /\ Fresh'
    <3>1. PICK h \in Hashes, v \in Apart : h = Top.hash /\ v = -1
      BY <2>1 DEF Apart
    <3>2. EndsWith(h, v)
      BY <2>1, <3>1 DEF EndsWith
    <3> QED
      BY <2>1, <3>2, ResultKeeps
  <2> QED
    BY <2>1, <2>2 DEF AnswerInv, AcksTrue, GlobalsTrue
<1>3. CASE PublishReturns
  BY <1>3 DEF PublishReturns, AnswerInv, Fresh, AcksTrue, GlobalsTrue, AnswerIsOurs,
       platform
<1> QED
  BY <1>1, <1>2, <1>3

\* handle_http_ack puts into the globals an ack that was under way.
LEMMA HttpAckAnswers ==
    ASSUME TypeInv, AnswerInv, NEW again, HttpAck(again)
    PROVE  AnswerInv'
<1>1. /\ acks \in Seq(AckMsg) /\ acks # <<>> /\ UNCHANGED <<result, outbox, answer>>
      /\ http_ack_context' = Head(acks).context /\ http_return_code' = Head(acks).code
      /\ acks' = acks \/ acks' = Tail(acks)
  BY DEF HttpAck, TypeInv, TypeOK
<1>2. /\ Head(acks) \in AckMsg /\ Head(acks) = acks[1] /\ 1 \in DOMAIN acks
      /\ DOMAIN Tail(acks) = 1..(Len(acks) - 1) /\ DOMAIN acks = 1..Len(acks)
      /\ Len(acks) \in Nat
      /\ \A k \in 1..(Len(acks) - 1) : Tail(acks)[k] = acks[k + 1]
  BY <1>1, HeadTailProperties, LenProperties
<1>3. Head(acks) = [context |-> Head(acks).context, code |-> Head(acks).code]
  BY <1>2 DEF AckMsg
<1>4. Head(acks).context \in Hashes => answer[Head(acks).context] = Head(acks)
  BY <1>2 DEF AnswerInv, AcksTrue
<1>5. GlobalsTrue'
  BY <1>1, <1>3, <1>4 DEF GlobalsTrue
<1>6. AcksTrue'
  <2>1. CASE acks' = acks
    BY <1>1, <2>1 DEF AnswerInv, AcksTrue
  <2>2. CASE acks' = Tail(acks)
    BY <1>1, <1>2, <2>2 DEF AnswerInv, AcksTrue
  <2> QED
    BY <1>1, <2>1, <2>2
<1> QED
  BY <1>1, <1>5, <1>6 DEF AnswerInv, Fresh, AnswerIsOurs

\* The loop's test: the code it returns is the one the globals hold.
LEMMA LoopAnswers ==
    ASSUME TypeInv, GatewayAssumption, AnswerInv, GotAck \/ NoAckYet
    PROVE  AnswerInv'
<1>1. Top.hash \in Hashes /\ result \in [Hashes -> Results]
  BY StackTyped, TopAndBelow DEF GotAck, NoAckYet, On, TypeInv, TypeOK
<1>2. CASE GotAck
  <2>1. /\ result' = [result EXCEPT ![Top.hash] = http_return_code]
        /\ UNCHANGED <<answer, acks, outbox, http_ack_context, http_return_code>>
        /\ Acknowledged
    BY <1>2 DEF GotAck, Return, globals, platform
  <2>2. CASE http_return_code # TimedOut /\ http_ack_context = Top.hash
    <3>1. answer[Top.hash] = [context |-> Top.hash, code |-> http_return_code]
      BY <1>1, <2>2 DEF AnswerInv, GlobalsTrue
    <3>2. \A g \in Hashes : result'[g] = IF g = Top.hash THEN http_return_code ELSE result[g]
      BY <1>1, <2>1
    <3>3. AnswerIsOurs'
      BY <2>1, <3>1, <3>2 DEF AnswerInv, AnswerIsOurs
    <3>4. Top.hash \notin outbox
      <4>1. [context |-> Top.hash, code |-> http_return_code] # NoAnswer
        BY <1>1 DEF NoAnswer, GatewayAssumption
      <4> QED
        BY <1>1, <3>1, <4>1 DEF AnswerInv, Fresh
    <3>5. http_return_code # Unsent
      BY CodesApart DEF TypeInv, TypeOK, Unsent, TimedOut
    <3>6. Fresh'
      BY <2>1, <3>2, <3>4, <3>5 DEF AnswerInv, Fresh
    <3> QED
      BY <2>1, <3>3, <3>6 DEF AnswerInv, AcksTrue, GlobalsTrue
  <2>3. CASE http_return_code = 500
    <3>1. AnswerIsOurs' /\ Fresh'
      <4>1. PICK h \in Hashes, v \in Apart : h = Top.hash /\ v = http_return_code
        BY <1>1, <2>3 DEF Apart
      <4>2. EndsWith(h, v)
        BY <2>1, <4>1 DEF EndsWith
      <4> QED
        BY <2>1, <4>2, ResultKeeps
    <3> QED
      BY <2>1, <3>1 DEF AnswerInv, AcksTrue, GlobalsTrue
  <2> QED
    BY <2>1, <2>2, <2>3 DEF Acknowledged
<1>3. CASE NoAckYet
  <2>1. /\ result' = result \/ result' = [result EXCEPT ![Top.hash] = TimedOut]
        /\ http_return_code' = TimedOut
        /\ UNCHANGED <<answer, acks, outbox>>
    BY <1>3 DEF NoAckYet, Return, platform
  <2>2. AnswerIsOurs' /\ Fresh'
    <3>1. CASE result' = result
      BY <2>1, <3>1 DEF AnswerInv, AnswerIsOurs, Fresh
    <3>2. CASE result' = [result EXCEPT ![Top.hash] = TimedOut]
      <4>1. PICK h \in Hashes, v \in Apart : h = Top.hash /\ v = TimedOut
        BY <1>1 DEF Apart
      <4>2. EndsWith(h, v)
        BY <3>2, <4>1 DEF EndsWith
      <4> QED
        BY <2>1, <4>2, ResultKeeps
    <3> QED
      BY <2>1, <3>1, <3>2
  <2> QED
    BY <2>1, <2>2 DEF AnswerInv, AcksTrue, GlobalsTrue
<1> QED
  BY <1>2, <1>3

\* The platform answers a JSON that has no answer yet, so no ack for it is under
\* way or in the globals.
LEMMA PlatformKeeps ==
    ASSUME TypeInv, GatewayAssumption, AnswerInv, NEW h \in Hashes, NEW reply \in AckMsg,
           reply.context \in {h, PARSE_ERROR}, PlatformAnswers(h, reply)
    PROVE  AnswerInv'
<1>1. /\ h \in outbox /\ answer[h] = NoAnswer /\ result[h] # Unsent
      /\ outbox' = outbox \ {h} /\ acks' = Append(acks, reply)
      /\ UNCHANGED <<result, http_ack_context, http_return_code>>
      /\ answer \in [Hashes -> AckMsg \cup {NoAnswer}] /\ acks \in Seq(AckMsg)
  BY DEF PlatformAnswers, AnswerInv, Fresh, globals, TypeInv, TypeOK
<1>2. \A g \in Hashes : answer'[g] = IF g = h THEN reply ELSE answer[g]
  BY <1>1 DEF PlatformAnswers
<1>3. \A c : [context |-> h, code |-> c] # NoAnswer
  BY DEF NoAnswer, GatewayAssumption
<1>4. Fresh'
  BY <1>1, <1>2 DEF AnswerInv, Fresh
<1>5. GlobalsTrue'
  BY <1>1, <1>2, <1>3 DEF AnswerInv, GlobalsTrue
<1>6. AnswerIsOurs'
  BY <1>1, <1>2, <1>3 DEF AnswerInv, AnswerIsOurs
<1>7. AcksTrue'
  <2>1. /\ DOMAIN acks = 1..Len(acks) /\ DOMAIN acks' = 1..(Len(acks) + 1)
        /\ Len(acks) \in Nat
        /\ \A k \in 1..Len(acks) : acks'[k] = acks[k]
        /\ acks'[Len(acks) + 1] = reply
    BY <1>1, AppendProperties, LenProperties
  <2>2. ASSUME NEW k \in 1..Len(acks), acks[k].context \in Hashes
        PROVE  answer'[acks[k].context] = acks[k]
    <3>1. answer[acks[k].context] = acks[k] /\ acks[k] \in AckMsg
      BY <1>1, <2>1, <2>2, ElementOfSeq DEF AnswerInv, AcksTrue
    <3>2. acks[k] # NoAnswer
      BY <2>2, <3>1 DEF AckMsg, NoAnswer, GatewayAssumption
    <3>3. acks[k].context # h
      BY <1>1, <3>1, <3>2
    <3> QED
      BY <1>2, <2>2, <3>1, <3>3
  <2>3. reply.context \in Hashes => answer'[reply.context] = reply
    BY <1>2 DEF GatewayAssumption
  <2> QED
    BY <2>1, <2>2, <2>3 DEF AcksTrue
<1> QED
  BY <1>4, <1>5, <1>6, <1>7 DEF AnswerInv

\* A new connection forgets what is under way; the globals keep the last ack, or
\* forget which JSON it was for.
LEMMA ConnectAnswers ==
    ASSUME TypeInv, GatewayAssumption, AnswerInv, NEW ok \in BOOLEAN, Connect(ok)
    PROVE  AnswerInv'
<1>1. /\ UNCHANGED <<result, answer, http_return_code>> /\ outbox' = {} /\ acks' = <<>>
      /\ http_ack_context' = NoContext \/ http_ack_context' = http_ack_context
  BY DEF Connect
<1>2. NoContext \notin Hashes
  BY DEF GatewayAssumption
<1>3. AcksTrue'
  BY <1>1 DEF AcksTrue
<1>4. GlobalsTrue'
  BY <1>1, <1>2 DEF AnswerInv, GlobalsTrue
<1> QED
  BY <1>1, <1>3, <1>4 DEF AnswerInv, Fresh, AnswerIsOurs

\* The end of a connection forgets it as well, and leaves the globals alone.
LEMMA DisconnectAnswers ==
    ASSUME AnswerInv, disconnect_datonis
    PROVE  AnswerInv'
<1>1. /\ UNCHANGED <<result, answer, http_ack_context, http_return_code>>
      /\ outbox' = {} /\ acks' = <<>>
  BY DEF disconnect_datonis, globals
<1>2. AcksTrue'
  BY <1>1 DEF AcksTrue
<1> QED
  BY <1>1, <1>2 DEF AnswerInv, Fresh, GlobalsTrue, AnswerIsOurs

\* A lost acknowledgement leaves the others true.
LEMMA AckLostAnswers ==
    ASSUME TypeInv, AnswerInv, AckLost
    PROVE  AnswerInv'
<1>1. /\ acks \in Seq(AckMsg) /\ acks # <<>> /\ acks' = Tail(acks)
      /\ UNCHANGED <<result, outbox, answer, http_ack_context, http_return_code>>
  BY DEF AckLost, TypeInv, TypeOK, globals
<1>2. /\ DOMAIN Tail(acks) = 1..(Len(acks) - 1) /\ DOMAIN acks = 1..Len(acks)
      /\ Len(acks) \in Nat
      /\ \A k \in 1..(Len(acks) - 1) : Tail(acks)[k] = acks[k + 1]
  BY <1>1, HeadTailProperties, LenProperties
<1>3. AcksTrue'
  BY <1>1, <1>2 DEF AnswerInv, AcksTrue
<1> QED
  BY <1>1, <1>3 DEF AnswerInv, Fresh, GlobalsTrue, AnswerIsOurs

\* Steps that touch none of this.
LEMMA OthersKeepAnswers ==
    ASSUME AnswerInv, UNCHANGED <<result, outbox, acks, answer, globals>>
    PROVE  AnswerInv'
  BY DEF AnswerInv, Fresh, AcksTrue, GlobalsTrue, AnswerIsOurs, globals

\* Nothing has been answered at the start.
LEMMA InitAnswers ==
    ASSUME Init, GatewayAssumption
    PROVE  AnswerInv
<1>1. /\ result = [h \in Hashes |-> Unsent] /\ outbox = {} /\ acks = <<>>
      /\ answer = [h \in Hashes |-> NoAnswer] /\ http_ack_context = NoContext
  BY DEF Init
<1>0. Unsent \notin Codes /\ NoContext \notin Hashes
  BY CodesApart DEF GatewayAssumption, Unsent
<1>2. Fresh /\ AnswerIsOurs
  BY <1>0, <1>1 DEF Fresh, AnswerIsOurs
<1>3. AcksTrue
  BY <1>1 DEF AcksTrue
<1>4. GlobalsTrue
  BY <1>0, <1>1 DEF GlobalsTrue
<1> QED
  BY <1>2, <1>3, <1>4 DEF AnswerInv

\* AnswerInv is inductive relative to TypeInv.
LEMMA NextAnswers ==
    ASSUME TypeInv, GatewayAssumption, AnswerInv, [Next]_vars
    PROVE  AnswerInv'
<1>1. CASE \/ StandsStill
           \/ AppYield \/ AppYieldReturns \/ InstructionReturns \/ Instruction
           \/ PlatformFires \/ \E ok \in BOOLEAN : SubscribeReturns(ok)
  <2>1. UNCHANGED <<result, outbox, acks, answer, globals>>
    BY <1>1, MemoryStays DEF memory, AppYield, AppYieldReturns, InstructionReturns,
         Instruction, PlatformFires, SubscribeReturns, platform
  <2> QED
    BY <2>1, OthersKeepAnswers
<1>2. CASE PublishFails \/ PublishReturns \/ \E h \in Hashes : Send(h)
  BY <1>2, SendAnswers
<1>3. CASE GotAck \/ NoAckYet
  BY <1>3, LoopAnswers
<1>4. CASE \E again \in BOOLEAN : HttpAck(again)
  BY <1>4, HttpAckAnswers
<1>5. CASE \E ok \in BOOLEAN : Connect(ok)
  BY <1>5, ConnectAnswers
<1>6. CASE AckLost
  BY <1>6, AckLostAnswers
<1>7. ASSUME NEW h \in Hashes, NotParsed(h) PROVE AnswerInv'
  <2>. DEFINE r == [context |-> PARSE_ERROR, code |-> 500]
  <2>1. r \in AckMsg /\ r.context \in {h, PARSE_ERROR}
    BY DEF AckMsg
  <2>2. PlatformAnswers(h, r)
    BY <1>7 DEF NotParsed
  <2>. HIDE DEF r
  <2> QED
    BY <2>1, <2>2, PlatformKeeps
<1>8. ASSUME NEW h \in Hashes, NEW c \in Codes, Answered(h, c) PROVE AnswerInv'
  <2>. DEFINE r == [context |-> h, code |-> c]
  <2>1. r \in AckMsg /\ r.context \in {h, PARSE_ERROR}
    BY DEF AckMsg
  <2>2. PlatformAnswers(h, r)
    BY <1>8 DEF Answered
  <2>. HIDE DEF r
  <2> QED
    BY <2>1, <2>2, PlatformKeeps
<1>9. CASE Platform
  BY <1>1, <1>6, <1>7, <1>8, <1>9, PlatformCases
<1>10. CASE Ends \/ Deliveries
  BY <1>1, <1>2, <1>3, <1>4, <1>10 DEF Ends, Deliveries
<1>11. CASE AppCalls
  BY <1>1, <1>2, <1>5, <1>11, DisconnectAnswers DEF AppCalls
<1> QED
  BY <1>1, <1>3, <1>9, <1>10, <1>11, NextCases

\* encode_and_send_data returns a code of the platform only if it is the
\* platform's answer to the JSON that was sent: for any number of sends and
\* retries, any nesting of handlers, and acks that are late, lost or repeated.
THEOREM AnswerIsOursHolds == Spec => []AnswerIsOurs
<1>1. Init => TypeInv /\ AnswerInv
  BY InitTypes, InitAnswers, GatewayAssumption
<1>2. TypeInv /\ AnswerInv /\ [Next]_vars => (TypeInv /\ AnswerInv)'
  BY NextTypes, NextAnswers, GatewayAssumption
<1>3. AnswerInv => AnswerIsOurs
  BY DEF AnswerInv
<1> QED
  BY <1>1, <1>2, <1>3, PTL DEF Spec

-----------------------------------------------------------------------------
(* The inductive invariant: one frame per send, and what has been heard *)

\* The frames of a send before its result, each with its place on the stack.
Sends(f) == f.pc \in {"publish", "yield"}
SendsOn(s) == {<<k, s[k].hash>> : k \in {j \in DOMAIN s : Sends(s[j])}}

\* A send has one frame, and has it as long as it has no result.
OneFrame(at, res) ==
    /\ \A p \in at : p[2] \in Hashes /\ res[p[2]] = UnderWay
    /\ \A p, q \in at : p[2] = q[2] => p = q
    /\ \A h \in Hashes : res[h] = UnderWay => \E p \in at : p[2] = h

FramesMatch == OneFrame(SendsOn(stack), result)

\* The ack of a send that is under way, once heard and not hidden, is the one
\* the globals hold.
HeardIsHeld ==
    \A h \in heard :
        /\ result[h] # Unsent
        /\ result[h] = UnderWay /\ h \notin masked =>
             http_ack_context = h /\ http_return_code # TimedOut

\* Registrations that have returned success, and JSONs that were answered.
Succeeded == {h \in Registrations : result[h] \in {200, 202}}
Answers == {h \in Hashes : answer[h] # NoAnswer}

CounterInv ==
    /\ IsFiniteSet(Succeeded)
    /\ IsFiniteSet(Answers)
    /\ \/ Cardinality(Succeeded) > MaxThings
       \/ /\ registered_thing_counter \in 0..Cardinality(Succeeded)
          /\ process # "crashed"

-----------------------------------------------------------------------------
(* The frames of sends *)

\* SendsOn as a relation between a place and a hash.
LEMMA SendsOnMember ==
    ASSUME NEW s, NEW k, NEW h
    PROVE  <<k, h>> \in SendsOn(s) <=> k \in DOMAIN s /\ Sends(s[k]) /\ h = s[k].hash
  BY DEF SendsOn

\* A send is a place of the stack with its hash.
LEMMA SendsOnPairs ==
    ASSUME NEW s, NEW p \in SendsOn(s)
    PROVE  p = <<p[1], p[2]>> /\ p[1] \in DOMAIN s
  BY DEF SendsOn

\* Two stacks whose frames of sends are the same.
LEMMA SendsOnEqual ==
    ASSUME NEW s, NEW at,
           \A p \in at : p = <<p[1], p[2]>>,
           \A k, h : <<k, h>> \in at <=> <<k, h>> \in SendsOn(s)
    PROVE  SendsOn(s) = at
<1>1. \A p \in SendsOn(s) : p \in at
  BY SendsOnPairs
<1>2. \A p \in at : p \in SendsOn(s)
  OBVIOUS
<1> QED
  BY <1>1, <1>2

\* Pushing a frame that is none of a send, and one that is.
LEMMA PushSends ==
    ASSUME NEW s \in Seq(Frame), NEW f
    PROVE  LET pushed == SendsOn(Append(s, f)) IN
             /\ ~Sends(f) => pushed = SendsOn(s)
             /\ Sends(f) => pushed = SendsOn(s) \cup {<<Len(s) + 1, f.hash>>}
<1>1. /\ DOMAIN s = 1..Len(s) /\ Len(s) \in Nat
      /\ DOMAIN Append(s, f) = 1..(Len(s) + 1)
      /\ \A k \in 1..Len(s) : Append(s, f)[k] = s[k]
      /\ Append(s, f)[Len(s) + 1] = f
  BY LenProperties
<1>. HIDE DEF Sends
<1>2. \A k, h : <<k, h>> \in SendsOn(Append(s, f))
                  <=> \/ <<k, h>> \in SendsOn(s)
                      \/ Sends(f) /\ k = Len(s) + 1 /\ h = f.hash
  <2>1. ASSUME NEW k, NEW h
        PROVE  <<k, h>> \in SendsOn(Append(s, f))
                  <=> \/ <<k, h>> \in SendsOn(s)
                      \/ Sends(f) /\ k = Len(s) + 1 /\ h = f.hash
    <3>1. k \in 1..(Len(s) + 1) <=> k \in 1..Len(s) \/ k = Len(s) + 1
      BY <1>1
    <3>2. Len(s) + 1 \notin 1..Len(s)
      BY <1>1
    <3>. DEFINE t == Append(s, f)
    <3>3. k \in DOMAIN t <=> k \in DOMAIN s \/ k = Len(s) + 1
      BY <1>1, <3>1
    <3>4. <<k, h>> \in SendsOn(t) <=> k \in DOMAIN t /\ Sends(t[k]) /\ h = t[k].hash
      BY SendsOnMember
    <3>5. <<k, h>> \in SendsOn(s) <=> k \in DOMAIN s /\ Sends(s[k]) /\ h = s[k].hash
      BY SendsOnMember
    <3>6. k \in DOMAIN s => t[k] = s[k] /\ k # Len(s) + 1
      BY <1>1, <3>2
    <3>7. t[Len(s) + 1] = f
      BY <1>1
    <3>. HIDE DEF t
    <3>8. <<k, h>> \in SendsOn(t)
                  <=> \/ <<k, h>> \in SendsOn(s)
                      \/ Sends(f) /\ k = Len(s) + 1 /\ h = f.hash
      BY <3>3, <3>4, <3>5, <3>6, <3>7
    <3> QED
      BY <3>8 DEF t
  <2> QED
    BY <2>1
<1>3. CASE ~Sends(f)
  <2>1. \A p \in SendsOn(s) : p = <<p[1], p[2]>>
    BY SendsOnPairs
  <2>2. \A k, h : <<k, h>> \in SendsOn(s) <=> <<k, h>> \in SendsOn(Append(s, f))
    BY <1>2, <1>3
  <2>3. SendsOn(Append(s, f)) = SendsOn(s)
    BY <2>1, <2>2, SendsOnEqual
  <2> QED
    BY <1>3, <2>3
<1>4. CASE Sends(f)
  <2>. DEFINE at == SendsOn(s) \cup {<<Len(s) + 1, f.hash>>}
  <2>1. \A p \in at : p = <<p[1], p[2]>>
    BY SendsOnPairs
  <2>2. \A k, h : <<k, h>> \in at
                    <=> <<k, h>> \in SendsOn(s) \/ (k = Len(s) + 1 /\ h = f.hash)
    OBVIOUS
  <2>. HIDE DEF at
  <2>3. \A k, h : <<k, h>> \in at <=> <<k, h>> \in SendsOn(Append(s, f))
    BY <1>2, <1>4, <2>2
  <2>4. SendsOn(Append(s, f)) = at
    BY <2>1, <2>3, SendsOnEqual
  <2> QED
    BY <1>4, <2>4 DEF at
<1> QED
  BY <1>3, <1>4

\* The frames of sends below the top.
LEMMA BelowSends ==
    ASSUME StackOK(stack), stack # <<>>
    PROVE  SendsOn(Below) = {p \in SendsOn(stack) : p[1] # Len(stack)}
<1>1. stack \in Seq(Frame) /\ DOMAIN stack = 1..Len(stack) /\ Len(stack) \in Nat \ {0}
  BY LenProperties, EmptySeq DEF StackOK
<1>2. /\ DOMAIN Below = 1..(Len(stack) - 1)
      /\ \A k \in 1..(Len(stack) - 1) : Below[k] = stack[k]
  BY <1>1, SubSeqProperties, LenProperties DEF Below
<1>. DEFINE at == {p \in SendsOn(stack) : p[1] # Len(stack)}
<1>3. \A p \in at : p = <<p[1], p[2]>>
  BY SendsOnPairs
<1>4. ASSUME NEW k, NEW h PROVE <<k, h>> \in at <=> <<k, h>> \in SendsOn(Below)
  <2>1. k \in 1..(Len(stack) - 1) <=> k \in 1..Len(stack) /\ k # Len(stack)
    BY <1>1
  <2>2. <<k, h>> \in at <=> <<k, h>> \in SendsOn(stack) /\ k # Len(stack)
    OBVIOUS
  <2>. HIDE DEF at
  <2> QED
    BY <1>1, <1>2, <2>1, <2>2, SendsOnMember
<1> QED
  BY <1>3, <1>4, SendsOnEqual

\* A frame that takes the place of the top.
LEMMA ReplaceSends ==
    ASSUME StackOK(stack), stack # <<>>, NEW f
    PROVE  SendsOn([stack EXCEPT ![Len(stack)] = f])
             = SendsOn(Below) \cup IF Sends(f) THEN {<<Len(stack), f.hash>>} ELSE {}
<1>1. stack \in Seq(Frame) /\ DOMAIN stack = 1..Len(stack) /\ Len(stack) \in Nat \ {0}
  BY LenProperties, EmptySeq DEF StackOK
<1>. DEFINE s == [stack EXCEPT ![Len(stack)] = f]
            at == SendsOn(Below) \cup IF Sends(f) THEN {<<Len(stack), f.hash>>} ELSE {}
<1>2. /\ DOMAIN s = DOMAIN stack /\ Len(stack) \in DOMAIN stack
      /\ \A k \in DOMAIN stack : s[k] = IF k = Len(stack) THEN f ELSE stack[k]
  BY <1>1
<1>3. \A p \in at : p = <<p[1], p[2]>>
  BY SendsOnPairs
<1>. HIDE DEF Sends, s
<1>4. ASSUME NEW k, NEW h PROVE <<k, h>> \in at <=> <<k, h>> \in SendsOn(s)
  <2>1. <<k, h>> \in SendsOn(Below) <=> <<k, h>> \in SendsOn(stack) /\ k # Len(stack)
    BY BelowSends
  <2>2. <<k, h>> \in at <=> \/ <<k, h>> \in SendsOn(Below)
                            \/ Sends(f) /\ k = Len(stack) /\ h = f.hash
    OBVIOUS
  <2>. HIDE DEF at
  <2> QED
    BY <1>2, <2>1, <2>2, SendsOnMember
<1>. HIDE DEF at
<1>5. SendsOn(s) = at
  BY <1>3, <1>4, SendsOnEqual
<1> QED
  BY <1>5 DEF at, s

\* The top frame among them.
LEMMA TopSends ==
    ASSUME StackOK(stack), stack # <<>>
    PROVE  /\ Sends(Top) => <<Len(stack), Top.hash>> \in SendsOn(stack)
           /\ \A p \in SendsOn(stack) : p[1] = Len(stack) => Sends(Top) /\ p[2] = Top.hash
<1>1. Len(stack) \in DOMAIN stack
  BY TopAndBelow
<1>2. Sends(Top) => <<Len(stack), Top.hash>> \in SendsOn(stack)
  BY <1>1, SendsOnMember DEF Top
<1>3. ASSUME NEW p \in SendsOn(stack), p[1] = Len(stack)
      PROVE  Sends(Top) /\ p[2] = Top.hash
  <2>1. p = <<Len(stack), p[2]>>
    BY <1>3, SendsOnPairs
  <2>2. <<Len(stack), p[2]>> \in SendsOn(stack)
    BY <1>3, <2>1
  <2> QED
    BY <2>2, SendsOnMember DEF Top
<1> QED
  BY <1>2, <1>3

-----------------------------------------------------------------------------
(* Frames and results *)

\* A send that starts gets a frame, and one that ends loses it.
LEMMA StartsFrame ==
    ASSUME NEW at, NEW res \in [Hashes -> Results], OneFrame(at, res), NEW h \in Hashes,
           res[h] = Unsent, NEW n
    PROVE  OneFrame(at \cup {<<n, h>>}, [res EXCEPT ![h] = UnderWay])
<1>. DEFINE new == [res EXCEPT ![h] = UnderWay]
            more == at \cup {<<n, h>>}
<1>1. \A g \in Hashes : new[g] = IF g = h THEN UnderWay ELSE res[g]
  OBVIOUS
<1>2. \A p \in at : p[2] # h
  BY DEF OneFrame, Unsent, UnderWay
<1>3. \A p \in more : p \in at \/ p = <<n, h>>
  OBVIOUS
<1>. HIDE DEF new
<1>4. \A p \in more : p[2] \in Hashes /\ new[p[2]] = UnderWay
  BY <1>1, <1>2, <1>3 DEF OneFrame
<1>5. \A p, q \in more : p[2] = q[2] => p = q
  BY <1>2, <1>3 DEF OneFrame
<1>6. ASSUME NEW g \in Hashes, new[g] = UnderWay PROVE \E p \in more : p[2] = g
  <2>1. CASE g = h
    <3>1. <<n, h>> \in more /\ <<n, h>>[2] = g
      BY <2>1
    <3> QED
      BY <3>1
  <2>2. CASE g # h
    BY <1>1, <1>6, <2>2 DEF OneFrame
  <2> QED
    BY <2>1, <2>2
<1>. HIDE DEF more
<1>7. OneFrame(more, new)
  BY <1>4, <1>5, <1>6 DEF OneFrame
<1> QED
  BY <1>7 DEF more, new

\* The frame of a send goes as the send ends.
LEMMA EndsFrame ==
    ASSUME NEW at, NEW res, NEW new, OneFrame(at, res), NEW p \in at,
           new[p[2]] # UnderWay, \A h \in Hashes \ {p[2]} : new[h] = res[h]
    PROVE  OneFrame(at \ {p}, new)
<1>1. \A q \in at \ {p} : q[2] # p[2]
  BY DEF OneFrame
<1> QED
  BY <1>1 DEF OneFrame

\* The top frame goes, or another takes its place.
LEMMA DropTop ==
    ASSUME StackOK(stack), stack # <<>>
    PROVE  SendsOn(Below) = IF Sends(Top) THEN SendsOn(stack) \ {<<Len(stack), Top.hash>>}
                            ELSE SendsOn(stack)
<1>1. SendsOn(Below) = {p \in SendsOn(stack) : p[1] # Len(stack)}
  BY BelowSends
<1>2. \A p \in SendsOn(stack) :
        p[1] = Len(stack) => Sends(Top) /\ p = <<Len(stack), Top.hash>>
  BY TopSends, SendsOnPairs
<1>3. CASE Sends(Top)
  <2>1. \A p \in SendsOn(stack) : p[1] # Len(stack) <=> p # <<Len(stack), Top.hash>>
    BY <1>2
  <2> QED
    BY <1>1, <1>3, <2>1
<1>4. CASE ~Sends(Top)
  <2>1. \A p \in SendsOn(stack) : p[1] # Len(stack)
    BY <1>2, <1>4
  <2> QED
    BY <1>1, <1>4, <2>1
<1> QED
  BY <1>3, <1>4

\* The top frame becomes one of no send.
LEMMA ReplaceOther ==
    ASSUME StackOK(stack), stack # <<>>, NEW f, ~Sends(f),
           Replace(f)
    PROVE  SendsOn(stack') = SendsOn(Below)
<1>1. (IF Sends(f) THEN {<<Len(stack), f.hash>>} ELSE {}) = {}
  OBVIOUS
<1>2. SendsOn(Below) \cup {} = SendsOn(Below)
  OBVIOUS
<1>3. SendsOn([stack EXCEPT ![Len(stack)] = f])
        = SendsOn(Below) \cup IF Sends(f) THEN {<<Len(stack), f.hash>>} ELSE {}
  BY ReplaceSends
<1> QED
  BY <1>1, <1>2, <1>3 DEF Replace

\* Changing the top frame leaves the sends that are on.
LEMMA SwapTop ==
    ASSUME StackOK(stack), stack # <<>>, NEW f, (Sends(f) <=> Sends(Top)),
           Sends(f) => f.hash = Top.hash
    PROVE  SendsOn([stack EXCEPT ![Len(stack)] = f]) = SendsOn(stack)
<1>1. CASE Sends(Top)
  <2>1. /\ SendsOn([stack EXCEPT ![Len(stack)] = f])
             = SendsOn(Below) \cup {<<Len(stack), Top.hash>>}
        /\ SendsOn(Below) = SendsOn(stack) \ {<<Len(stack), Top.hash>>}
        /\ <<Len(stack), Top.hash>> \in SendsOn(stack)
    BY <1>1, ReplaceSends, DropTop, TopSends
  <2> QED
    BY <2>1
<1>2. CASE ~Sends(Top)
  <2>1. SendsOn([stack EXCEPT ![Len(stack)] = f]) = SendsOn(Below) \cup {}
    BY <1>2, ReplaceSends
  <2>2. SendsOn(Below) = SendsOn(stack)
    BY <1>2, DropTop
  <2> QED
    BY <2>1, <2>2
<1> QED
  BY <1>1, <1>2

\* The frame of a send that ends, whether its call returns or goes on to
\* MQTTSubscribe.
LEMMA TopEnds ==
    ASSUME TypeInv, FramesMatch, stack # <<>>, Sends(Top),
           result'[Top.hash] # UnderWay,
           \A h \in Hashes \ {Top.hash} : result'[h] = result[h],
           SendsOn(stack') = SendsOn(Below)
    PROVE  FramesMatch'
<1>. DEFINE p == <<Len(stack), Top.hash>>
<1>1. SendsOn(stack') = SendsOn(stack) \ {p} /\ p \in SendsOn(stack) /\ p[2] = Top.hash
  BY StackTyped, DropTop, TopSends
<1>. HIDE DEF p
<1>2. OneFrame(SendsOn(stack) \ {p}, result')
  BY <1>1, EndsFrame DEF FramesMatch
<1> QED
  BY <1>1, <1>2 DEF FramesMatch

-----------------------------------------------------------------------------
(* Acks that came in time *)

FoundInv == FramesMatch /\ HeardIsHeld /\ TimeoutExplained

\* Steps that touch neither sends nor acks.
LEMMA OthersFind ==
    ASSUME FoundInv, SendsOn(stack') = SendsOn(stack),
           UNCHANGED <<result, heard, masked, globals>>
    PROVE  FoundInv'
<1>1. result' = result /\ heard' = heard /\ masked' = masked
      /\ http_ack_context' = http_ack_context /\ http_return_code' = http_return_code
  BY DEF globals
<1>2. FramesMatch'
  BY <1>1 DEF FoundInv, FramesMatch
<1> QED
  BY <1>1, <1>2 DEF FoundInv, HeardIsHeld, TimeoutExplained

\* A new connection: no send is under way.
LEMMA ConnectFinds ==
    ASSUME TypeInv, FoundInv, NEW ok, Connect(ok)
    PROVE  FoundInv'
<1>1. stack = <<>> /\ UNCHANGED <<stack, result, heard, masked>>
  BY DEF Connect
<1>2. SendsOn(stack) = {}
  BY <1>1 DEF SendsOn
<1>3. \A h \in Hashes : result[h] # UnderWay
  BY <1>2 DEF FoundInv, FramesMatch, OneFrame
<1>4. heard \subseteq Hashes
  BY DEF TypeInv, TypeOK
<1> QED
  BY <1>1, <1>3, <1>4 DEF FoundInv, FramesMatch, HeardIsHeld, TimeoutExplained

\* A send that starts has not heard of an ack.
LEMMA SendFinds ==
    ASSUME TypeInv, FoundInv, NEW h \in Hashes, Send(h)
    PROVE  FoundInv'
<1>. DEFINE f == [pc |-> "publish", hash |-> h, cnt |-> 0]
            s == IF stack = <<>> THEN <<>> ELSE [stack EXCEPT ![Len(stack)].cnt = @ - 1]
<1>1. /\ result[h] = Unsent /\ result' = [result EXCEPT ![h] = UnderWay]
      /\ result \in [Hashes -> Results] /\ stack' = Append(s, f)
      /\ UNCHANGED <<heard, masked, http_ack_context, http_return_code>>
  BY DEF Send, TypeInv, TypeOK, globals
<1>2. s \in Seq(Frame) /\ SendsOn(s) = SendsOn(stack)
  <2>1. CASE stack = <<>>
    BY <2>1, EmptySeq
  <2>2. CASE stack # <<>>
    <3>. DEFINE g == [Top EXCEPT !.cnt = @ - 1]
    <3>1. Top \in Frame /\ Top.cnt > 0 /\ Top.pc = "instruction"
      BY <2>2, StackTyped, TopAndBelow DEF Send, MaySend, On
    <3>2. g \in Frame /\ g.pc = "instruction"
      BY <3>1 DEF Frame
    <3>3. ~Sends(g) /\ (Sends(g) <=> Sends(Top))
      BY <3>1, <3>2 DEF Sends
    <3>4. s = [stack EXCEPT ![Len(stack)] = g]
      BY <2>2 DEF Top
    <3>. HIDE DEF g, s
    <3>5. SendsOn(s) = SendsOn(stack)
      BY <2>2, <3>3, <3>4, StackTyped, SwapTop
    <3>6. s \in Seq(Frame)
      BY <2>2, <3>2, <3>4, StackTyped, ReplaceFrame DEF StackOK
    <3> QED
      BY <3>5, <3>6
  <2> QED
    BY <2>1, <2>2
<1>3. Sends(f) /\ f.hash = h
  BY DEF Sends
<1>. HIDE DEF f, s
<1>4. SendsOn(stack') = SendsOn(stack) \cup {<<Len(s) + 1, h>>}
  BY <1>1, <1>2, <1>3, PushSends
<1>5. FramesMatch'
  <2>1. \A n : OneFrame(SendsOn(stack) \cup {<<n, h>>}, [result EXCEPT ![h] = UnderWay])
    BY <1>1, StartsFrame DEF FoundInv, FramesMatch
  <2> QED
    BY <1>1, <1>4, <2>1 DEF FramesMatch
<1>6. \A g \in Hashes : result'[g] = IF g = h THEN UnderWay ELSE result[g]
  BY <1>1
<1>7. h \notin heard /\ heard \subseteq Hashes /\ UnderWay # TimedOut
  BY <1>1 DEF FoundInv, HeardIsHeld, TypeInv, TypeOK, UnderWay, TimedOut
<1>8. HeardIsHeld' /\ TimeoutExplained'
  BY <1>1, <1>6, <1>7 DEF FoundInv, HeardIsHeld, TimeoutExplained
<1> QED
  BY <1>5, <1>8 DEF FoundInv

\* The ends of MQTTPublish: the reset hides every ack that came before it.
LEMMA PublishFinds ==
    ASSUME TypeInv, FoundInv, PublishFails \/ PublishReturns
    PROVE  FoundInv'
<1>1. StackOK(stack) /\ stack # <<>> /\ Top.pc = "publish" /\ Sends(Top) /\ Top \in Frame
      /\ Top.hash \in Hashes /\ heard \subseteq Hashes
  BY StackTyped, TopAndBelow DEF PublishFails, PublishReturns, On, Sends, TypeInv, TypeOK
<1>2. CASE PublishFails
  <2>1. /\ result' = [result EXCEPT ![Top.hash] = -1] /\ stack' = Below
        /\ UNCHANGED <<heard, masked, http_ack_context, http_return_code>>
    BY <1>2 DEF PublishFails, Return, globals
  <2>2. -1 # UnderWay /\ -1 # Unsent /\ -1 # TimedOut
    BY DEF UnderWay, Unsent, TimedOut
  <2>3. \A h \in Hashes : result'[h] = IF h = Top.hash THEN -1 ELSE result[h]
    BY <1>1, <2>1 DEF TypeInv, TypeOK
  <2>4. FramesMatch'
    BY <1>1, <2>1, <2>2, <2>3, TopEnds DEF FoundInv
  <2>5. HeardIsHeld' /\ TimeoutExplained'
    BY <1>1, <2>1, <2>2, <2>3 DEF FoundInv, HeardIsHeld, TimeoutExplained
  <2> QED
    BY <2>4, <2>5 DEF FoundInv
<1>3. CASE PublishReturns
  <2>. DEFINE f == [Top EXCEPT !.pc = "yield"]
  <2>1. /\ stack' = [stack EXCEPT ![Len(stack)] = f]
        /\ masked' = masked \cup (Pending \cap heard)
        /\ UNCHANGED <<result, heard>>
    BY <1>3 DEF PublishReturns, Replace
  <2>2. Sends(f) /\ f.hash = Top.hash
    BY <1>1 DEF Sends, Frame
  <2>. HIDE DEF f
  <2>3. FramesMatch'
    BY <1>1, <2>1, <2>2, SwapTop DEF FoundInv, FramesMatch
  <2>4. HeardIsHeld'
    BY <1>1, <2>1 DEF FoundInv, HeardIsHeld, Pending
  <2>5. TimeoutExplained'
    BY <2>1 DEF FoundInv, TimeoutExplained
  <2> QED
    BY <2>3, <2>4, <2>5 DEF FoundInv
<1> QED
  BY <1>2, <1>3

\* handle_http_ack: the globals hold the ack that has come, and hide the one
\* that they held.
LEMMA HttpAckFinds ==
    ASSUME TypeInv, GatewayAssumption, FoundInv, NEW again, HttpAck(again)
    PROVE  FoundInv'
<1>1. /\ Head(acks) \in AckMsg
      /\ UNCHANGED <<stack, result>>
      /\ http_ack_context' = Head(acks).context /\ http_return_code' = Head(acks).code
      /\ heard' = heard \cup (Pending \cap {Head(acks).context})
      /\ masked' = (masked \cup (Pending \cap heard)) \ (Pending \cap {Head(acks).context})
      /\ heard \subseteq Hashes
  BY HeadTailProperties DEF HttpAck, TypeInv, TypeOK
<1>2. Head(acks).code # TimedOut
  BY <1>1, CodesApart DEF AckMsg, TimedOut
<1>3. \A h \in Pending : h \in Hashes /\ result[h] = UnderWay
  BY DEF Pending
<1>4. UnderWay # Unsent /\ UnderWay # TimedOut
  BY DEF UnderWay, Unsent, TimedOut
<1>5. HeardIsHeld'
  <2>1. ASSUME NEW h \in heard'
        PROVE  /\ result[h] # Unsent
               /\ result[h] = UnderWay /\ h \notin masked' =>
                    h = Head(acks).context
    <3>1. h \in Hashes
      BY <1>1, <1>3, <2>1
    <3>2. CASE h = Head(acks).context /\ h \in Pending
      BY <1>3, <1>4, <3>2
    <3>3. CASE h \in heard /\ ~(h = Head(acks).context /\ h \in Pending)
      <4>1. result[h] # Unsent
        BY <3>3 DEF FoundInv, HeardIsHeld
      <4>2. ASSUME result[h] = UnderWay, h \notin masked' PROVE FALSE
        BY <1>1, <3>1, <3>3, <4>2 DEF Pending
      <4> QED
        BY <4>1, <4>2
    <3> QED
      BY <1>1, <2>1, <3>2, <3>3
  <2> QED
    BY <1>1, <1>2, <2>1 DEF HeardIsHeld
<1>6. TimeoutExplained'
  <2>1. ASSUME NEW h \in Hashes, result[h] = TimedOut
        PROVE  h \notin heard' \ masked'
    <3>1. h \notin Pending /\ h \notin heard \ masked
      BY <1>3, <1>4, <2>1 DEF FoundInv, TimeoutExplained
    <3> QED
      BY <1>1, <3>1
  <2> QED
    BY <1>1, <2>1 DEF TimeoutExplained
<1> QED
  BY <1>1, <1>5, <1>6 DEF FoundInv, FramesMatch

\* The loop's test finds the ack that the globals hold, so a send gives up, or
\* resets the code, only if its ack has not come or was hidden.
LEMMA LoopFinds ==
    ASSUME TypeInv, GatewayAssumption, FoundInv, GotAck \/ NoAckYet
    PROVE  FoundInv'
<1>1. /\ StackOK(stack) /\ stack # <<>> /\ Sends(Top) /\ Top \in Frame /\ Top.hash \in Hashes
      /\ heard \subseteq Hashes
  BY StackTyped, TopAndBelow DEF GotAck, NoAckYet, On, Sends, TypeInv, TypeOK
<1>2. result[Top.hash] = UnderWay
  <2>1. <<Len(stack), Top.hash>> \in SendsOn(stack)
    BY <1>1, TopSends
  <2> QED
    BY <2>1 DEF FoundInv, FramesMatch, OneFrame
<1>3. CASE GotAck
  <2>1. /\ result' = [result EXCEPT ![Top.hash] = http_return_code]
        /\ UNCHANGED <<heard, masked, http_ack_context, http_return_code>>
        /\ Acknowledged
    BY <1>3 DEF GotAck, Return, globals
  <2>2. http_return_code \notin {UnderWay, Unsent, TimedOut}
    BY <2>1, CodesApart DEF Acknowledged, TypeInv, TypeOK, UnderWay, Unsent, TimedOut
  <2>3. SendsOn(stack') = SendsOn(Below)
    <3>1. CASE Registered
      <4>. DEFINE f == [Top EXCEPT !.pc = "subscribe"]
      <4>1. Replace(f) /\ ~Sends(f)
        BY <1>1, <1>3, <3>1 DEF GotAck, Sends, Frame
      <4>. HIDE DEF f
      <4>2. stack # <<>> /\ StackOK(stack)
        BY <1>1
      <4> QED
        BY <4>1, <4>2, ReplaceOther
    <3>2. CASE ~Registered
      BY <1>3, <3>2 DEF GotAck, Return
    <3> QED
      BY <3>1, <3>2
  <2>4. \A h \in Hashes : result'[h] = IF h = Top.hash THEN http_return_code ELSE result[h]
    BY <1>1, <2>1 DEF TypeInv, TypeOK
  <2>5. FramesMatch'
    BY <1>1, <2>2, <2>3, <2>4, TopEnds DEF FoundInv
  <2>6. HeardIsHeld' /\ TimeoutExplained'
    BY <1>1, <2>1, <2>2, <2>4 DEF FoundInv, HeardIsHeld, TimeoutExplained
  <2> QED
    BY <2>5, <2>6 DEF FoundInv
<1>4. CASE NoAckYet
  <2>1. /\ ~Acknowledged
        /\ masked' = masked \cup ((Pending \cap heard) \ {Top.hash})
        /\ heard' = heard
    BY <1>4 DEF NoAckYet
  <2>2. Top.hash \notin heard \ masked
    BY <1>1, <1>2, <2>1 DEF FoundInv, HeardIsHeld, Acknowledged
  <2>3. CASE NextTry = RETRIES_FOR_ACK
    <3>1. result' = [result EXCEPT ![Top.hash] = TimedOut] /\ stack' = Below
      BY <1>4, <2>3 DEF NoAckYet, Return
    <3>2. TimedOut # UnderWay /\ TimedOut # Unsent
      BY DEF TimedOut, UnderWay, Unsent
    <3>3. \A h \in Hashes : result'[h] = IF h = Top.hash THEN TimedOut ELSE result[h]
      BY <1>1, <3>1 DEF TypeInv, TypeOK
    <3>4. SendsOn(stack') = SendsOn(Below)
      BY <3>1
    <3>5. FramesMatch'
      BY <1>1, <3>2, <3>3, <3>4, TopEnds DEF FoundInv
    <3>6. HeardIsHeld'
      BY <1>1, <2>1, <3>2, <3>3 DEF FoundInv, HeardIsHeld, Pending
    <3>7. TimeoutExplained'
      BY <1>1, <2>1, <2>2, <3>3 DEF FoundInv, TimeoutExplained
    <3> QED
      BY <3>5, <3>6, <3>7 DEF FoundInv
  <2>4. CASE NextTry # RETRIES_FOR_ACK
    <3>. DEFINE f == [Top EXCEPT !.cnt = NextTry]
    <3>1. stack' = [stack EXCEPT ![Len(stack)] = f] /\ result' = result
      BY <1>4, <2>4 DEF NoAckYet, Replace
    <3>2. Sends(f) /\ (Sends(f) <=> Sends(Top)) /\ f.hash = Top.hash
      BY <1>1 DEF Sends, Frame
    <3>. HIDE DEF f
    <3>3. FramesMatch'
      <4>1. SendsOn([stack EXCEPT ![Len(stack)] = f]) = SendsOn(stack)
        BY <1>1, <3>2, SwapTop
      <4>2. SendsOn(stack') = SendsOn(stack)
        BY <3>1, <4>1
      <4> QED
        BY <3>1, <4>2 DEF FoundInv, FramesMatch
    <3>4. HeardIsHeld'
      BY <1>1, <2>1, <2>2, <3>1 DEF FoundInv, HeardIsHeld, Pending
    <3>5. TimeoutExplained'
      BY <2>1, <3>1 DEF FoundInv, TimeoutExplained
    <3> QED
      BY <3>3, <3>4, <3>5 DEF FoundInv
  <2> QED
    BY <2>3, <2>4
<1> QED
  BY <1>3, <1>4

\* Calls that are none of a send come and go above those that are.
LEMMA CallFinds ==
    ASSUME TypeInv, FoundInv,
           \/ \E ok \in BOOLEAN : SubscribeReturns(ok)
           \/ AppYield \/ AppYieldReturns \/ Instruction \/ InstructionReturns
    PROVE  FoundInv'
<1>1. StackOK(stack) /\ stack \in Seq(Frame)
      /\ UNCHANGED <<result, heard, masked, globals>>
  BY StackTyped DEF SubscribeReturns, AppYield, AppYieldReturns, Instruction,
       InstructionReturns, StackOK, platform
<1>2. ASSUME stack # <<>>, ~Sends(Top), stack' = Below PROVE SendsOn(stack') = SendsOn(stack)
  BY <1>1, <1>2, DropTop
<1>3. ASSUME NEW ok, SubscribeReturns(ok) PROVE SendsOn(stack') = SendsOn(stack)
  BY <1>2, <1>3 DEF SubscribeReturns, On, Sends
<1>4. CASE AppYield
  <2>. DEFINE f == [pc |-> "app", hash |-> NoHash, cnt |-> 0]
  <2>1. stack = <<>> /\ stack' = Append(stack, f) /\ ~Sends(f)
    BY <1>4 DEF AppYield, Sends
  <2>. HIDE DEF f
  <2> QED
    BY <1>1, <2>1, OthersFind, PushSends
<1>5. CASE AppYieldReturns
  BY <1>1, <1>2, <1>5, OthersFind DEF AppYieldReturns, On, Sends
<1>6. CASE Instruction
  <2>. PICK n \in Found :
         stack' = Append(stack, [pc |-> "instruction", hash |-> NoHash,
                                 cnt |-> subscribed * n])
    BY <1>6 DEF Instruction
  <2>. DEFINE f == [pc |-> "instruction", hash |-> NoHash, cnt |-> subscribed * n]
  <2>1. stack' = Append(stack, f) /\ ~Sends(f)
    BY DEF Sends
  <2>. HIDE DEF f
  <2> QED
    BY <1>1, <2>1, OthersFind, PushSends
<1>7. CASE InstructionReturns
  <2>1. stack # <<>> /\ Top.pc = "instruction" /\ ~Sends(Top) /\ Top \in Frame
    BY <1>1, <1>7, TopAndBelow DEF InstructionReturns, On, Sends
  <2>2. CASE Top.cnt = 0
    BY <1>1, <1>2, <1>7, <2>1, <2>2, OthersFind DEF InstructionReturns
  <2>3. CASE Top.cnt # 0
    <3>. DEFINE f == [Top EXCEPT !.cnt = @ - 1]
    <3>1. stack' = [stack EXCEPT ![Len(stack)] = f]
      BY <1>7, <2>3 DEF InstructionReturns, Replace
    <3>2. ~Sends(f) /\ (Sends(f) <=> Sends(Top))
      BY <2>1 DEF Sends, Frame
    <3>. HIDE DEF f
    <3> QED
      BY <1>1, <2>1, <3>1, <3>2, SwapTop, OthersFind
  <2> QED
    BY <2>2, <2>3
<1> QED
  BY <1>1, <1>3, <1>4, <1>5, <1>6, <1>7, OthersFind

\* The platform and the end of a connection leave sends alone.
LEMMA PlatformFinds ==
    ASSUME FoundInv, Platform \/ disconnect_datonis \/ StandsStill
    PROVE  FoundInv'
<1>1. UNCHANGED <<stack, result, heard, masked, globals>>
  BY MemoryStays
  DEF Platform, AckLost, PlatformFires, PlatformAnswers, disconnect_datonis, memory
<1> QED
  BY <1>1, OthersFind

\* FoundInv is inductive relative to TypeInv.
LEMMA NextFinds ==
    ASSUME TypeInv, GatewayAssumption, FoundInv, [Next]_vars
    PROVE  FoundInv'
<1>1. CASE GotAck \/ Ends \/ Deliveries
  BY <1>1, PublishFinds, LoopFinds, CallFinds, HttpAckFinds DEF Ends, Deliveries
<1>2. CASE AppCalls
  BY <1>2, ConnectFinds, SendFinds, PlatformFinds, CallFinds DEF AppCalls
<1>3. CASE Platform \/ StandsStill
  BY <1>3, PlatformFinds
<1> QED
  BY <1>1, <1>2, <1>3, NextCases

\* Nothing has been heard at the start.
LEMMA InitFinds ==
    ASSUME Init
    PROVE  FoundInv
<1>1. stack = <<>> /\ heard = {} /\ \A h \in Hashes : result[h] = Unsent
  BY DEF Init
<1>2. SendsOn(stack) = {}
  BY <1>1 DEF SendsOn
<1>3. Unsent # UnderWay /\ Unsent # TimedOut
  BY DEF Unsent, UnderWay, TimedOut
<1> QED
  BY <1>1, <1>2, <1>3 DEF FoundInv, FramesMatch, OneFrame, HeardIsHeld, TimeoutExplained

\* The types and FoundInv hold in every reachable state.
LEMMA FoundInvariance == Spec => [](TypeInv /\ FoundInv)
<1>1. Init => TypeInv /\ FoundInv
  BY InitTypes, InitFinds, GatewayAssumption
<1>2. TypeInv /\ FoundInv /\ [Next]_vars => (TypeInv /\ FoundInv)'
  BY NextTypes, NextFinds, GatewayAssumption
<1> QED
  BY <1>1, <1>2, PTL DEF Spec

\* encode_and_send_data gives up only if its ack did not come while it waited,
\* or came and was overwritten in the two globals before the loop looked: for
\* any number of sends and retries and any nesting of handlers.
THEOREM TimeoutExplainedHolds == Spec => []TimeoutExplained
<1>1. FoundInv => TimeoutExplained
  BY DEF FoundInv
<1> QED
  BY <1>1, FoundInvariance, PTL

-----------------------------------------------------------------------------
(* Registrations *)

\* Steps that end no send with success and answer no JSON.
LEMMA SameCounts ==
    ASSUME CounterInv, UNCHANGED <<registered_thing_counter, answer>>,
           process' = "crashed" => process = "crashed",
           \A h \in Registrations : result'[h] \in {200, 202} <=> result[h] \in {200, 202}
    PROVE  CounterInv'
<1>1. Succeeded' = Succeeded /\ Answers' = Answers
  BY DEF Succeeded, Answers
<1> QED
  BY <1>1 DEF CounterInv

\* The result of one send is set, to a code that is none of success.
LEMMA NoSuccess ==
    ASSUME GatewayAssumption, CounterInv, NEW h \in Hashes,
           result[h] \notin {200, 202},
           result'[h] \notin {200, 202} \/ h \notin Registrations,
           \A g \in Hashes \ {h} : result'[g] = result[g],
           UNCHANGED <<process, registered_thing_counter, answer>>
    PROVE  CounterInv'
<1>1. Registrations \subseteq Hashes
  BY DEF GatewayAssumption
<1> QED
  BY <1>1, SameCounts

\* A send on top of the stack has no result.
LEMMA TopUnderWay ==
    ASSUME TypeInv, FramesMatch, stack # <<>>, Sends(Top)
    PROVE  Top.hash \in Hashes /\ result[Top.hash] = UnderWay
<1>1. <<Len(stack), Top.hash>> \in SendsOn(stack)
  BY StackTyped, TopSends
<1> QED
  BY <1>1 DEF FramesMatch, OneFrame

\* A set with one more element.
LEMMA AddedOne ==
    ASSUME NEW S, NEW x, x \notin S, IsFiniteSet(S)
    PROVE  IsFiniteSet(S \cup {x}) /\ Cardinality(S \cup {x}) = Cardinality(S) + 1
  BY FS_AddElement

\* register_thing enters a thing when its registration, which had no result
\* before, has succeeded.
LEMMA GotAckCounts ==
    ASSUME TypeInv, GatewayAssumption, FramesMatch, CounterInv, GotAck
    PROVE  CounterInv'
<1>1. /\ Top.hash \in Hashes /\ result[Top.hash] = UnderWay
      /\ result' = [result EXCEPT ![Top.hash] = http_return_code]
      /\ UNCHANGED answer /\ UnderWay \notin {200, 202}
  BY TopUnderWay DEF GotAck, On, Sends, Return, platform, UnderWay
<1>2. CASE ~Registered
  <2>1. http_return_code \notin {200, 202} \/ Top.hash \notin Registrations
    BY <1>2 DEF Registered
  <2>2. UNCHANGED <<process, registered_thing_counter>>
    BY <1>2 DEF GotAck
  <2>3. \A g \in Hashes : result'[g] = IF g = Top.hash THEN http_return_code ELSE result[g]
    BY <1>1 DEF TypeInv, TypeOK
  <2> QED
    BY <1>1, <2>1, <2>2, <2>3, NoSuccess
<1>3. CASE Registered
  <2>1. /\ Top.hash \in Registrations /\ http_return_code \in {200, 202}
        /\ EnterThing
    BY <1>3 DEF GotAck, Registered
  <2>2. \A g \in Hashes : result'[g] = IF g = Top.hash THEN http_return_code ELSE result[g]
    BY <1>1 DEF TypeInv, TypeOK
  <2>3. /\ Succeeded' = Succeeded \cup {Top.hash} /\ Top.hash \notin Succeeded
        /\ Answers' = Answers
    <3>1. Registrations \subseteq Hashes
      BY DEF GatewayAssumption
    <3> QED
      BY <1>1, <2>1, <2>2, <3>1 DEF Succeeded, Answers
  <2>4. IsFiniteSet(Succeeded') /\ Cardinality(Succeeded') = Cardinality(Succeeded) + 1
    <3>1. IsFiniteSet(Succeeded)
      BY DEF CounterInv
    <3> QED
      BY <2>3, <3>1, AddedOne
  <2>5. Cardinality(Succeeded) \in Nat /\ MaxThings \in Nat
    BY FS_CardinalityType DEF CounterInv, GatewayAssumption
  <2>6. CASE Cardinality(Succeeded) >= MaxThings
    BY <2>3, <2>4, <2>5, <2>6 DEF CounterInv
  <2>7. CASE Cardinality(Succeeded) < MaxThings
    <3>1. registered_thing_counter \in 0..Cardinality(Succeeded) /\ process # "crashed"
      BY <2>5, <2>7 DEF CounterInv
    <3>2. registered_thing_counter \in 0..(MaxThings - 1)
      BY <2>5, <2>7, <3>1
    <3>3. registered_thing_counter' = registered_thing_counter + 1 /\ UNCHANGED process
      BY <2>1, <3>2 DEF EnterThing
    <3>4. registered_thing_counter' \in 0..Cardinality(Succeeded')
      BY <2>4, <2>5, <3>1, <3>3
    <3> QED
      BY <2>3, <2>4, <3>1, <3>3, <3>4 DEF CounterInv
  <2> QED
    BY <2>5, <2>6, <2>7
<1> QED
  BY <1>2, <1>3

\* The platform answers one JSON more.
LEMMA PlatformCounts ==
    ASSUME TypeInv, CounterInv, UNCHANGED process,
           NEW h \in Hashes, NEW reply, PlatformAnswers(h, reply)
    PROVE  CounterInv'
<1>1. /\ UNCHANGED <<result, registered_thing_counter>>
      /\ \A g \in Hashes : g # h => answer'[g] = answer[g]
  BY DEF PlatformAnswers, things, TypeInv, TypeOK
<1>2. Answers' \subseteq Answers \cup {h} /\ Succeeded' = Succeeded
  BY <1>1 DEF Answers, Succeeded
<1>3. IsFiniteSet(Answers')
  BY <1>2, FS_AddElement, FS_Subset DEF CounterInv
<1> QED
  BY <1>1, <1>2, <1>3 DEF CounterInv

\* CounterInv is inductive relative to TypeInv and FoundInv.
LEMMA NextCounts ==
    ASSUME TypeInv, GatewayAssumption, FoundInv, CounterInv, [Next]_vars
    PROVE  CounterInv'
<1>. DEFINE Same == /\ UNCHANGED <<result, registered_thing_counter, answer>>
                    /\ process' = "crashed" => process = "crashed"
<1>1. CASE Same
  BY <1>1, SameCounts
<1>2. CASE GotAck
  BY <1>2, GotAckCounts DEF FoundInv
<1>3. ASSUME NEW h \in Hashes, Send(h), UNCHANGED process PROVE CounterInv'
  <2>1. /\ result[h] \notin {200, 202} /\ UnderWay \notin {200, 202}
        /\ result' = [result EXCEPT ![h] = UnderWay]
        /\ UNCHANGED <<process, registered_thing_counter, answer>>
    BY <1>3 DEF Send, Unsent, UnderWay, things
  <2>2. \A g \in Hashes : result'[g] = IF g = h THEN UnderWay ELSE result[g]
    BY <2>1 DEF TypeInv, TypeOK
  <2> QED
    BY <2>1, <2>2, NoSuccess
<1>4. CASE PublishFails /\ UNCHANGED process
  <2>1. stack # <<>> /\ Sends(Top)
    BY <1>4 DEF PublishFails, On, Sends
  <2>2. Top.hash \in Hashes /\ result[Top.hash] \notin {200, 202}
    BY <2>1, TopUnderWay DEF FoundInv, UnderWay
  <2>3. /\ -1 \notin {200, 202} /\ result' = [result EXCEPT ![Top.hash] = -1]
        /\ UNCHANGED <<process, registered_thing_counter, answer>>
    BY <1>4 DEF PublishFails, Return, things, platform
  <2>4. \A g \in Hashes : result'[g] = IF g = Top.hash THEN -1 ELSE result[g]
    BY <2>2, <2>3 DEF TypeInv, TypeOK
  <2> QED
    BY <2>2, <2>3, <2>4, NoSuccess
<1>5. CASE NoAckYet /\ UNCHANGED process
  <2>1. stack # <<>> /\ Sends(Top)
    BY <1>5 DEF NoAckYet, On, Sends
  <2>2. Top.hash \in Hashes /\ result[Top.hash] \notin {200, 202}
    BY <2>1, TopUnderWay DEF FoundInv, UnderWay
  <2>3. CASE result' = [result EXCEPT ![Top.hash] = TimedOut]
    <3>1. /\ TimedOut \notin {200, 202}
          /\ UNCHANGED <<process, registered_thing_counter, answer>>
      BY <1>5 DEF NoAckYet, things, platform, TimedOut
    <3>2. \A g \in Hashes : result'[g] = IF g = Top.hash THEN TimedOut ELSE result[g]
      BY <2>2, <2>3 DEF TypeInv, TypeOK
    <3> QED
      BY <2>2, <3>1, <3>2, NoSuccess
  <2>4. CASE result' # [result EXCEPT ![Top.hash] = TimedOut]
    BY <1>1, <1>5, <2>4 DEF NoAckYet, Return, things, platform
  <2> QED
    BY <2>3, <2>4
<1>6. ASSUME NEW h \in Hashes, NotParsed(h), UNCHANGED process PROVE CounterInv'
  BY <1>6, PlatformCounts DEF NotParsed
<1>7. ASSUME NEW h \in Hashes, NEW c \in Codes, Answered(h, c), UNCHANGED process
      PROVE  CounterInv'
  BY <1>7, PlatformCounts DEF Answered
<1>8. CASE Platform /\ UNCHANGED process
  <2>1. AckLost \/ PlatformFires => Same
    BY <1>8 DEF AckLost, PlatformFires, things
  <2> QED
    BY <1>1, <1>6, <1>7, <1>8, <2>1, PlatformCases
<1>9. CASE Ends /\ UNCHANGED process
  <2>1. PublishReturns \/ AppYieldReturns \/ InstructionReturns => Same
    BY <1>9 DEF PublishReturns, AppYieldReturns, InstructionReturns, things, platform
  <2>2. (\E ok \in BOOLEAN : SubscribeReturns(ok)) => Same
    BY <1>9 DEF SubscribeReturns, platform
  <2> QED
    BY <1>1, <1>4, <1>5, <1>9, <2>1, <2>2 DEF Ends
<1>10. CASE (AppCalls \/ Deliveries) /\ UNCHANGED process
  <2>1. CASE ~\E h \in Hashes : Send(h)
    <3>1. Same
      BY <1>10, <2>1 DEF AppCalls, Deliveries, Instruction, HttpAck, AppYield,
           disconnect_datonis, Connect, things, platform
    <3> QED
      BY <1>1, <3>1
  <2> QED
    BY <1>3, <1>10, <2>1
<1>11. CASE StandsStill
  <2>1. UNCHANGED <<result, registered_thing_counter, answer>>
    BY <1>11, MemoryStays DEF memory, things, platform
  <2>2. CASE ReadsWild
    <3>1. IsFiniteSet(Succeeded) /\ Cardinality(Succeeded) \in Nat /\ MaxThings \in Nat
      BY FS_CardinalityType DEF CounterInv, GatewayAssumption
    <3>2. Cardinality(Succeeded) > MaxThings
      BY <2>2, <3>1 DEF ReadsWild, CounterInv
    <3>3. Succeeded' = Succeeded /\ Answers' = Answers
      BY <2>1 DEF Succeeded, Answers
    <3> QED
      BY <3>2, <3>3 DEF CounterInv
  <2>3. CASE ~ReadsWild
    <3>1. process' = "crashed" => process = "crashed"
      BY <1>11, <2>3 DEF StandsStill, Hangs, GoesOn, vars
    <3> QED
      BY <1>1, <2>1, <3>1
  <2> QED
    BY <2>2, <2>3
<1> QED
  BY <1>2, <1>8, <1>9, <1>10, <1>11, NextCases

\* Nothing has been counted at the start.
LEMMA InitCounts ==
    ASSUME Init
    PROVE  CounterInv
<1>1. \A h \in Hashes : result[h] = Unsent /\ answer[h] = NoAnswer
  BY DEF Init
<1>2. Answers = {} /\ registered_thing_counter = 0 /\ process # "crashed"
  BY <1>1 DEF Answers, Init
<1>3. Succeeded = {}
  BY <1>1, GatewayAssumption DEF Succeeded, Unsent, GatewayAssumption
<1> QED
  BY <1>2, <1>3, FS_EmptySet DEF CounterInv

\* A successful result is the platform's answer, so there are as many of these.
LEMMA SuccessIsAccepted ==
    ASSUME TypeInv, GatewayAssumption, AnswerIsOurs, CounterInv
    PROVE  RegisteredWasAccepted
<1>1. Registrations \subseteq Hashes
  BY DEF GatewayAssumption
<1>2. Succeeded \subseteq Accepted
  <2>1. ASSUME NEW h \in Registrations, result[h] \in {200, 202}
        PROVE  answer[h].context = h /\ answer[h].code = result[h]
    <3>1. result[h] \in Codes
      BY <1>1, <2>1 DEF TypeInv, TypeOK, Results, Unsent, UnderWay, TimedOut
    <3>2. answer[h] = [context |-> h, code |-> result[h]]
      BY <1>1, <2>1, <3>1 DEF AnswerIsOurs
    <3> QED
      BY <3>2
  <2> QED
    BY <2>1 DEF Succeeded, Accepted
<1>3. Accepted \subseteq Answers
  BY <1>1 DEF Accepted, Answers, NoAnswer
<1>4. IsFiniteSet(Accepted) /\ Cardinality(Succeeded) <= Cardinality(Accepted)
  BY <1>2, <1>3, FS_Subset DEF CounterInv
<1>5. Cardinality(Succeeded) \in Nat /\ Cardinality(Accepted) \in Nat
  BY <1>4, FS_CardinalityType DEF CounterInv
<1>6. registered_thing_counter \in Int /\ MaxThings \in Nat
  BY DEF TypeInv, TypeOK, GatewayAssumption
<1> QED
  BY <1>4, <1>5, <1>6 DEF CounterInv, RegisteredWasAccepted

\* As long as the platform has accepted no more registrations than the array has
\* entries, registered_things holds no thing that it did not accept and none
\* twice for one registration, and nothing behind the array is touched.
THEOREM RegisteredWasAcceptedHolds == Spec => []RegisteredWasAccepted
<1>1. Init => CounterInv
  BY InitCounts
<1>2. TypeInv /\ FoundInv /\ CounterInv /\ [Next]_vars => CounterInv'
  BY NextCounts, GatewayAssumption
<1>3. TypeInv /\ AnswerIsOurs /\ CounterInv => RegisteredWasAccepted
  BY SuccessIsAccepted, GatewayAssumption
<1> QED
  BY <1>1, <1>2, <1>3, FoundInvariance, AnswerIsOursHolds, PTL DEF Spec
=============================================================================
