----------------------------- MODULE MCMqttSystem -----------------------------
(* Values for model checking MqttSystem: one instruction topic and one ack
   topic, and messages of the QoS their names end in. *)
EXTENDS MqttSystem, TLC

CONSTANTS instr, httpAck, mA1, mA2, mB2, mC2, mH2

MCQos == [m \in Msgs |-> CASE m = mA1 -> 1 [] OTHER -> 2]
MCTopic == [m \in Msgs |-> IF m = mH2 THEN httpAck ELSE instr]
MCTopicLen == [t \in Topics |-> IF t = instr THEN 2 ELSE 1]

\* Sound where all messages have one topic and one QoS.
AnyMessage == Permutations(Msgs)
=============================================================================
