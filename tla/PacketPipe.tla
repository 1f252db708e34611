------------------------------ MODULE PacketPipe ------------------------------
(***************************************************************************)
(* What one direction of an MQTT connection is for the code above the      *)
(* network: packets are taken whole, in the order they were put in, each   *)
(* once.  MqttLink's variable "down" is such a pipe.                       *)
(***************************************************************************)
EXTENDS Naturals, Sequences

CONSTANT Packet

VARIABLES put, taken        \* all packets put in and taken out so far

Init == put = <<>> /\ taken = <<>>

Put(p) == put' = Append(put, p) /\ UNCHANGED taken

Take ==
    /\ Len(taken) < Len(put)
    /\ taken' = Append(taken, put[Len(taken) + 1])
    /\ UNCHANGED put

Next == Take \/ \E p \in Packet : Put(p)
=============================================================================
