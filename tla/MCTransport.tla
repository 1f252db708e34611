------------------------------ MODULE MCTransport ------------------------------
(* Bodies of every length up to two digits of base 2, with bytes that read as
   headers and as lengths when the reader is out of step. *)
EXTENDS Transport

MCBodies == {<<>>, <<1>>, <<3, 0>>, <<2, 1, 3>>}
MCFrames == {FrameOf([type |-> 2, body |-> b]) : b \in {<<>>, <<3, 0>>}}
=============================================================================
