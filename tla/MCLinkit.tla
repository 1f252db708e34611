------------------------------ MODULE MCLinkit ------------------------------
(***************************************************************************)
(* Linkit for TLC: two slots, so that the gateway, the connection to the   *)
(* IoT server and a client of the listening port compete for them.         *)
(***************************************************************************)
EXTENDS Linkit

MCHttpPorts == 1 .. 2
=============================================================================
