------------------------------ MODULE MCGateway ------------------------------
(* Values for model checking Gateway: registrations, and sends of which any may
   be made by the application or by its instruction handler. *)
EXTENDS Gateway, TLC

CONSTANTS reg, reg2, h1, h2
MCHalves == {-7, 9}
Symmetry == Permutations(Registrations) \cup Permutations(Hashes \ Registrations)
=============================================================================
