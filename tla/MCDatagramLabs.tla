--------------------------- MODULE MCDatagramLabs ---------------------------
(* Instances of DatagramLabs for TLC. *)
EXTENDS DatagramLabs
AllLabs == DOMAIN Lab
=============================================================================
