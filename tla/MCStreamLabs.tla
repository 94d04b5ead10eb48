---------------------------- MODULE MCStreamLabs ----------------------------
(* Instances of StreamLabs for TLC. *)
EXTENDS StreamLabs
AllLabs == DOMAIN Lab
=============================================================================
