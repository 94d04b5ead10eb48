----------------------------- MODULE MCPrograms -----------------------------
(* Instances of Programs for TLC. *)
EXTENDS Programs
AllLabs == DOMAIN Lab
==============================================================================
