---------------------------- MODULE MCGroupServer ----------------------------
(* Instances of GroupServer for TLC. *)
EXTENDS GroupRoom, TLC

(* Clients are interchangeable: no action and no invariant names one. *)
ClientSymmetry == Permutations(Clients)

(* Two shouts meet at the mutex: two lines, or a line and an echo.  TLC     *)
(* looks no further where a third is on its way.                           *)
FewShouts == sent + echoes <= 2
==============================================================================
