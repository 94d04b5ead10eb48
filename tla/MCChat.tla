------------------------------- MODULE MCChat -------------------------------
(* Instances of Chat for TLC: "#END" is made of two units and fills the    *)
(* buffer; the other line has the same units the other way round, so that  *)
(* after a short recv the end of one such line and the beginning of the    *)
(* next are taken for "#END".  A fresh stack holds that line too.          *)
EXTENDS Chat

Halves == {"#E", "ND"}
TheWord == <<"#E", "ND">>
Another == <<"ND", "#E">>
Typed == [p \in Peers |-> IF p = "client" THEN {TheWord, Another} ELSE {TheWord}]
=============================================================================
