----------------------------- MODULE MCForkChat -----------------------------
(* Instances of ForkChat for TLC: a frame is a line in its first unit and  *)
(* the NULs after it.                                                      *)
EXTENDS ForkChat

OneLine == {<<"hi", "NUL">>}
=============================================================================
