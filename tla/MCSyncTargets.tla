--------------------------- MODULE MCSyncTargets ---------------------------
(* The targets of a desktop and of an Android device on small instances.   *)
EXTENDS Targets, TLC

CONSTANTS u1, anna, otto, good, bad, x

Urls      == {u1}
Users     == {anna, otto}
Passwords == {good, bad}
OneWord   == {good}
OneItem   == {x}
Symmetry  == Permutations(Users)
=============================================================================
