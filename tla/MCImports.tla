------------------------------ MODULE MCImports ------------------------------
(* What replaces a library, on small instances.                             *)
EXTENDS Imports, TLC

CONSTANTS a, b, v, w, k1, k2, i1, me, other

OneRec    == {a}
OneVersion == {v}
Versions  == {v, w}
Tokens    == {k1, k2}
Symmetry  == Permutations(Versions) \cup Permutations(Tokens)

OneId    == {i1}
Devices  == {me, other}
OneDevice == {me}
Fields   == {"title"}
Values   == {1, 2}

Libraries == {a, b}
Sizes == [c \in Libraries |-> IF c = a THEN 1 ELSE 3]
Faults == {"copy", "verify", "queue", "rotate"}
Refused == {"copy", "verify", "queue"}
==============================================================================
