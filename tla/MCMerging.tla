------------------------------ MODULE MCMerging ------------------------------
(* What two devices merge, on small instances.                              *)
EXTENDS Merging, TLC

CONSTANTS notes, rating, v1, v2, d1, d2, e1, e2, r1

MCField  == {notes, rating}
MCValue  == {v1, v2}
MCDevice == {d1, d2}
\* The devices of the history are alike.
TwoDevices == {e1, e2}
MCSymmetry == Permutations(TwoDevices)

\* d1 created the collection both devices start with; the devices of the
\* collections have names of their own, since they are not alike.
Phones == {"one", "other"}
OneCid == {1}
OneRec == {r1}
Names == 1..3
OneName == 1 :> {1, 3}
JustOne == 1 :> "one"
OneShared == 1 :> 1
OneFiled == <<1, r1>> :> 0
==============================================================================
