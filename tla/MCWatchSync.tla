---------------------------- MODULE MCWatchSync ----------------------------
(* WatchSync on small instances.                                           *)
EXTENDS WatchSync, TLC

CONSTANTS r1, notes, rating, v1, v2, v3, d1, d2

OneRecord  == {r1}
OneField   == {notes}
TwoFields  == {notes, rating}
TwoValues  == {v1, v2}
ThreeValues == {v1, v2, v3}
OneDevice  == {d1}
TwoDevices == {d1, d2}
Symmetry   == Permutations(TwoDevices) \cup Permutations(TwoValues)

(* A later starting point: d1 created the record and both devices have it. *)
SharedVersionOf(F) ==
  [side |-> [id \in Id |-> RecordEntity([f |-> [x \in F |-> v1], locked |-> FALSE,
                                        rev |-> 1, actor |-> d1])],
   revision |-> 1, commit |-> 1, parent |-> None, writer |-> d1]

SharedInitOf(F) ==
  LET SharedVersion == SharedVersionOf(F) IN
  /\ pass = [d \in Device |-> Idle]
  /\ wire = {}
  /\ reply = [d \in Device |-> None]
  /\ db = [d \in Device |-> [EmptyDb EXCEPT !.side = SharedVersion.side, !.gen = 1,
                                           !.dirty = 1, !.baseline = SharedVersion]]
  /\ published = <<SharedVersion>>
  /\ lastCommit = 1

SharedInit == SharedInitOf(Field)
SharedSpec == SharedInit /\ [][Next]_vars
=============================================================================
