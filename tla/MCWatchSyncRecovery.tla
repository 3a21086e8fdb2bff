------------------------ MODULE MCWatchSyncRecovery ------------------------
(* WatchSyncRecovery on small instances.                                   *)
EXTENDS WatchSyncRecovery, TLC

CONSTANTS r1, notes, v1, v2, d1, d2

OneRecord  == {r1}
OneField   == {notes}
TwoValues  == {v1, v2}
OneDevice  == {d1}
TwoDevices == {d1, d2}
=============================================================================
