------------------------- MODULE WatchSyncRecovery -------------------------
(***************************************************************************)
(* WatchSync with recovery points (src-tauri/src/recovery_points.rs): the  *)
(* user, and a commit that is about to change the library, save a copy of  *)
(* the whole database; the user may put any copy back at any moment, while *)
(* a sync pass is running too (no caller of restore_recovery_point looks   *)
(* at the pass).  The copy holds the settings table, so the generation,    *)
(* the baseline, the outbox and the conflicts go back with the library.    *)
(***************************************************************************)
EXTENDS WatchSync

CONSTANT MaxPoints  \* MAX_AUTOMATIC_POINTS

MaxPointsAssumption == MaxPoints \in Nat \ {0}

VARIABLE points     \* points[d]: the copies of d's database, oldest first

allVars == <<vars, points>>

RecoveryInit == Init /\ points = [d \in Device |-> <<>>]

(* create_raw, then rotate                                                 *)
Saved(d, seq) ==
  LET all == Append(seq, db[d])
  IN  IF Len(all) > MaxPoints THEN Tail(all) ELSE all

CreatePoint(d) ==
  /\ points' = [points EXCEPT ![d] = Saved(d, @)]
  /\ UNCHANGED vars

(* Deviation: the restored library is not queued for publication.          *)
RequeuedQuietly(x) == [x EXCEPT !.gen = @ + 1, !.pending = FALSE]

(* The current database is saved first, then the copy replaces it and is   *)
(* queued for publication.                                                 *)
Requeued(x) == [x EXCEPT !.gen = @ + 1, !.pending = TRUE, !.dirty = x.gen + 1]

RestorePoint(d, i) ==
  /\ db[d].gen < MaxGen
  /\ points' = [points EXCEPT ![d] = Saved(d, @)]
  /\ db' = [db EXCEPT ![d] = Requeued(points[d][i])]
  /\ UNCHANGED <<pass, wire, reply, published, lastCommit>>

(* A commit that changes the library saves it first.                       *)
CommitWithPoint(d) ==
  /\ CommitPass(d)
  /\ points' = IF db'[d].side # db[d].side THEN [points EXCEPT ![d] = Saved(d, @)] ELSE points

RecoveryNext ==
  \/ \E d \in Device :
       \/ CreatePoint(d)
       \/ \E i \in DOMAIN points[d] : RestorePoint(d, i)
       \/ CommitWithPoint(d)
       \/ /\ \/ LocalWrite(d) \/ StartPass(d) \/ Fetch(d) \/ AskETag(d) \/ Publish(d)
             \/ ReadReply(d) \/ Verify(d) \/ Abort(d)
          /\ UNCHANGED points
  \/ \E put \in wire : Serve(put) /\ UNCHANGED points

RecoverySpec == RecoveryInit /\ [][RecoveryNext]_allVars
-----------------------------------------------------------------------------
(* With one device all that the cloud has comes from this library, so the  *)
(* commit of a pass that read it has nothing to change in it; what a       *)
(* restore brought back, and queued, stays (restore, commit).              *)
OnlyDeviceKeepsItsLibrary ==
  [][\A d \in Device :
       Device = {d} /\ CommitWithPoint(d) /\ pass[d].snap.side = db[d].side
         => db'[d].side = db[d].side]_allVars
=============================================================================
