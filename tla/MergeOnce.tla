----------------------------- MODULE MergeOnce -----------------------------
(***************************************************************************)
(* One entity under mergeSyncStates, seen from one device.  The initial    *)
(* state is any base, local and remote entry of the entity; Adopt is a     *)
(* sync that goes through undisturbed: the device stores the local side,   *)
(* the cloud file holds the remote side, which becomes the next base.      *)
(* The properties say what a user relies on when two devices edited the    *)
(* same record: no edit and no deletion disappears without a conflict.     *)
(***************************************************************************)
EXTENDS SyncMerge

CONSTANT TopRev    \* bound on the revisions of the entities merged at first

ASSUME TopRevAssumption == TopRev \in Nat

VARIABLES base, local, remote,   \* the entries of the three sides
          frozen,                \* the unresolved conflict of the id, or None
          device,                \* the device that merges
          synced                 \* a sync has completed, nothing was edited since

vars == <<base, local, remote, frozen, device, synced>>

SmallRecord == [f : [Field -> Value], locked : BOOLEAN, rev : 1 .. TopRev, actor : Device]
SmallTomb   == [rev : 0 .. TopRev, actor : Device]
SmallEntity == {Absent} \cup {RecordEntity(r) : r \in SmallRecord}
                        \cup {TombEntity(t) : t \in SmallTomb}

Result == MergeEntity(base, local, remote, frozen, device)

Init ==
  /\ base \in SmallEntity /\ local \in SmallEntity /\ remote \in SmallEntity
  /\ device \in Device
  /\ frozen = None
  /\ synced = FALSE

(* Deviation: the conflicts of the merge are not stored.                   *)
AdoptNoConflicts ==
  /\ local' = Result.local /\ remote' = Result.remote /\ base' = Result.remote
  /\ frozen' = None
  /\ synced' = TRUE
  /\ UNCHANGED device

Adopt ==
  /\ local'  = Result.local
  /\ remote' = Result.remote
  /\ base'   = Result.remote
  /\ frozen' = Result.conflict
  /\ synced' = TRUE
  /\ UNCHANGED device

Next == Adopt

Spec == Init /\ [][Next]_vars

-----------------------------------------------------------------------------
TypeOK ==
  /\ base \in Entity /\ local \in Entity /\ remote \in Entity
  /\ frozen \in Conflict \cup {None}
  /\ device \in Device
  /\ synced \in BOOLEAN

(* What each side says of the entity, and whether it moved since the base. *)
Base0   == EntityOf(base, Absent)
Local0  == EntityOf(local, Base0)
Remote0 == EntityOf(remote, Base0)

(* A merge without a conflict leaves both sides with the same entity; a    *)
(* merge with one leaves each side exactly what it had, so that the        *)
(* conflict centre can still offer both (the comment above mergeSyncStates *)
(* at syncMerge.ts:173-176).                                               *)
SplitOrAgree ==
  IF Result.conflict = None THEN Result.local = Result.remote
  ELSE Result.local = Local0 /\ Result.remote = Remote0

(* When three records merge silently, every field one side changed has     *)
(* that side's value, for the lock flag too: of two edits of one record    *)
(* neither is lost.                                                        *)
NoEditLost ==
  ( /\ Result.conflict = None
    /\ Base0.rec # None /\ Local0.rec # None /\ Remote0.rec # None )
  => LET merged == Result.local.rec
     IN  /\ merged # None
         /\ \A side \in {Local0.rec, Remote0.rec} :
              /\ \A x \in Field : side.f[x] # Base0.rec.f[x] => merged.f[x] = side.f[x]
              /\ side.locked # Base0.rec.locked => merged.locked = side.locked
         /\ \A x \in Field :
              merged.f[x] \in {Local0.rec.f[x], Remote0.rec.f[x]}

(* A deletion on one side never silently removes a record that the other   *)
(* side edited, and an edit never silently revives a record that the other *)
(* side deleted.                                                           *)
NoSilentDeletion ==
  ( /\ Local0 # Base0 /\ Remote0 # Base0
    /\ (Local0.rec # None) # (Remote0.rec # None) )
  => Result.conflict # None

(* A record that was locked and changed here is neither overwritten by nor *)
(* published over a remote change (syncMerge.test.mjs, "locked local       *)
(* records are never overwritten or force-published").                     *)
LockedChangeStaysHere ==
  ( /\ IsLocked(Local0) /\ Local0 # Base0 /\ Remote0 # Base0
    /\ (Remote0.rec # None => ~SameBusiness(Local0.rec, Remote0.rec)) )
  => /\ Result.conflict # None
     /\ Result.local = Local0 /\ Result.remote = Remote0

(* Two devices that merge the same pair of versions, each being the local  *)
(* side of its own merge, come to the same verdict and to the same         *)
(* business content, unless exactly one of the versions is locked.         *)
Mirror ==
  (IsLocked(Local0) <=> IsLocked(Remote0)) =>
     LET there == MergeEntity(base, remote, local, None, device)
     IN  frozen = None =>
           /\ (Result.conflict = None) = (there.conflict = None)
           /\ Result.conflict = None =>
                /\ (Result.local.rec = None) = (there.local.rec = None)
                /\ Result.local.rec # None => SameBusiness(Result.local.rec, there.local.rec)

(* A sync right after a completed sync finds nothing to do: nothing is     *)
(* written to the file again, the library stays as it is and an open       *)
(* conflict stays open.  Otherwise two devices could publish for ever.     *)
SecondSyncIsSilent ==
  synced => /\ Result.local = local
            /\ Result.remote = remote
            /\ Result.conflict = frozen
=============================================================================
