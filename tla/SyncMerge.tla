----------------------------- MODULE SyncMerge -----------------------------
(***************************************************************************)
(* The three-way merge of one library entity, src/shared/lib/syncMerge.ts. *)
(*                                                                         *)
(* mergeSyncStates merges two libraries (the device's and the cloud        *)
(* file's) against the last common state, one entity id at a time and      *)
(* independently of the others; MergeEntity is the body of its loop.       *)
(*                                                                         *)
(* A record is its business fields, its lock flag (a business field the    *)
(* merge also tests), its revision and the device that wrote the revision. *)
(* The time stamps createdAt and updatedAt are abstracted: SYSTEM_FIELDS   *)
(* never decides a field merge, and a (rev, revActor) pair stands for the  *)
(* time stamp of the write that produced it.                               *)
(***************************************************************************)
EXTENDS Integers

CONSTANTS Field,    \* business fields other than isLocked
          Value,    \* values of a business field
          Device,   \* device ids, the values of revActor and writerId
          None      \* null / undefined

Record    == [f : [Field -> Value], locked : BOOLEAN, rev : Nat, actor : Device]
Tombstone == [rev : Nat, actor : Device]

(* The database may hold a record and a tombstone of one id (see the       *)
(* locked records of the commit), a merged entity holds at most one.       *)
Entity == [rec : Record \cup {None}, tomb : Tombstone \cup {None}]
Absent == [rec |-> None, tomb |-> None]
RecordEntity(r) == [rec |-> r, tomb |-> None]
TombEntity(t)   == [rec |-> None, tomb |-> t]

ConflictKind == {"edit-edit", "locked", "delete-edit"}
Conflict == [kind   : ConflictKind,
             based  : BOOLEAN,              \* the conflict has a base record
             local  : Record \cup {None},
             remote : Record \cup {None}]

(* None is a value of its own.                                             *)
ASSUME NoneAssumption ==
  None \notin Nat /\ None \notin Record /\ None \notin Tombstone /\ None \notin Conflict

MergeResult == [local : Entity, remote : Entity, conflict : Conflict \cup {None}]

-----------------------------------------------------------------------------
(* What a side says of an id; a side that says nothing inherits the base.  *)
EntityOf(e, base) ==
  IF e.rec # None THEN RecordEntity(e.rec)
  ELSE IF e.tomb # None THEN TombEntity(e.tomb)
  ELSE base

IsLocked(e) == e.rec # None /\ e.rec.locked

ChangedFields(base, r) == {x \in Field : base.f[x] # r.f[x]}

SameBusiness(a, b) == a.f = b.f /\ a.locked = b.locked

RevOf(x) == IF x = None THEN 0 ELSE x.rev
MaxOf(m, n) == IF m >= n THEN m ELSE n
MaxRev(base, local, remote) ==
  LET top(e) == MaxOf(RevOf(e.rec), RevOf(e.tomb))
  IN  MaxOf(top(base), MaxOf(top(local), top(remote)))

(* Deviation: only a change of every field at once is a clash.             *)
ClashingFieldsAll(base, local, remote) ==
  IF ChangedFields(base, local) = Field THEN ChangedFields(base, remote) ELSE {}

(* Fields both sides changed to different values.  isLocked cannot be one: *)
(* two changes of a flag agree.                                            *)
ClashingFields(base, local, remote) ==
  {x \in ChangedFields(base, local) \cap ChangedFields(base, remote) :
      local.f[x] # remote.f[x]}

(* Deviation: the later revision wins as a whole.                          *)
MergeRecordsLaterWins(base, local, remote, device) ==
  [IF local.rev >= remote.rev THEN local ELSE remote EXCEPT !.rev = @ + 1, !.actor = device]

MergeRecords(base, local, remote, device) ==
  [f      |-> [x \in Field |-> IF x \in ChangedFields(base, remote) THEN remote.f[x]
                               ELSE local.f[x]],
   locked |-> IF remote.locked # base.locked THEN remote.locked ELSE local.locked,
   rev    |-> MaxOf(base.rev, MaxOf(local.rev, remote.rev)) + 1,
   actor  |-> device]

DeletionOf(base, local, remote, device) ==
  [rev |-> MaxRev(base, local, remote) + 1, actor |-> device]

(* Deviation: the two versions are stored the wrong way round.             *)
ConflictOfSwapped(kind, base, local, remote) ==
  [kind |-> kind, based |-> base.rec # None, local |-> remote.rec, remote |-> local.rec]

ConflictOf(kind, base, local, remote) ==
  [kind |-> kind, based |-> base.rec # None, local |-> local.rec, remote |-> remote.rec]

-----------------------------------------------------------------------------
Agree(e)          == [local |-> e, remote |-> e, conflict |-> None]

(* Deviation: the local side of a conflict is published.                   *)
SplitForced(l, r, c) == [local |-> l, remote |-> l, conflict |-> c]

Split(l, r, c) == [local |-> l, remote |-> r, conflict |-> c]

(* Deviations: the remote side wins; a deletion wins over an edit; the     *)
(* lock is not looked at.                                                  *)
MergeBothChangedRemoteWins(base, local, remote, device) == Agree(remote)
MergeBothChangedDeletionWins(base, local, remote, device) ==
  IF local.rec = None \/ remote.rec = None
  THEN Agree(TombEntity(DeletionOf(base, local, remote, device)))
  ELSE Split(local, remote, ConflictOf("edit-edit", base, local, remote))
MergeBothChangedUnlocked(base, local, remote, device) ==
  IF /\ base.rec # None /\ local.rec # None /\ remote.rec # None
     /\ ClashingFields(base.rec, local.rec, remote.rec) = {}
  THEN Agree(RecordEntity(MergeRecords(base.rec, local.rec, remote.rec, device)))
  ELSE Split(local, remote, ConflictOf("edit-edit", base, local, remote))

(* The last case of the loop: both sides differ from the base and from     *)
(* each other.                                                             *)
MergeBothChanged(base, local, remote, device) ==
  LET clash(kind) == Split(local, remote, ConflictOf(kind, base, local, remote))
  IN  CASE IsLocked(local) -> clash("locked")
        [] ~IsLocked(local) /\ local.rec # None /\ remote.rec # None ->
             IF base.rec # None /\ ClashingFields(base.rec, local.rec, remote.rec) = {}
             THEN Agree(RecordEntity(MergeRecords(base.rec, local.rec, remote.rec, device)))
             ELSE clash("edit-edit")
        [] ~IsLocked(local) /\ (local.rec # None) # (remote.rec # None) -> clash("delete-edit")
        [] OTHER -> Agree(TombEntity(DeletionOf(base, local, remote, device)))

(* b, l, r are the three sides' entries of one id, frozen its unresolved   *)
(* conflict or None.  The loop visits the ids some side mentions: a        *)
(* conflict about an id no side mentions is dropped.                       *)
MergeEntity(b, l, r, frozen, device) ==
  LET base   == EntityOf(b, Absent)
      local  == EntityOf(l, base)
      remote == EntityOf(r, base)
      sameNew == base.rec = None /\ local.rec # None /\ remote.rec # None
                   /\ SameBusiness(local.rec, remote.rec)
      localWins == IsLocked(local) \/ local.rec.rev >= remote.rec.rev
  IN  IF b = Absent /\ l = Absent /\ r = Absent THEN Agree(Absent)
      ELSE IF frozen # None
      THEN Split(local, remote, [frozen EXCEPT !.local = local.rec, !.remote = remote.rec])
      ELSE IF local = remote THEN Agree(local)
      ELSE IF sameNew THEN Agree(IF localWins THEN local ELSE remote)
      ELSE IF local = base THEN Agree(remote)
      ELSE IF remote = base THEN Agree(local)
      ELSE MergeBothChanged(base, local, remote, device)
=============================================================================
