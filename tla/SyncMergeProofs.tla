-------------------------- MODULE SyncMergeProofs --------------------------
(***************************************************************************)
(* Facts about the merge of one entity, for all fields, values, devices    *)
(* and revisions.                                                          *)
(***************************************************************************)
EXTENDS SyncMerge, TLAPS

(* A side that is silent about an id inherits the base, and what a side    *)
(* says is an entity again.                                                *)
LEMMA EntityOfType ==
  ASSUME NEW e \in Entity, NEW base \in Entity
  PROVE  EntityOf(e, base) \in Entity
BY DEF EntityOf, Entity, RecordEntity, TombEntity

(* The largest of the three revisions is a natural number.                 *)
LEMMA MaxRevType ==
  ASSUME NEW b \in Entity, NEW l \in Entity, NEW r \in Entity
  PROVE  MaxRev(b, l, r) \in Nat
<1>1. ASSUME NEW e \in Entity
      PROVE  RevOf(e.rec) \in Nat /\ RevOf(e.tomb) \in Nat
  BY <1>1 DEF Entity, Record, Tombstone, RevOf
<1>2. ASSUME NEW m \in Nat, NEW n \in Nat
      PROVE  MaxOf(m, n) \in Nat
  BY <1>2 DEF MaxOf
<1>. QED
  BY <1>1, <1>2 DEF MaxRev

(* mergeRecords yields a record.                                           *)
LEMMA MergeRecordsType ==
  ASSUME NEW b \in Record, NEW l \in Record, NEW r \in Record, NEW d \in Device
  PROVE  MergeRecords(b, l, r, d) \in Record
<1>1. [x \in Field |-> IF x \in ChangedFields(b, r) THEN r.f[x] ELSE l.f[x]] \in [Field -> Value]
  BY DEF Record
<1>2. MaxOf(b.rev, MaxOf(l.rev, r.rev)) + 1 \in Nat
  BY DEF Record, MaxOf
<1>3. (IF r.locked # b.locked THEN r.locked ELSE l.locked) \in BOOLEAN
  BY DEF Record
<1>. QED
  BY <1>1, <1>2, <1>3 DEF MergeRecords, Record

(* Both sides taking one entity is a result of the merge.                  *)
LEMMA AgreeType ==
  ASSUME NEW e \in Entity
  PROVE  Agree(e) \in MergeResult
BY DEF Agree, MergeResult

(* Keeping both sides and recording the conflict is one too.               *)
LEMMA ClashType ==
  ASSUME NEW b \in Entity, NEW l \in Entity, NEW r \in Entity, NEW kind \in ConflictKind
  PROVE  Split(l, r, ConflictOf(kind, b, l, r)) \in MergeResult
<1>1. ConflictOf(kind, b, l, r) \in Conflict
  BY DEF ConflictOf, Conflict, Entity
<1>. QED
  BY <1>1 DEF Split, MergeResult

(* The last case of the loop ends in a result of the merge.                *)
LEMMA MergeBothChangedType ==
  ASSUME NEW b \in Entity, NEW l \in Entity, NEW r \in Entity, NEW d \in Device
  PROVE  MergeBothChanged(b, l, r, d) \in MergeResult
<1>. DEFINE clash(kind) == Split(l, r, ConflictOf(kind, b, l, r))
<1>1. \A kind \in ConflictKind : clash(kind) \in MergeResult
  BY ClashType
<1>2. CASE IsLocked(l)
  <2>1. MergeBothChanged(b, l, r, d) = clash("locked")
    BY <1>2 DEF MergeBothChanged
  <2>. QED  BY <2>1, <1>1 DEF ConflictKind
<1>3. CASE ~IsLocked(l) /\ l.rec # None /\ r.rec # None
  <2>1. CASE b.rec # None /\ ClashingFields(b.rec, l.rec, r.rec) = {}
    <3>1. MergeBothChanged(b, l, r, d) = Agree(RecordEntity(MergeRecords(b.rec, l.rec, r.rec, d)))
      BY <1>3, <2>1 DEF MergeBothChanged
    <3>2. b.rec \in Record /\ l.rec \in Record /\ r.rec \in Record
      BY <1>3, <2>1 DEF Entity
    <3>3. RecordEntity(MergeRecords(b.rec, l.rec, r.rec, d)) \in Entity
      BY <3>2, MergeRecordsType DEF RecordEntity, Entity
    <3>. QED  BY <3>1, <3>3, AgreeType
  <2>2. CASE ~(b.rec # None /\ ClashingFields(b.rec, l.rec, r.rec) = {})
    <3>1. MergeBothChanged(b, l, r, d) = clash("edit-edit")
      BY <1>3, <2>2 DEF MergeBothChanged
    <3>. QED  BY <3>1, <1>1 DEF ConflictKind
  <2>. QED  BY <2>1, <2>2
<1>4. CASE ~IsLocked(l) /\ (l.rec # None) # (r.rec # None)
  <2>1. MergeBothChanged(b, l, r, d) = clash("delete-edit")
    BY <1>4 DEF MergeBothChanged
  <2>. QED  BY <2>1, <1>1 DEF ConflictKind
<1>5. CASE ~IsLocked(l) /\ l.rec = None /\ r.rec = None
  <2>1. MergeBothChanged(b, l, r, d) = Agree(TombEntity(DeletionOf(b, l, r, d)))
    BY <1>5 DEF MergeBothChanged
  <2>2. TombEntity(DeletionOf(b, l, r, d)) \in Entity
    BY MaxRevType DEF TombEntity, DeletionOf, Entity, Tombstone
  <2>. QED  BY <2>1, <2>2, AgreeType
<1>. QED
  BY <1>2, <1>3, <1>4, <1>5

(* mergeSyncStates yields, for every id, an entity for each of the sides   *)
(* and possibly a conflict.                                                *)
THEOREM MergeEntityType ==
  ASSUME NEW b \in Entity, NEW l \in Entity, NEW r \in Entity,
         NEW frozen \in Conflict \cup {None}, NEW d \in Device
  PROVE  MergeEntity(b, l, r, frozen, d) \in MergeResult
<1>. DEFINE base   == EntityOf(b, Absent)
            local  == EntityOf(l, base)
            remote == EntityOf(r, base)
<1>0. Absent \in Entity
  BY DEF Absent, Entity
<1>1. base \in Entity /\ local \in Entity /\ remote \in Entity
  BY <1>0, EntityOfType
<1>2. \A e \in Entity : Agree(e) \in MergeResult
  BY AgreeType
<1>3. frozen # None =>
        Split(local, remote, [frozen EXCEPT !.local = local.rec, !.remote = remote.rec])
          \in MergeResult
  <2>1. local.rec \in Record \cup {None} /\ remote.rec \in Record \cup {None}
    BY <1>1 DEF Entity
  <2>2. frozen # None =>
          [frozen EXCEPT !.local = local.rec, !.remote = remote.rec] \in Conflict
    BY <2>1 DEF Conflict
  <2>. HIDE DEF local, remote
  <2>. QED  BY <1>1, <2>2 DEF Split, MergeResult
<1>4. MergeBothChanged(base, local, remote, d) \in MergeResult
  BY <1>1, MergeBothChangedType
<1>. QED
  BY <1>0, <1>1, <1>2, <1>3, <1>4 DEF MergeEntity

-----------------------------------------------------------------------------
(* What a merge leaves: the same entity on both sides, or the sides as     *)
(* they were and a conflict that describes them.                           *)
Faithful(l, r, res) ==
  \/ res.conflict = None /\ res.local = res.remote
  \/ /\ res.conflict # None
     /\ res.local = l /\ res.remote = r
     /\ res.conflict.local = l.rec /\ res.conflict.remote = r.rec

(* The branches of the loop that agree on an entity are faithful ...       *)
LEMMA AgreeIsFaithful ==
  ASSUME NEW l, NEW r, NEW e
  PROVE  Faithful(l, r, Agree(e))
BY DEF Agree, Faithful

(* ... those that record a conflict are ...                                *)
LEMMA ClashIsFaithful ==
  ASSUME NEW b \in Entity, NEW l \in Entity, NEW r \in Entity, NEW kind \in ConflictKind
  PROVE  Faithful(l, r, Split(l, r, ConflictOf(kind, b, l, r)))
<1>1. ConflictOf(kind, b, l, r) \in Conflict
  BY DEF ConflictOf, Conflict, Entity
<1>2. ConflictOf(kind, b, l, r) # None
  BY <1>1, NoneAssumption
<1>3. /\ ConflictOf(kind, b, l, r).local = l.rec
      /\ ConflictOf(kind, b, l, r).remote = r.rec
  BY DEF ConflictOf
<1>. QED
  BY <1>2, <1>3 DEF Split, Faithful

(* ... and so is the last case of the loop.                                *)
LEMMA BothChangedIsFaithful ==
  ASSUME NEW b \in Entity, NEW l \in Entity, NEW r \in Entity, NEW d \in Device
  PROVE  Faithful(l, r, MergeBothChanged(b, l, r, d))
<1>1. \A kind \in ConflictKind : Faithful(l, r, Split(l, r, ConflictOf(kind, b, l, r)))
  BY ClashIsFaithful
<1>2. \A e : Faithful(l, r, Agree(e))
  BY AgreeIsFaithful
<1>. QED
  BY <1>1, <1>2 DEF MergeBothChanged, ConflictKind

(* A merge without a conflict leaves both sides with the same entity; a    *)
(* conflict records what the two sides say (syncMerge.ts:166-258).         *)
THEOREM MergeIsFaithful ==
  ASSUME NEW b \in Entity, NEW l \in Entity, NEW r \in Entity,
         NEW frozen \in Conflict \cup {None}, NEW d \in Device
  PROVE  LET base == EntityOf(b, Absent)
         IN  Faithful(EntityOf(l, base), EntityOf(r, base), MergeEntity(b, l, r, frozen, d))
<1>. DEFINE base   == EntityOf(b, Absent)
            local  == EntityOf(l, base)
            remote == EntityOf(r, base)
            thawed == [frozen EXCEPT !.local = local.rec, !.remote = remote.rec]
<1>1. base \in Entity /\ local \in Entity /\ remote \in Entity
  <2>1. Absent \in Entity
    BY DEF Absent, Entity
  <2>. QED  BY <2>1, EntityOfType
<1>2. \A e : Faithful(local, remote, Agree(e))
  BY AgreeIsFaithful
<1>3. frozen # None => Faithful(local, remote, Split(local, remote, thawed))
  <2>1. local.rec \in Record \cup {None} /\ remote.rec \in Record \cup {None}
    BY <1>1 DEF Entity
  <2>. HIDE DEF local, remote
  <2>2. frozen # None => /\ thawed \in Conflict
                         /\ thawed.local = local.rec /\ thawed.remote = remote.rec
    BY <2>1 DEF Conflict
  <2>3. frozen # None => thawed # None
    BY <2>2, NoneAssumption
  <2>. QED  BY <2>2, <2>3 DEF Split, Faithful
<1>4. Faithful(local, remote, MergeBothChanged(base, local, remote, d))
  BY <1>1, BothChangedIsFaithful
<1>. QED
  BY <1>1, <1>2, <1>3, <1>4 DEF MergeEntity
-----------------------------------------------------------------------------
(* An entity that holds a record or a tombstone, not both.                 *)
Single(e) == e.rec = None \/ e.tomb = None

(* What a side says is single if the base is, and is never silent about an *)
(* id that it or the base has.                                             *)
LEMMA EntityOfSingle ==
  ASSUME NEW e \in Entity, NEW b \in Entity
  PROVE  /\ Single(b) => Single(EntityOf(e, b))
         /\ EntityOf(e, b) = Absent => b = Absent
         /\ Single(e) => EntityOf(e, Absent) = e
         /\ Single(e) /\ e # Absent => EntityOf(e, b) = e
BY DEF Single, EntityOf, Absent, RecordEntity, TombEntity, Entity

(* Whatever is merged, what comes out is single, for each side.            *)
LEMMA MergeIsSingle ==
  ASSUME NEW b \in Entity, NEW l \in Entity, NEW r \in Entity, NEW frozen, NEW d
  PROVE  /\ Single(MergeEntity(b, l, r, frozen, d).local)
         /\ Single(MergeEntity(b, l, r, frozen, d).remote)
<1>. DEFINE base   == EntityOf(b, Absent)
            local  == EntityOf(l, base)
            remote == EntityOf(r, base)
<1>1. Single(Absent) /\ Absent \in Entity
  BY DEF Single, Absent, Entity
<1>2. base \in Entity /\ Single(base)
  BY <1>1, EntityOfSingle, EntityOfType
<1>3. Single(local) /\ Single(remote)
  BY <1>2, EntityOfSingle
<1>4. \A e : /\ Agree(e).local = e /\ Agree(e).remote = e
             /\ \A f, c : Split(e, f, c).local = e /\ Split(e, f, c).remote = f
  BY DEF Agree, Split
<1>5. \A x : Single(RecordEntity(x)) /\ Single(TombEntity(x))
  BY DEF Single, RecordEntity, TombEntity
<1>6. LET res == MergeBothChanged(base, local, remote, d)
      IN  Single(res.local) /\ Single(res.remote)
  <2>. HIDE DEF base, local, remote
  <2>. QED  BY <1>3, <1>4, <1>5 DEF MergeBothChanged
<1>. QED
  BY <1>1, <1>2, <1>3, <1>4, <1>6 DEF MergeEntity

(* The cases of a merge that records no conflict.                          *)
SilentCase(base, local, remote, merged, d) ==
  \/ local = remote /\ merged = Agree(local)
  \/ /\ base.rec = None /\ local.rec # None /\ remote.rec # None
     /\ SameBusiness(local.rec, remote.rec)
     /\ merged = Agree(local) \/ merged = Agree(remote)
  \/ local = base /\ merged = Agree(remote)
  \/ remote = base /\ merged = Agree(local)
  \/ /\ base.rec # None /\ local.rec # None /\ remote.rec # None
     /\ ClashingFields(base.rec, local.rec, remote.rec) = {}
     /\ merged = Agree(RecordEntity(MergeRecords(base.rec, local.rec, remote.rec, d)))
  \/ /\ local.rec = None /\ remote.rec = None
     /\ merged = Agree(TombEntity(DeletionOf(base, local, remote, d)))

(* A merge that records no conflict is one of these cases.                 *)
LEMMA SilentMerge ==
  ASSUME NEW b \in Entity, NEW l \in Entity, NEW r \in Entity,
         NEW frozen \in Conflict \cup {None}, NEW d \in Device,
         MergeEntity(b, l, r, frozen, d).conflict = None
  PROVE  LET base == EntityOf(b, Absent)
         IN  SilentCase(base, EntityOf(l, base), EntityOf(r, base),
                        MergeEntity(b, l, r, frozen, d), d)
<1>. DEFINE base   == EntityOf(b, Absent)
            local  == EntityOf(l, base)
            remote == EntityOf(r, base)
            merged == MergeEntity(b, l, r, frozen, d)
            both   == MergeBothChanged(base, local, remote, d)
<1>. SUFFICES SilentCase(base, local, remote, merged, d)
  OBVIOUS
<1>1. base \in Entity /\ local \in Entity /\ remote \in Entity
  <2>1. Absent \in Entity
    BY DEF Absent, Entity
  <2>. QED  BY <2>1, EntityOfType
<1>2. \A kind \in ConflictKind : Split(local, remote, ConflictOf(kind, base, local, remote)).conflict # None
  <2>. HIDE DEF base, local, remote
  <2>1. ASSUME NEW kind \in ConflictKind
        PROVE  ConflictOf(kind, base, local, remote) \in Conflict
    BY <1>1 DEF ConflictOf, Conflict, Entity
  <2>. QED  BY <2>1, NoneAssumption DEF Split
<1>3. CASE b = Absent /\ l = Absent /\ r = Absent
  <2>1. local = remote /\ merged = Agree(local)
    BY <1>3 DEF MergeEntity, EntityOf, Absent
  <2>2. SilentCase(base, local, remote, merged, d)
    <3>. HIDE DEF base, local, remote, merged
    <3>. QED  BY <2>1 DEF SilentCase
  <2>. QED  BY <2>2
<1>4. CASE frozen # None /\ ~(b = Absent /\ l = Absent /\ r = Absent)
  <2>. DEFINE thawed == [frozen EXCEPT !.local = local.rec, !.remote = remote.rec]
  <2>1. merged = Split(local, remote, thawed)
    BY <1>4 DEF MergeEntity
  <2>2. thawed \in Conflict
    <3>. HIDE DEF base, local, remote
    <3>. QED  BY <1>1, <1>4 DEF Conflict, Entity
  <2>. QED  BY <2>1, <2>2, NoneAssumption DEF Split
<1>5. CASE frozen = None /\ ~(b = Absent /\ l = Absent /\ r = Absent)
  <2>1. SilentCase(base, local, remote, merged, d) \/ merged = both
    BY <1>5 DEF MergeEntity, SilentCase
  <2>2. ASSUME merged = both, both.conflict = None
        PROVE  SilentCase(base, local, remote, both, d)
    <3>. HIDE DEF base, local, remote, merged
    <3>1. CASE IsLocked(local)
      BY <1>2, <2>2, <3>1 DEF MergeBothChanged, ConflictKind
    <3>2. CASE ~IsLocked(local) /\ (local.rec # None) # (remote.rec # None)
      BY <1>2, <2>2, <3>2 DEF MergeBothChanged, ConflictKind
    <3>3. CASE ~IsLocked(local) /\ local.rec # None /\ remote.rec # None
      BY <1>2, <2>2, <3>3 DEF MergeBothChanged, ConflictKind, SilentCase
    <3>4. CASE ~IsLocked(local) /\ local.rec = None /\ remote.rec = None
      BY <2>2, <3>4 DEF MergeBothChanged, SilentCase
    <3>. QED  BY <3>1, <3>2, <3>3, <3>4
  <2>3. merged.conflict = None
    OBVIOUS
  <2>. HIDE DEF base, local, remote, merged, both
  <2>. QED  BY <2>1, <2>2, <2>3
<1>. QED
  BY <1>3, <1>4, <1>5

(* A new conflict is never about an id that the local side does not        *)
(* mention: a silent side is the base's.                                   *)
LEMMA ClashNeedsAMention ==
  ASSUME NEW b \in Entity, NEW l \in Entity, NEW r \in Entity, NEW d,
         MergeEntity(b, l, r, None, d).conflict # None
  PROVE  l # Absent
<1>1. EntityOf(l, EntityOf(b, Absent)) # EntityOf(b, Absent)
  BY DEF MergeEntity, Agree
<1>. QED
  BY <1>1 DEF EntityOf, Absent
-----------------------------------------------------------------------------
(* What the merge publishes over a file that knows the id, or of an id     *)
(* that the base does not know, is something this side wrote: a record of  *)
(* its own that is not the base's.                                         *)
LEMMA PublishedIsWritten ==
  ASSUME NEW b \in Entity, NEW l \in Entity, NEW r \in Entity, NEW d,
         r # Absent \/ b = Absent,
         MergeEntity(b, l, r, None, d).remote.rec \notin {None, r.rec}
  PROVE  l.rec \notin {None, b.rec}
<1>. DEFINE base   == EntityOf(b, Absent)
            local  == EntityOf(l, base)
            remote == EntityOf(r, base)
            new    == MergeEntity(b, l, r, None, d).remote.rec
<1>1. remote.rec \in {None, r.rec}
  <2>1. r.rec # None \/ r.tomb # None \/ base = Absent
    BY DEF EntityOf, Absent, Entity
  <2>. QED  BY <2>1 DEF EntityOf, RecordEntity, TombEntity, Absent
<1>2. local # base /\ local.rec # None
  <2>1. \A e : Agree(e).remote = e /\ \A f, c : Split(e, f, c).remote = f
    BY DEF Agree, Split
  <2>2. new = None \/ new = remote.rec \/ (local # base /\ new = local.rec)
          \/ (local # base /\ local.rec # None)
    <3>1. LET res == MergeBothChanged(base, local, remote, d).remote.rec
          IN  res = None \/ res = remote.rec \/ local.rec # None
      <4>. HIDE DEF base, local, remote
      <4>1. \A t : TombEntity(t).rec = None
        BY DEF TombEntity
      <4>. QED  BY <2>1, <4>1 DEF MergeBothChanged
    <3>2. Absent.rec = None
      BY DEF Absent
    <3>. DEFINE both == MergeBothChanged(base, local, remote, d)
    <3>3. \/ MergeEntity(b, l, r, None, d) \in {Agree(Absent), Agree(remote)}
          \/ local = remote /\ MergeEntity(b, l, r, None, d) = Agree(local)
          \/ base.rec = None /\ local.rec # None /\ MergeEntity(b, l, r, None, d) = Agree(local)
          \/ local # base /\ MergeEntity(b, l, r, None, d) \in {Agree(local), both}
      BY DEF MergeEntity
    <3>. HIDE DEF base, local, remote, both
    <3>. QED  BY <2>1, <3>1, <3>2, <3>3 DEF both
  <2>. QED  BY <1>1, <2>2
<1>3. l.rec # None
  BY <1>2 DEF EntityOf, TombEntity
<1>4. local = RecordEntity(l.rec)
  BY <1>3 DEF EntityOf
<1>5. b.rec = l.rec => base = RecordEntity(l.rec)
  BY <1>3 DEF EntityOf
<1>. QED
  BY <1>2, <1>3, <1>4, <1>5

(* The merge is not silent about an id that the file mentions.             *)
LEMMA MentionSurvives ==
  ASSUME NEW b \in Entity, NEW l \in Entity, NEW r \in Entity, NEW frozen, NEW d \in Device,
         r # Absent
  PROVE  MergeEntity(b, l, r, frozen, d).remote # Absent
<1>. DEFINE base   == EntityOf(b, Absent)
            local  == EntityOf(l, base)
            remote == EntityOf(r, base)
<1>0. \A e : Agree(e).remote = e /\ \A f, c : Split(e, f, c).remote = f
  BY DEF Agree, Split
<1>1. remote # Absent
  BY DEF EntityOf, RecordEntity, TombEntity, Absent, Entity
<1>2. base # Absent => local # Absent
  BY DEF EntityOf, RecordEntity, TombEntity, Absent, Entity
<1>3. local.rec # None => local # Absent
  BY DEF Absent
<1>4. ASSUME NEW x \in Record
      PROVE  RecordEntity(x) # Absent
  BY <1>4, NoneAssumption DEF RecordEntity, Absent
<1>5. MergeBothChanged(base, local, remote, d).remote # Absent
  <2>1. base \in Entity /\ local \in Entity /\ remote \in Entity
    BY EntityOfType DEF Absent, Entity
  <2>. HIDE DEF base, local, remote
  <2>2. TombEntity(DeletionOf(base, local, remote, d)) # Absent
    <3>1. DeletionOf(base, local, remote, d) \in Tombstone
      BY <2>1, MaxRevType DEF DeletionOf, Tombstone
    <3>. QED  BY <3>1, NoneAssumption DEF TombEntity, Absent
  <2>3. base.rec # None /\ local.rec # None /\ remote.rec # None
          => RecordEntity(MergeRecords(base.rec, local.rec, remote.rec, d)) # Absent
    BY <1>4, <2>1, MergeRecordsType DEF Entity
  <2>. QED  BY <1>0, <1>1, <2>2, <2>3 DEF MergeBothChanged
<1>. QED
  BY <1>0, <1>1, <1>2, <1>3, <1>5 DEF MergeEntity

(* Without locked inputs nothing that comes out is locked.                 *)
LEMMA MergeIsUnlocked ==
  ASSUME NEW b \in Entity, NEW l \in Entity, NEW r \in Entity, NEW frozen, NEW d,
         ~IsLocked(b), ~IsLocked(l), ~IsLocked(r)
  PROVE  /\ ~IsLocked(MergeEntity(b, l, r, frozen, d).local)
         /\ ~IsLocked(MergeEntity(b, l, r, frozen, d).remote)
<1>. DEFINE base   == EntityOf(b, Absent)
            local  == EntityOf(l, base)
            remote == EntityOf(r, base)
<1>0. \A e : /\ Agree(e).local = e /\ Agree(e).remote = e
             /\ \A f, c : Split(e, f, c).local = e /\ Split(e, f, c).remote = f
  BY DEF Agree, Split
<1>1. /\ ~IsLocked(base) /\ ~IsLocked(local) /\ ~IsLocked(remote)
      /\ ~IsLocked(Absent) /\ \A t : ~IsLocked(TombEntity(t))
  BY DEF EntityOf, RecordEntity, TombEntity, Absent, IsLocked
<1>2. LET both == MergeBothChanged(base, local, remote, d)
      IN  ~IsLocked(both.local) /\ ~IsLocked(both.remote)
  <2>. HIDE DEF base, local, remote
  <2>1. base.rec # None /\ local.rec # None /\ remote.rec # None
          => ~IsLocked(RecordEntity(MergeRecords(base.rec, local.rec, remote.rec, d)))
    BY <1>1 DEF IsLocked, RecordEntity, MergeRecords
  <2>. QED  BY <1>0, <1>1, <2>1 DEF MergeBothChanged
<1>. QED
  BY <1>0, <1>1, <1>2 DEF MergeEntity
=============================================================================
