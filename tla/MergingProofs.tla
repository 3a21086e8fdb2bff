--------------------------- MODULE MergingProofs ----------------------------
(***************************************************************************)
(* What a user relies on when two devices merge a record, the history of a *)
(* series or their collections, for all fields, values, devices, episodes  *)
(* and revisions.                                                          *)
(***************************************************************************)
EXTENDS Merging, SyncMergeProofs

(* The entries merged at first are entities.                               *)
LEMMA SmallEntityType == SmallEntity \subseteq Entity
BY TopRevAssumption
   DEF SmallEntity, SmallRecord, SmallTomb, Entity, Record, Tombstone, Absent, RecordEntity,
       TombEntity

(* The result of a merge is typed and faithful.                            *)
LEMMA ResultType ==
  TypeOK => /\ Result \in MergeResult /\ Faithful(Local0, Remote0, Result)
            /\ Base0 \in Entity /\ Local0 \in Entity /\ Remote0 \in Entity
<1>1. Absent \in Entity
  BY DEF Absent, Entity
<1>. QED
  BY <1>1, MergeEntityType, MergeIsFaithful, EntityOfType
     DEF TypeOK, Result, Base0, Local0, Remote0

(* Every state of a merge is well typed.                                   *)
THEOREM MergeTypeOK == Spec => []TypeOK
<1>1. Init => TypeOK
  BY SmallEntityType DEF Init, TypeOK
<1>2. TypeOK /\ [Next]_vars => TypeOK'
  BY ResultType DEF TypeOK, Next, Adopt, vars, MergeResult
<1>. QED
  BY <1>1, <1>2, PTL DEF Spec

(* The sides agree, or are as they were and in conflict.                   *)
THEOREM SidesSplitOrAgree == Spec => []SplitOrAgree
<1>1. TypeOK => SplitOrAgree
  BY ResultType DEF SplitOrAgree, Faithful
<1>. QED
  BY <1>1, MergeTypeOK, PTL

(* The merge by the cases of the loop, for a silent merge.                 *)
LEMMA SilentCases ==
  ASSUME TypeOK, Result.conflict = None
  PROVE  \/ Base0 = Absent /\ Local0 = Absent /\ Remote0 = Absent
         \/ Local0 = Remote0 /\ Result = Agree(Local0)
         \/ /\ Base0.rec = None /\ Local0.rec # None /\ Remote0.rec # None
            /\ SameBusiness(Local0.rec, Remote0.rec)
         \/ Local0 = Base0 /\ Result = Agree(Remote0)
         \/ Remote0 = Base0 /\ Result = Agree(Local0)
         \/ /\ ~IsLocked(Local0)
            /\ Base0.rec # None /\ Local0.rec # None /\ Remote0.rec # None
            /\ ClashingFields(Base0.rec, Local0.rec, Remote0.rec) = {}
            /\ Result = Agree(RecordEntity(MergeRecords(Base0.rec, Local0.rec, Remote0.rec, device)))
         \/ ~IsLocked(Local0) /\ Local0.rec = None /\ Remote0.rec = None
<1>0. Base0 \in Entity /\ Local0 \in Entity /\ Remote0 \in Entity
  BY ResultType
<1>1. \A kind \in ConflictKind :
         Split(Local0, Remote0, ConflictOf(kind, Base0, Local0, Remote0)).conflict # None
  <2>1. ASSUME NEW kind \in ConflictKind
        PROVE  ConflictOf(kind, Base0, Local0, Remote0) \in Conflict
    BY <1>0 DEF ConflictOf, Conflict, Entity
  <2>. QED  BY <2>1, NoneAssumption DEF Split
<1>2. CASE base = Absent /\ local = Absent /\ remote = Absent
  BY <1>2 DEF Base0, Local0, Remote0, EntityOf, Absent
<1>3. CASE frozen # None /\ ~(base = Absent /\ local = Absent /\ remote = Absent)
  <2>1. Result = Split(Local0, Remote0, [frozen EXCEPT !.local = Local0.rec,
                                                       !.remote = Remote0.rec])
    BY <1>3 DEF Result, MergeEntity, Base0, Local0, Remote0
  <2>2. [frozen EXCEPT !.local = Local0.rec, !.remote = Remote0.rec] \in Conflict
    BY <1>0, <1>3 DEF TypeOK, Conflict, Entity
  <2>. QED  BY <2>1, <2>2, NoneAssumption DEF Split
<1>4. CASE frozen = None /\ ~(base = Absent /\ local = Absent /\ remote = Absent)
  <2>1. \/ Local0 = Remote0 /\ Result = Agree(Local0)
        \/ /\ Base0.rec = None /\ Local0.rec # None /\ Remote0.rec # None
           /\ SameBusiness(Local0.rec, Remote0.rec)
        \/ Local0 = Base0 /\ Result = Agree(Remote0)
        \/ Remote0 = Base0 /\ Result = Agree(Local0)
        \/ Result = MergeBothChanged(Base0, Local0, Remote0, device)
    BY <1>4 DEF Result, MergeEntity, Base0, Local0, Remote0
  <2>2. CASE Result = MergeBothChanged(Base0, Local0, Remote0, device)
    <3>1. CASE IsLocked(Local0)
      BY <1>1, <2>2, <3>1 DEF MergeBothChanged, ConflictKind
    <3>2. CASE ~IsLocked(Local0) /\ (Local0.rec # None) # (Remote0.rec # None)
      BY <1>1, <2>2, <3>2 DEF MergeBothChanged, ConflictKind
    <3>3. CASE ~IsLocked(Local0) /\ Local0.rec # None /\ Remote0.rec # None
      BY <1>1, <2>2, <3>3 DEF MergeBothChanged, ConflictKind
    <3>. QED  BY <3>1, <3>2, <3>3
  <2>. QED  BY <2>1, <2>2
<1>. QED
  BY <1>2, <1>3, <1>4

(* Of two edits of one record that merge silently neither is lost.         *)
THEOREM EditsAreKept == Spec => []NoEditLost
<1>1. ASSUME TypeOK, Result.conflict = None,
             Base0.rec # None, Local0.rec # None, Remote0.rec # None
      PROVE  LET merged == Result.local.rec
             IN  /\ merged # None
                 /\ \A side \in {Local0.rec, Remote0.rec} :
                      /\ \A x \in Field : side.f[x] # Base0.rec.f[x] => merged.f[x] = side.f[x]
                      /\ side.locked # Base0.rec.locked => merged.locked = side.locked
                 /\ \A x \in Field : merged.f[x] \in {Local0.rec.f[x], Remote0.rec.f[x]}
  <2>0. Base0.rec \in Record /\ Local0.rec \in Record /\ Remote0.rec \in Record
    BY <1>1, ResultType DEF Entity
  <2>1. CASE Local0 = Remote0 /\ Result = Agree(Local0)
    BY <1>1, <2>1 DEF Agree
  <2>2. CASE Local0 = Base0 /\ Result = Agree(Remote0)
    BY <1>1, <2>2 DEF Agree
  <2>3. CASE Remote0 = Base0 /\ Result = Agree(Local0)
    BY <1>1, <2>3 DEF Agree
  <2>4. CASE /\ ClashingFields(Base0.rec, Local0.rec, Remote0.rec) = {}
             /\ Result = Agree(RecordEntity(MergeRecords(Base0.rec, Local0.rec, Remote0.rec,
                                                         device)))
    <3>. DEFINE merged == MergeRecords(Base0.rec, Local0.rec, Remote0.rec, device)
    <3>0. merged \in Record
      BY <1>1, <2>0, MergeRecordsType DEF TypeOK
    <3>1. Result.local.rec = merged
      <4>. HIDE DEF merged
      <4>1. Result = Agree(RecordEntity(merged))
        BY <2>4 DEF merged
      <4>. QED  BY <4>1 DEF Agree, RecordEntity
    <3>2. \A x \in Field : merged.f[x] = IF Remote0.rec.f[x] # Base0.rec.f[x] THEN Remote0.rec.f[x]
                                         ELSE Local0.rec.f[x]
      BY DEF MergeRecords, ChangedFields
    <3>3. \A x \in Field : \/ Local0.rec.f[x] = Base0.rec.f[x]
                           \/ Remote0.rec.f[x] = Base0.rec.f[x]
                           \/ Local0.rec.f[x] = Remote0.rec.f[x]
      BY <2>4 DEF ClashingFields, ChangedFields
    <3>4. /\ Local0.rec.locked # Base0.rec.locked => merged.locked = Local0.rec.locked
          /\ Remote0.rec.locked # Base0.rec.locked => merged.locked = Remote0.rec.locked
      BY <2>0 DEF MergeRecords, Record
    <3>5. merged # None
      BY <3>0, NoneAssumption
    <3>. HIDE DEF merged
    <3>. QED  BY <3>1, <3>2, <3>3, <3>4, <3>5
  <2>. QED
    BY <1>1, <2>1, <2>2, <2>3, <2>4, SilentCases DEF Absent
<1>2. TypeOK => NoEditLost
  BY <1>1 DEF NoEditLost
<1>. QED
  BY <1>2, MergeTypeOK, PTL

(* An edit against a deletion is never decided silently.                   *)
THEOREM DeletionsAreNotSilent == Spec => []NoSilentDeletion
<1>1. TypeOK => NoSilentDeletion
  BY SilentCases DEF NoSilentDeletion
<1>. QED
  BY <1>1, MergeTypeOK, PTL

(* A record locked and changed here stays here.                            *)
THEOREM LockedStays == Spec => []LockedChangeStaysHere
<1>1. ASSUME TypeOK, IsLocked(Local0), Local0 # Base0, Remote0 # Base0,
             Remote0.rec # None => ~SameBusiness(Local0.rec, Remote0.rec)
      PROVE  Result.conflict # None
  <2>1. Local0.rec # None
    BY <1>1 DEF IsLocked
  <2>2. Local0 # Remote0
    BY <1>1, <2>1 DEF SameBusiness
  <2>. QED  BY <1>1, <2>1, <2>2, SilentCases
<1>2. TypeOK => LockedChangeStaysHere
  BY <1>1, ResultType DEF LockedChangeStaysHere, Faithful
<1>. QED
  BY <1>2, MergeTypeOK, PTL

-----------------------------------------------------------------------------
(* What a completed sync leaves behind for the next.                       *)
Settled ==
  /\ frozen # None => synced
  /\ synced =>
       /\ base = remote
       /\ Single(local) /\ Single(remote)
       /\ IF frozen = None THEN local = remote
          ELSE /\ local # Absent /\ remote # Absent
               /\ frozen.local = local.rec /\ frozen.remote = remote.rec

(* A merge of single entities results in single entities.                  *)
LEMMA ResultSingle ==
  ASSUME TypeOK
  PROVE  Single(Result.local) /\ Single(Result.remote)
<1>1. Single(Absent) /\ Absent \in Entity
  BY DEF Single, Absent, Entity
<1>2. Base0 \in Entity /\ Local0 \in Entity /\ Remote0 \in Entity
  BY ResultType
<1>3. Single(Base0) /\ Single(Local0) /\ Single(Remote0)
  <2>1. Single(Base0)
    BY <1>1, EntityOfSingle DEF TypeOK, Base0
  <2>. QED  BY <1>2, <2>1, EntityOfSingle DEF TypeOK, Local0, Remote0
<1>4. \A e : /\ Agree(e).local = e /\ Agree(e).remote = e
             /\ \A f, c : Split(e, f, c).local = e /\ Split(e, f, c).remote = f
  BY DEF Agree, Split
<1>5. \A r : Single(RecordEntity(r)) /\ Single(TombEntity(r))
  BY DEF Single, RecordEntity, TombEntity
<1>6. LET res == MergeBothChanged(Base0, Local0, Remote0, device)
      IN  Single(res.local) /\ Single(res.remote)
  BY <1>3, <1>4, <1>5 DEF MergeBothChanged
<1>. QED
  BY <1>1, <1>3, <1>4, <1>6 DEF Result, MergeEntity, Base0, Local0, Remote0

(* A conflict is never about an id one side is silent about.               *)
LEMMA ConflictSides ==
  ASSUME TypeOK, Settled, Result.conflict # None
  PROVE  Local0 # Absent /\ Remote0 # Absent
<1>0. Base0 \in Entity /\ Absent \in Entity
  BY ResultType DEF Absent, Entity
<1>1. CASE frozen # None
  BY <1>0, <1>1, EntityOfSingle DEF TypeOK, Settled, Local0, Remote0
<1>2. CASE frozen = None
  <2>1. Local0 # Base0 /\ Remote0 # Base0
    BY <1>2 DEF Result, MergeEntity, Agree, Base0, Local0, Remote0
  <2>. QED  BY <1>0, <2>1, EntityOfSingle DEF TypeOK, Local0, Remote0
<1>. QED
  BY <1>1, <1>2

(* A settled entity stays as it is when it is merged again.                *)
LEMMA SettledIsSilent ==
  ASSUME TypeOK, Settled, synced
  PROVE  Result.local = local /\ Result.remote = remote /\ Result.conflict = frozen
<1>1. Base0 = remote /\ Remote0 = remote
  BY EntityOfSingle DEF TypeOK, Settled, Base0, Remote0, EntityOf, Absent, Single
<1>2. Local0 = local
  <2>1. local = Absent => remote = Absent
    BY DEF Settled
  <2>. QED  BY <1>1, <2>1, EntityOfSingle DEF TypeOK, Settled, Local0
<1>3. CASE frozen = None
  <2>1. Result = Agree(Local0)
    BY <1>1, <1>2, <1>3 DEF Settled, Result, MergeEntity, Base0, Local0, Remote0
  <2>. QED  BY <1>2, <1>3, <2>1 DEF Agree, Settled
<1>4. CASE frozen # None
  <2>1. Result = Split(local, remote, [frozen EXCEPT !.local = local.rec, !.remote = remote.rec])
    BY <1>1, <1>2, <1>4 DEF Settled, Result, MergeEntity, Base0, Local0, Remote0
  <2>2. [frozen EXCEPT !.local = local.rec, !.remote = remote.rec] = frozen
    BY <1>4 DEF Settled, TypeOK, Conflict
  <2>. QED  BY <2>1, <2>2 DEF Split
<1>. QED
  BY <1>3, <1>4

(* A sync right after a completed sync changes nothing.                    *)
THEOREM SecondSyncSilent == Spec => []SecondSyncIsSilent
<1>1. Init => Settled
  BY DEF Init, Settled
<1>2. TypeOK /\ Settled /\ [Next]_vars => Settled'
  <2>1. ASSUME TypeOK, Settled, Adopt
        PROVE  Settled'
    <3>1. /\ local' = Result.local /\ remote' = Result.remote /\ base' = Result.remote
          /\ frozen' = Result.conflict /\ synced' = TRUE
      BY <2>1 DEF Adopt
    <3>. QED
      BY <2>1, <3>1, ResultType, ResultSingle, ConflictSides DEF Settled, Faithful
  <2>. QED  BY <2>1 DEF Next, vars, Settled
<1>3. TypeOK /\ Settled => SecondSyncIsSilent
  BY SettledIsSilent DEF SecondSyncIsSilent
<1>. QED
  BY <1>1, <1>2, <1>3, MergeTypeOK, PTL DEF Spec
-----------------------------------------------------------------------------
(* Two records without a clash merge to the same fields and the same lock  *)
(* whichever of them is the local one.                                     *)
LEMMA MergeRecordsMirrors ==
  ASSUME NEW b \in Record, NEW l \in Record, NEW r \in Record, NEW d,
         ClashingFields(b, l, r) = {}, l.locked = r.locked
  PROVE  SameBusiness(MergeRecords(b, l, r, d), MergeRecords(b, r, l, d))
<1>1. \A x \in Field : l.f[x] = b.f[x] \/ r.f[x] = b.f[x] \/ l.f[x] = r.f[x]
  BY DEF ClashingFields, ChangedFields
<1>. DEFINE one == [x \in Field |-> IF x \in ChangedFields(b, r) THEN r.f[x] ELSE l.f[x]]
            two == [x \in Field |-> IF x \in ChangedFields(b, l) THEN l.f[x] ELSE r.f[x]]
<1>2. one = two
  BY <1>1 DEF ChangedFields
<1>3. MergeRecords(b, l, r, d).f = one /\ MergeRecords(b, r, l, d).f = two
  BY DEF MergeRecords
<1>4. MergeRecords(b, l, r, d).locked = l.locked /\ MergeRecords(b, r, l, d).locked = l.locked
  BY DEF MergeRecords
<1>. QED
  BY <1>2, <1>3, <1>4 DEF SameBusiness

(* Two results that agree on the verdict and on the content.               *)
Mirrored(one, two) ==
  /\ (one.conflict = None) = (two.conflict = None)
  /\ one.conflict = None =>
       /\ (one.local.rec = None) = (two.local.rec = None)
       /\ one.local.rec # None => SameBusiness(one.local.rec, two.local.rec)

(* So do the two merges of the last case of the loop.                      *)
LEMMA BothChangedMirrors ==
  ASSUME NEW b \in Entity, NEW l \in Entity, NEW r \in Entity, NEW d \in Device,
         IsLocked(l) <=> IsLocked(r)
  PROVE  Mirrored(MergeBothChanged(b, l, r, d), MergeBothChanged(b, r, l, d))
<1>1. \A kind \in ConflictKind : /\ Split(l, r, ConflictOf(kind, b, l, r)).conflict # None
                                 /\ Split(r, l, ConflictOf(kind, b, r, l)).conflict # None
  <2>1. ASSUME NEW kind \in ConflictKind
        PROVE  ConflictOf(kind, b, l, r) \in Conflict /\ ConflictOf(kind, b, r, l) \in Conflict
    BY DEF ConflictOf, Conflict, Entity
  <2>. QED  BY <2>1, NoneAssumption DEF Split
<1>2. CASE IsLocked(l)
  BY <1>1, <1>2 DEF MergeBothChanged, ConflictKind, Mirrored
<1>3. CASE ~IsLocked(l) /\ (l.rec # None) # (r.rec # None)
  BY <1>1, <1>3 DEF MergeBothChanged, ConflictKind, Mirrored
<1>4. CASE ~IsLocked(l) /\ l.rec = None /\ r.rec = None
  <2>1. /\ MergeBothChanged(b, l, r, d) = Agree(TombEntity(DeletionOf(b, l, r, d)))
        /\ MergeBothChanged(b, r, l, d) = Agree(TombEntity(DeletionOf(b, r, l, d)))
    BY <1>4 DEF MergeBothChanged
  <2>. QED  BY <2>1 DEF Agree, TombEntity, Mirrored
<1>5. CASE ~IsLocked(l) /\ l.rec # None /\ r.rec # None
  <2>1. l.rec \in Record /\ r.rec \in Record /\ l.rec.locked = r.rec.locked
    BY <1>5 DEF Entity, IsLocked, Record
  <2>2. ClashingFields(b.rec, l.rec, r.rec) = ClashingFields(b.rec, r.rec, l.rec)
    BY DEF ClashingFields
  <2>3. CASE b.rec # None /\ ClashingFields(b.rec, l.rec, r.rec) = {}
    <3>. DEFINE one == MergeRecords(b.rec, l.rec, r.rec, d)
                two == MergeRecords(b.rec, r.rec, l.rec, d)
    <3>1. /\ MergeBothChanged(b, l, r, d) = Agree(RecordEntity(one))
          /\ MergeBothChanged(b, r, l, d) = Agree(RecordEntity(two))
      BY <1>5, <2>2, <2>3 DEF MergeBothChanged
    <3>2. b.rec \in Record
      BY <2>3 DEF Entity
    <3>3. SameBusiness(one, two) /\ one # None /\ two # None
      BY <2>1, <2>3, <3>2, MergeRecordsType, MergeRecordsMirrors, NoneAssumption
    <3>. HIDE DEF one, two
    <3>. QED  BY <3>1, <3>3 DEF Agree, RecordEntity, Mirrored
  <2>4. CASE ~(b.rec # None /\ ClashingFields(b.rec, l.rec, r.rec) = {})
    BY <1>1, <1>5, <2>2, <2>4 DEF MergeBothChanged, ConflictKind, Mirrored
  <2>. QED  BY <2>3, <2>4
<1>. QED
  BY <1>2, <1>3, <1>4, <1>5

(* Two devices that merge the same two versions come to the same verdict   *)
(* and the same content, unless exactly one of the versions is locked.     *)
THEOREM MergesMirror == Spec => []Mirror
<1>1. ASSUME TypeOK, IsLocked(Local0) <=> IsLocked(Remote0), frozen = None
      PROVE  Mirrored(Result, MergeEntity(base, remote, local, None, device))
  <2>. DEFINE there == MergeEntity(base, remote, local, None, device)
  <2>1. Base0 \in Entity /\ Local0 \in Entity /\ Remote0 \in Entity /\ device \in Device
    BY <1>1, ResultType DEF TypeOK
  <2>2. \A e : Agree(e).local = e /\ Agree(e).conflict = None
    BY DEF Agree
  <2>3. \A x, y : SameBusiness(x, y) => SameBusiness(y, x)
    BY DEF SameBusiness
  <2>4. \A x : SameBusiness(x, x)
    BY DEF SameBusiness
  <2>. DEFINE new == /\ Base0.rec = None /\ Local0.rec # None /\ Remote0.rec # None
                     /\ SameBusiness(Local0.rec, Remote0.rec)
  <2>5. \/ \E e : Result = Agree(e) /\ there = Agree(e)
        \/ /\ new
           /\ Result \in {Agree(Local0), Agree(Remote0)} /\ there \in {Agree(Local0), Agree(Remote0)}
        \/ /\ Result = MergeBothChanged(Base0, Local0, Remote0, device)
           /\ there = MergeBothChanged(Base0, Remote0, Local0, device)
    <3>1. CASE base = Absent /\ local = Absent /\ remote = Absent
      BY <3>1 DEF Result, MergeEntity
    <3>2. CASE ~(base = Absent /\ local = Absent /\ remote = Absent)
      BY <1>1, <2>3, <3>2 DEF Result, MergeEntity, Base0, Local0, Remote0
    <3>. QED  BY <3>1, <3>2
  <2>. HIDE DEF there, new
  <2>6. new => /\ Local0.rec # None /\ Remote0.rec # None
               /\ SameBusiness(Local0.rec, Remote0.rec) /\ SameBusiness(Remote0.rec, Local0.rec)
    BY <2>3 DEF new
  <2>7. Mirrored(Result, there)
    BY <1>1, <2>1, <2>2, <2>4, <2>5, <2>6, BothChangedMirrors DEF Mirrored
  <2>. QED  BY <2>7 DEF there
<1>2. TypeOK => Mirror
  BY <1>1 DEF Mirror, Mirrored
<1>. QED
  BY <1>2, MergeTypeOK, PTL

-----------------------------------------------------------------------------
(*                      The history of a series                            *)

(* The facts about the merge of a record, for the fields of a series.      *)
Merge == INSTANCE SyncMergeProofs WITH
  Device <- Tracker, Field <- Tracked, Value <- Numbers

(* What they assume of the constants, and what the history assumes.        *)
LEMMA HistoryConstants ==
  /\ Merge!NoneAssumption
  /\ MaxTotal \in Nat /\ MaxTotal >= 2 /\ MaxRev0 \in Nat
  /\ None \notin Tracker /\ None \notin [at : Tracker \cup {None}, rev : Nat]
<1>1. Merge!NoneAssumption
  BY MergingAssumption
    DEF History!NoneAssumption, Merge!NoneAssumption, History!Record, Merge!Record,
      History!Tombstone, Merge!Tombstone, History!Conflict, Merge!Conflict,
      History!ConflictKind, Merge!ConflictKind
<1>. QED
  BY <1>1, MergingAssumption DEF History!EpisodeHistoryAssumption, History!Watched

(* The merge of these modules is the merge of SyncMerge, for each of them. *)
LEMMA SameMerges ==
  ASSUME NEW b, NEW l, NEW r, NEW old, NEW d
  PROVE  /\ History!MergeEntity(b, l, r, old, d) = Merge!MergeEntity(b, l, r, old, d)
         /\ Revision!MergeEntity(b, l, r, old, d) = Merge!MergeEntity(b, l, r, old, d)
<1>1. ASSUME NEW x, NEW y, NEW z
      PROVE  History!MergeBothChanged(x, y, z, d) = Merge!MergeBothChanged(x, y, z, d)
  BY
    DEF History!MergeBothChanged, Merge!MergeBothChanged, History!DeletionOf, Merge!DeletionOf,
      History!MaxRev, Merge!MaxRev, History!MaxOf, Merge!MaxOf, History!RevOf, Merge!RevOf,
      History!TombEntity, Merge!TombEntity, History!Agree, Merge!Agree, History!IsLocked, Merge!IsLocked,
      History!MergeRecords, Merge!MergeRecords, History!ChangedFields, Merge!ChangedFields,
      History!RecordEntity, Merge!RecordEntity, History!ClashingFields, Merge!ClashingFields,
      History!ConflictOf, Merge!ConflictOf, History!Split, Merge!Split
<1>2. ASSUME NEW x, NEW y, NEW z
      PROVE  Revision!MergeBothChanged(x, y, z, d) = Merge!MergeBothChanged(x, y, z, d)
  BY
    DEF Revision!MergeBothChanged, Merge!MergeBothChanged, Revision!DeletionOf, Merge!DeletionOf,
      Revision!MaxRev, Merge!MaxRev, Revision!MaxOf, Merge!MaxOf, Revision!RevOf, Merge!RevOf,
      Revision!TombEntity, Merge!TombEntity, Revision!Agree, Merge!Agree, Revision!IsLocked, Merge!IsLocked,
      Revision!MergeRecords, Merge!MergeRecords, Revision!ChangedFields, Merge!ChangedFields,
      Revision!RecordEntity, Merge!RecordEntity, Revision!ClashingFields, Merge!ClashingFields,
      Revision!ConflictOf, Merge!ConflictOf, Revision!Split, Merge!Split
<1>3. History!MergeEntity(b, l, r, old, d) = Merge!MergeEntity(b, l, r, old, d)
  BY <1>1, Zenon
    DEF History!MergeEntity, Merge!MergeEntity, History!Agree, Merge!Agree, History!Split, Merge!Split,
      History!Absent, Merge!Absent, History!IsLocked, Merge!IsLocked, History!SameBusiness,
      Merge!SameBusiness, History!EntityOf, Merge!EntityOf, History!TombEntity, Merge!TombEntity,
      History!RecordEntity, Merge!RecordEntity
<1>4. Revision!MergeEntity(b, l, r, old, d) = Merge!MergeEntity(b, l, r, old, d)
  BY <1>2, Zenon
    DEF Revision!MergeEntity, Merge!MergeEntity, Revision!Agree, Merge!Agree, Revision!Split, Merge!Split,
      Revision!Absent, Merge!Absent, Revision!IsLocked, Merge!IsLocked, Revision!SameBusiness,
      Merge!SameBusiness, Revision!EntityOf, Merge!EntityOf, Revision!TombEntity, Merge!TombEntity,
      Revision!RecordEntity, Merge!RecordEntity
<1>. QED
  BY <1>3, <1>4

(* A record that is not locked.                                            *)
Unlocked(r) == r \in Merge!Record /\ ~r.locked

(* What a merge of three versions of a series leaves: one version for both *)
(* sides, or the two versions as they were and the conflict about them.    *)
Outcome(b, l, r, old, m) ==
  /\ m.local.rec \in Merge!Record /\ m.remote.rec \in Merge!Record
  /\ m.conflict \in Merge!Conflict \cup {None}
  /\ Unlocked(b) /\ Unlocked(l) /\ Unlocked(r) => Unlocked(m.local.rec) /\ Unlocked(m.remote.rec)
  /\ m.conflict # None => /\ m.local.rec = l /\ m.remote.rec = r
                          /\ m.conflict.local = l /\ m.conflict.remote = r
  /\ m.conflict = None => /\ old = None /\ m.local.rec = m.remote.rec
                          /\ \/ l = r /\ m.local.rec = l
                             \/ l = b /\ m.local.rec = r
                             \/ r = b /\ m.local.rec = l
                             \/ m.local.rec.rev > l.rev /\ m.local.rec.rev > r.rev

(* Every merge of three records leaves this.                               *)
LEMMA SeriesMerge ==
  ASSUME NEW b \in Merge!Record, NEW l \in Merge!Record, NEW r \in Merge!Record,
         NEW old \in Merge!Conflict \cup {None}, NEW d \in Tracker, NEW m,
         m = Merge!MergeEntity(Merge!RecordEntity(b), Merge!RecordEntity(l),
                               Merge!RecordEntity(r), old, d)
  PROVE  Outcome(b, l, r, old, m)
<1>0. Merge!NoneAssumption
  BY HistoryConstants
<1>. DEFINE eb == Merge!RecordEntity(b)
            el == Merge!RecordEntity(l)
            er == Merge!RecordEntity(r)
<1>1. /\ eb \in Merge!Entity /\ el \in Merge!Entity /\ er \in Merge!Entity
      /\ eb.rec = b /\ el.rec = l /\ er.rec = r
      /\ b # None /\ l # None /\ r # None
  BY HistoryConstants DEF Merge!RecordEntity, Merge!Entity, Merge!NoneAssumption
<1>2. /\ Merge!EntityOf(eb, Merge!Absent) = eb
      /\ Merge!EntityOf(el, eb) = el /\ Merge!EntityOf(er, eb) = er
  BY <1>1 DEF Merge!EntityOf, Merge!RecordEntity
<1>3. m \in Merge!MergeResult
  BY <1>0, <1>1, Merge!MergeEntityType
<1>4. Merge!Faithful(el, er, m)
  <2>1. LET x == Merge!EntityOf(eb, Merge!Absent)
        IN  Merge!Faithful(Merge!EntityOf(el, x), Merge!EntityOf(er, x), m)
    BY <1>0, <1>1, Merge!MergeIsFaithful
  <2>. HIDE DEF eb, el, er
  <2>. QED
    BY <1>2, <2>1
<1>5. ASSUME m.conflict = None
      PROVE  Merge!SilentCase(eb, el, er, m, d)
  <2>1. LET x == Merge!EntityOf(eb, Merge!Absent)
        IN  Merge!SilentCase(x, Merge!EntityOf(el, x), Merge!EntityOf(er, x), m, d)
    BY <1>0, <1>1, <1>5, Merge!SilentMerge
  <2>. HIDE DEF eb, el, er
  <2>. QED
    BY <1>2, <2>1
<1>6. m.conflict = None => old = None
  <2>1. eb # Merge!Absent
    BY <1>1 DEF Merge!Absent
  <2>2. ASSUME old # None
        PROVE  m = Merge!Split(el, er, [old EXCEPT !.local = l, !.remote = r])
    <3>. HIDE DEF eb, el, er
    <3>. QED
      BY <1>1, <1>2, <2>1, <2>2 DEF Merge!MergeEntity, eb, el, er
  <2>3. ASSUME old # None
        PROVE  [old EXCEPT !.local = l, !.remote = r] \in Merge!Conflict
    BY <2>3 DEF Merge!Conflict
  <2>. QED
    BY <2>2, <2>3, HistoryConstants DEF Merge!Split, Merge!NoneAssumption
<1>7. ASSUME m.conflict = None
      PROVE  /\ m.local.rec \in Merge!Record
             /\ \/ l = r /\ m.local.rec = l
                \/ l = b /\ m.local.rec = r
                \/ r = b /\ m.local.rec = l
                \/ m.local.rec.rev > l.rev /\ m.local.rec.rev > r.rev
  <2>1. CASE el = er /\ m = Merge!Agree(el)
    BY <1>1, <2>1 DEF Merge!Agree
  <2>2. CASE el = eb /\ m = Merge!Agree(er)
    BY <1>1, <2>2 DEF Merge!Agree
  <2>3. CASE er = eb /\ m = Merge!Agree(el)
    BY <1>1, <2>3 DEF Merge!Agree
  <2>4. CASE m = Merge!Agree(Merge!RecordEntity(Merge!MergeRecords(b, l, r, d)))
    <3>1. m.local.rec = Merge!MergeRecords(b, l, r, d)
      BY <2>4 DEF Merge!Agree, Merge!RecordEntity
    <3>2. m.local.rec \in Merge!Record
      BY <1>0, <3>1, Merge!MergeRecordsType
    <3>3. m.local.rec.rev = Merge!MaxOf(b.rev, Merge!MaxOf(l.rev, r.rev)) + 1
      BY <3>1 DEF Merge!MergeRecords
    <3>. QED
      BY <3>2, <3>3 DEF Merge!MaxOf, Merge!Record
  <2>. HIDE DEF eb, el, er
  <2>. QED
    BY <1>1, <1>5, <1>7, <2>1, <2>2, <2>3, <2>4 DEF Merge!SilentCase
<1>8. ASSUME Unlocked(b), Unlocked(l), Unlocked(r)
      PROVE  ~Merge!IsLocked(m.local) /\ ~Merge!IsLocked(m.remote)
  <2>1. ~Merge!IsLocked(eb) /\ ~Merge!IsLocked(el) /\ ~Merge!IsLocked(er)
    BY <1>1, <1>8 DEF Merge!IsLocked, Unlocked
  <2>. QED
    BY <1>0, <1>1, <2>1, Merge!MergeIsUnlocked
<1>. HIDE DEF eb, el, er
<1>9. m.local.rec \in Merge!Record /\ m.remote.rec \in Merge!Record
  BY <1>1, <1>4, <1>7 DEF Merge!Faithful
<1>10. m.local.rec # None /\ m.remote.rec # None
  BY <1>9, HistoryConstants DEF Merge!NoneAssumption
<1>. QED
  BY <1>1, <1>3, <1>4, <1>6, <1>7, <1>8, <1>9, <1>10
    DEF Merge!Faithful, Merge!MergeResult, Merge!IsLocked, Unlocked, Outcome

-----------------------------------------------------------------------------
Completions == [at : Tracker \cup {None}, rev : Nat]
Episodes == [1..MaxTotal -> Completions \cup {None}]

(* Where no series is locked: every version is unlocked, also those of a   *)
(* conflict, which a user may choose.                                      *)
SeriesTypes ==
  /\ rec \in [Tracker -> Merge!Record] /\ seen \in [Tracker -> Merge!Record]
  /\ comps \in [Tracker -> Episodes]
  /\ common \in [Tracker -> [rec : Merge!Record, comps : Episodes]]
  /\ cloud \in [rec : Merge!Record, comps : Episodes]
  /\ conflict \in [Tracker -> Merge!Conflict \cup {None}]
  /\ ~cloud.rec.locked
  /\ \A d \in Tracker : /\ ~rec[d].locked /\ ~common[d].rec.locked
                        /\ conflict[d] # None => /\ Unlocked(conflict[d].local)
                                                 /\ Unlocked(conflict[d].remote)

(* What a device last agreed on with the file, neither has lost.           *)
HistoryInv ==
  /\ SeriesTypes
  /\ \A d \in Tracker : /\ History!Kept(common[d].comps, comps[d])
                        /\ History!Kept(common[d].comps, cloud.comps)

(* What was kept twice was kept.                                           *)
LEMMA KeptTwice ==
  ASSUME NEW g, NEW h, NEW i, History!Kept(g, h), History!Kept(h, i)
  PROVE  History!Kept(g, i)
BY DEF History!Kept

(* A history keeps itself.                                                 *)
LEMMA KeptSame == \A h : History!Kept(h, h)
BY DEF History!Kept

(* The merge of an episode forgets neither side's, if neither side forgot  *)
(* what both had.                                                          *)
LEMMA MergedEpisodeKeeps ==
  ASSUME NEW b \in Completions \cup {None}, NEW l \in Completions \cup {None},
         NEW r \in Completions \cup {None}, NEW h \in History!MergedEpisode(b, l, r),
         b # None => l # None /\ r # None,
         History!Known(b) => History!Known(l) /\ History!Known(r)
  PROVE  /\ h \in Completions \cup {None}
         /\ l # None => h # None
         /\ r # None => h # None
         /\ History!Known(l) => History!Known(h)
         /\ History!Known(r) => History!Known(h)
<1>1. CASE l = r \/ r = b
  <2>1. h = l
    BY <1>1 DEF History!MergedEpisode
  <2>. QED
    BY <1>1, <2>1
<1>2. CASE l # r /\ l = b
  <2>1. h = r
    BY <1>2 DEF History!MergedEpisode
  <2>. QED
    BY <1>2, <2>1
<1>3. CASE l # r /\ l # b /\ r # b
  <2>1. h \in IF l = None \/ r = None THEN {l, r} \ {None}
              ELSE IF ~History!Known(l) /\ History!Known(r) THEN {r}
              ELSE IF ~History!Known(r) /\ History!Known(l) THEN {l}
              ELSE IF l.at = r.at THEN {IF l.rev >= r.rev THEN l ELSE r}
              ELSE {l, r}
    BY <1>3 DEF History!MergedEpisode
  <2>. QED
    BY <2>1 DEF History!Known
<1>. QED
  BY <1>1, <1>2, <1>3

(* Completing episodes keeps those that were completed.                    *)
LEMMA CompletingKeeps ==
  ASSUME NEW h \in Episodes, NEW from, NEW upto, NEW d \in Tracker
  PROVE  /\ History!CompletedEpisodes(h, from, upto, d) \in Episodes
         /\ History!Kept(h, History!CompletedEpisodes(h, from, upto, d))
<1>. DEFINE g == History!CompletedEpisodes(h, from, upto, d)
<1>1. ASSUME NEW e \in 1..MaxTotal
      PROVE  /\ g[e] \in Completions \cup {None}
             /\ h[e] # None => g[e] # None
             /\ History!Known(h[e]) => History!Known(g[e])
  <2>1. \/ g[e] = h[e]
        \/ h[e] = None /\ g[e] = [at |-> None, rev |-> 1]
        \/ h[e] = None /\ g[e] = [at |-> d, rev |-> 1]
        \/ h[e] # None /\ h[e].at = None /\ g[e] = [at |-> d, rev |-> h[e].rev + 1]
    BY DEF History!CompletedEpisodes, History!Episode
  <2>2. h[e] \in Completions \cup {None}
    BY DEF Episodes
  <2>3. \A n \in Nat : [at |-> d, rev |-> n] \in Completions /\ [at |-> None, rev |-> 1] \in Completions
    BY DEF Completions
  <2>4. None \notin Completions
    BY HistoryConstants DEF Completions
  <2>5. h[e] # None => h[e].rev + 1 \in Nat
    BY <2>2 DEF Completions
  <2>. HIDE DEF g
  <2>. QED
    BY <2>1, <2>2, <2>3, <2>4, <2>5 DEF History!Known
<1>2. g = [e \in 1..MaxTotal |-> g[e]]
  BY DEF History!CompletedEpisodes, History!Episode
<1>. HIDE DEF g
<1>3. g \in Episodes
  BY <1>1, <1>2 DEF Episodes
<1>4. History!Kept(h, g)
  BY <1>1 DEF History!Kept, History!Episode
<1>. QED
  BY <1>3, <1>4 DEF g

(* A write of a device: a typed record with the next revision.             *)
LEMMA PutKeepsTypes ==
  ASSUME SeriesTypes, NEW d \in Tracker, NEW f \in [Tracked -> Numbers],
         History!Put(d, f, rec[d].locked)
  PROVE  /\ rec' \in [Tracker -> Merge!Record] /\ seen' \in [Tracker -> Merge!Record]
         /\ \A o \in Tracker : ~rec'[o].locked
         /\ rec'[d].rev = rec[d].rev + 1 /\ seen'[d] = rec'[d]
         /\ \A o \in Tracker \ {d} : rec'[o] = rec[o] /\ seen'[o] = seen[o]
<1>. DEFINE r == [f |-> f, locked |-> rec[d].locked, rev |-> rec[d].rev + 1, actor |-> d]
<1>1. rec[d] \in Merge!Record /\ ~rec[d].locked
  BY DEF SeriesTypes
<1>2. r \in Merge!Record /\ ~r.locked /\ r.rev = rec[d].rev + 1
  BY <1>1 DEF Merge!Record
<1>3. rec' = [rec EXCEPT ![d] = r] /\ seen' = [seen EXCEPT ![d] = r]
  BY DEF History!Put
<1>. HIDE DEF r
<1>. QED
  BY <1>2, <1>3 DEF SeriesTypes

(* What the commands of a device come to, for each of the two instances.   *)
Writes(d) ==
  /\ \E f \in [Tracked -> Numbers] : History!Put(d, f, rec[d].locked)
  /\ \/ comps' = comps
     \/ \E from, upto \in Int :
          comps' = [comps EXCEPT ![d] = History!CompletedEpisodes(comps[d], from, upto, d)]
  /\ UNCHANGED <<common, conflict, cloud>>
Reads(d) == seen' = [seen EXCEPT ![d] = rec[d]] /\ UNCHANGED <<rec, comps, common, conflict, cloud>>
Decides(d) ==
  /\ conflict[d] # None
  /\ \E r \in {conflict[d].local, conflict[d].remote} :
       rec' = [rec EXCEPT ![d] = r] /\ seen' = [seen EXCEPT ![d] = r]
  /\ conflict' = [conflict EXCEPT ![d] = None] /\ UNCHANGED <<comps, common, cloud>>

(* What a pass comes to, where no series is locked.                        *)
MergedBy(d) ==
  Merge!MergeEntity(Merge!RecordEntity(common[d].rec), Merge!RecordEntity(rec[d]),
                    Merge!RecordEntity(cloud.rec), conflict[d], d)
Passes(d) ==
  /\ cloud' = [rec |-> MergedBy(d).remote.rec, comps |-> cloud'.comps]
  /\ \A e \in 1..MaxTotal :
       cloud'.comps[e] \in History!MergedEpisode(common[d].comps[e], comps[d][e], cloud.comps[e])
  /\ \E h : cloud'.comps = [e \in 1..MaxTotal |-> h[e]]
  /\ \/ UNCHANGED <<rec, comps, common, conflict>>
     \/ /\ rec' = [rec EXCEPT ![d] = MergedBy(d).local.rec]
        /\ comps' = [comps EXCEPT ![d] = cloud'.comps]
        /\ common' = [common EXCEPT ![d] = cloud']
        /\ conflict' = [conflict EXCEPT ![d] = MergedBy(d).conflict]
  /\ UNCHANGED seen

(* The fields after progress are fields.                                   *)
LEMMA ProgressedType ==
  ASSUME NEW f \in [Tracked -> Numbers], NEW next \in Numbers
  PROVE  History!Progressed(f, next) \in [Tracked -> Numbers]
<1>1. 1 \in Numbers /\ 2 \in Numbers
  BY HistoryConstants DEF Numbers
<1>2. (IF next = 0 THEN History!Watched ELSE History!Watching) \in Numbers
  BY <1>1 DEF History!Watched, History!Watching
<1>. DEFINE g == [f EXCEPT !["next"] = next]
            k == [g EXCEPT !["enabled"] = 1]
<1>3. g \in [Tracked -> Numbers]
  OBVIOUS
<1>4. k \in [Tracked -> Numbers]
  BY <1>1, <1>3
<1>5. History!Progressed(f, next) =
        [k EXCEPT !["status"] = IF next = 0 THEN History!Watched ELSE History!Watching]
  BY DEF History!Progressed, Tracked
<1>. HIDE DEF g, k
<1>. QED
  BY <1>2, <1>4, <1>5

(* The commands of EpisodeHistory write, read or decide.                   *)
LEMMA LocalSteps ==
  ASSUME SeriesTypes, NEW d \in Tracker
  PROVE  /\ History!Local(d) => Writes(d) \/ Reads(d) \/ Decides(d)
         /\ Revision!Local(d) => Writes(d) \/ Reads(d)
<1>0. /\ rec[d].f \in [Tracked -> Numbers] /\ {"next", "total"} \subseteq Tracked
      /\ rec[d].f["next"] \in Numbers /\ rec[d].f["total"] \in Numbers
      /\ rec[d].f.next = rec[d].f["next"] /\ rec[d].f.total = rec[d].f["total"]
  BY DEF SeriesTypes, Merge!Record, Tracked
<1>1. ASSUME NEW e \in 1..MaxTotal, History!Enable(d, e)
      PROVE  Writes(d)
  BY <1>0, <1>1, HistoryConstants, ProgressedType DEF History!Enable, Writes, Numbers
<1>2. ASSUME NEW e \in 0..MaxTotal, History!SetNext(d, e)
      PROVE  Writes(d)
  <2>1. History!Put(d, History!Progressed(rec[d].f, e), rec[d].locked)
    BY <1>2 DEF History!SetNext
  <2>2. History!Progressed(rec[d].f, e) \in [Tracked -> Numbers]
    BY <1>0, ProgressedType DEF Numbers
  <2>. DEFINE boundary == IF e = 0 THEN rec[d].f.total ELSE e - 1
  <2>3. boundary \in Int /\ rec[d].f.next \in Int
    BY <1>0, HistoryConstants DEF Numbers
  <2>4. \/ comps' = [comps EXCEPT ![d] = @]
        \/ comps' = [comps EXCEPT ![d] =
                       History!CompletedEpisodes(comps[d], rec[d].f.next, boundary, d)]
    BY <1>2 DEF History!SetNext
  <2>5. [comps EXCEPT ![d] = @] = comps
    BY DEF SeriesTypes
  <2>6. UNCHANGED <<common, conflict, cloud>>
    BY <1>2 DEF History!SetNext
  <2>. HIDE DEF boundary
  <2>. QED
    BY <2>1, <2>2, <2>3, <2>4, <2>5, <2>6 DEF Writes
<1>3. ASSUME NEW field \in {"total", "status"}, NEW v \in 0..MaxTotal, History!Edit(d, field, v)
      PROVE  Writes(d)
  <2>1. [rec[d].f EXCEPT ![field] = v] \in [Tracked -> Numbers]
    BY <1>0 DEF Tracked, Numbers
  <2>. QED
    BY <1>3, <2>1 DEF History!Edit, Writes
<1>4. ASSUME History!ToggleLock(d)
      PROVE  FALSE
  BY <1>4 DEF History!ToggleLock
<1>5. History!Reload(d) => Reads(d)
  BY DEF History!Reload, Reads
<1>6. ASSUME NEW r, History!Resolve(d, r)
      PROVE  Decides(d)
  BY <1>6 DEF History!Resolve, Decides
<1>7. History!Local(d) => Writes(d) \/ Reads(d) \/ Decides(d)
  BY <1>1, <1>2, <1>3, <1>4, <1>5, <1>6 DEF History!Local, History!Episode
<1>8. /\ \A e : Revision!Enable(d, e) => History!Enable(d, e)
      /\ \A e : Revision!SetNext(d, e) => History!SetNext(d, e)
      /\ \A field, v : Revision!Edit(d, field, v) => History!Edit(d, field, v)
      /\ Revision!Reload(d) => History!Reload(d)
      /\ ~Revision!ToggleLock(d) /\ \A r : ~Revision!Resolve(d, r)
  <2>1. /\ Revision!Valid(d) = History!Valid(d) /\ Revision!WithinTotal(d) = History!WithinTotal(d)
        /\ \A f, next : Revision!Progressed(f, next) = History!Progressed(f, next)
        /\ \A f, locked : Revision!Put(d, f, locked) = History!Put(d, f, locked)
        /\ \A h, from, upto :
             Revision!CompletedEpisodes(h, from, upto, d) = History!CompletedEpisodes(h, from, upto, d)
    BY DEF Revision!Valid, History!Valid, Revision!WithinTotal, History!WithinTotal,
         Revision!Last, History!Last, Revision!NoHistory, History!NoHistory,
         Revision!Episode, History!Episode, Revision!Progressed, History!Progressed,
         Revision!Watched, History!Watched, Revision!Watching, History!Watching,
         Revision!Put, History!Put, Revision!CompletedEpisodes, History!CompletedEpisodes
  <2>. QED
    BY <2>1 DEF Revision!Enable, History!Enable, Revision!SetNext, History!SetNext,
         Revision!Watched, History!Watched, Revision!Edit, History!Edit,
         Revision!Reload, History!Reload, Revision!ToggleLock, Revision!Resolve
<1>9. Revision!Local(d) => Writes(d) \/ Reads(d)
  BY <1>1, <1>2, <1>3, <1>5, <1>8 DEF Revision!Local, Revision!Episode
<1>. QED
  BY <1>7, <1>9

(* A pass of EpisodeHistory, for each of the two instances.                *)
LEMMA PassSteps ==
  ASSUME SeriesTypes, NEW d \in Tracker
  PROVE  /\ History!Sync(d) => Passes(d)
         /\ Revision!Sync(d) => Passes(d)
<1>. DEFINE m == MergedBy(d)
<1>0. ~rec[d].locked
  BY DEF SeriesTypes
<1>1. ASSUME History!Sync(d)
      PROVE  Passes(d)
  <2>1. History!MergeEntity(History!RecordEntity(common[d].rec), History!RecordEntity(rec[d]),
          History!RecordEntity(cloud.rec), conflict[d], d) = m
    BY SameMerges DEF MergedBy, History!RecordEntity, Merge!RecordEntity
  <2>. HIDE DEF m
  <2>2. PICK h \in History!History :
          /\ \A e \in 1..MaxTotal :
               h[e] \in History!MergedEpisode(common[d].comps[e], comps[d][e], cloud.comps[e])
          /\ cloud' = [rec |-> m.remote.rec, comps |-> h]
          /\ \/ /\ rec' = [rec EXCEPT ![d] = m.local.rec]
                /\ comps' = [comps EXCEPT ![d] = History!Committed(d, h)]
                /\ common' = [common EXCEPT ![d] = cloud']
                /\ conflict' = [conflict EXCEPT ![d] = m.conflict]
             \/ UNCHANGED <<rec, comps, common, conflict>>
    BY <1>0, <1>1, <2>1 DEF History!Sync, History!Episode
  <2>3. History!Committed(d, h) = h /\ h = [e \in 1..MaxTotal |-> h[e]]
    BY <1>0 DEF History!Committed, History!History, History!Episode
  <2>4. UNCHANGED seen
    BY <1>1 DEF History!Sync
  <2>. QED
    BY <2>2, <2>3, <2>4 DEF Passes, m
<1>2. ASSUME Revision!Sync(d)
      PROVE  Passes(d)
  <2>1. Revision!MergeEntity(Revision!RecordEntity(common[d].rec), Revision!RecordEntity(rec[d]),
          Revision!RecordEntity(cloud.rec), conflict[d], d) = m
    BY SameMerges DEF MergedBy, Revision!RecordEntity, Merge!RecordEntity
  <2>. HIDE DEF m
  <2>0. \A b, l, r : Revision!MergedEpisode(b, l, r) = History!MergedEpisode(b, l, r)
    BY DEF Revision!MergedEpisode, History!MergedEpisode, Revision!Known, History!Known
  <2>2. PICK h \in Revision!History :
          /\ \A e \in 1..MaxTotal :
               h[e] \in History!MergedEpisode(common[d].comps[e], comps[d][e], cloud.comps[e])
          /\ cloud' = [rec |-> m.remote.rec, comps |-> h]
          /\ \/ /\ rec' = [rec EXCEPT ![d] = m.local.rec]
                /\ comps' = [comps EXCEPT ![d] = Revision!Committed(d, h)]
                /\ common' = [common EXCEPT ![d] = cloud']
                /\ conflict' = [conflict EXCEPT ![d] = m.conflict]
             \/ UNCHANGED <<rec, comps, common, conflict>>
    BY <1>0, <1>2, <2>0, <2>1 DEF Revision!Sync, Revision!Episode
  <2>3. Revision!Committed(d, h) = h /\ h = [e \in 1..MaxTotal |-> h[e]]
    BY <1>0 DEF Revision!Committed, Revision!History, Revision!Episode
  <2>4. UNCHANGED seen
    BY <1>2 DEF Revision!Sync
  <2>. QED
    BY <2>2, <2>3, <2>4 DEF Passes, m
<1>. QED
  BY <1>1, <1>2

(* What a pass merges is typed and unlocked, and neither side's episodes   *)
(* are lost.                                                               *)
LEMMA PassMergesHistory ==
  ASSUME HistoryInv, NEW d \in Tracker, Passes(d)
  PROVE  /\ cloud' \in [rec : Merge!Record, comps : Episodes] /\ ~cloud'.rec.locked
         /\ Unlocked(MergedBy(d).local.rec)
         /\ MergedBy(d).conflict \in Merge!Conflict \cup {None}
         /\ MergedBy(d).conflict # None => /\ Unlocked(MergedBy(d).conflict.local)
                                           /\ Unlocked(MergedBy(d).conflict.remote)
         /\ History!Kept(cloud.comps, cloud'.comps) /\ History!Kept(comps[d], cloud'.comps)
<1>. DEFINE m == MergedBy(d)
<1>1. /\ Unlocked(rec[d]) /\ Unlocked(common[d].rec) /\ Unlocked(cloud.rec)
      /\ conflict[d] \in Merge!Conflict \cup {None}
      /\ comps[d] \in Episodes /\ common[d].comps \in Episodes /\ cloud.comps \in Episodes
  BY DEF HistoryInv, SeriesTypes, Unlocked
<1>2. /\ Unlocked(m.local.rec) /\ Unlocked(m.remote.rec)
      /\ m.conflict \in Merge!Conflict \cup {None}
      /\ m.conflict # None => m.conflict.local = rec[d] /\ m.conflict.remote = cloud.rec
  <2>. DEFINE b == common[d].rec
              l == rec[d]
              r == cloud.rec
              old == conflict[d]
  <2>1. m = Merge!MergeEntity(Merge!RecordEntity(b), Merge!RecordEntity(l), Merge!RecordEntity(r), old, d)
    BY DEF MergedBy
  <2>2. b \in Merge!Record /\ l \in Merge!Record /\ r \in Merge!Record
    BY <1>1 DEF Unlocked
  <2>. HIDE DEF m, b, l, r, old
  <2>3. Unlocked(b) /\ Unlocked(l) /\ Unlocked(r) /\ old \in Merge!Conflict \cup {None}
    BY <1>1 DEF b, l, r, old
  <2>4. Outcome(b, l, r, old, m)
    BY <2>1, <2>2, <2>3, SeriesMerge
  <2>. QED
    BY <2>3, <2>4 DEF Outcome, l, r
<1>. HIDE DEF m
<1>3. ASSUME NEW e \in 1..MaxTotal
      PROVE  /\ cloud'.comps[e] \in Completions \cup {None}
             /\ comps[d][e] # None \/ cloud.comps[e] # None => cloud'.comps[e] # None
             /\ History!Known(comps[d][e]) \/ History!Known(cloud.comps[e])
                  => History!Known(cloud'.comps[e])
  <2>. DEFINE b == common[d].comps[e]
              l == comps[d][e]
              r == cloud.comps[e]
  <2>1. b \in Completions \cup {None} /\ l \in Completions \cup {None} /\ r \in Completions \cup {None}
    BY <1>1 DEF Episodes
  <2>2. /\ b # None => l # None /\ r # None
        /\ History!Known(b) => History!Known(l) /\ History!Known(r)
    BY DEF HistoryInv, History!Kept, History!Episode
  <2>3. cloud'.comps[e] \in History!MergedEpisode(b, l, r)
    BY DEF Passes
  <2>. HIDE DEF b, l, r
  <2>4. /\ cloud'.comps[e] \in Completions \cup {None}
        /\ l # None \/ r # None => cloud'.comps[e] # None
        /\ History!Known(l) \/ History!Known(r) => History!Known(cloud'.comps[e])
    BY <2>1, <2>2, <2>3, MergedEpisodeKeeps
  <2>. QED
    BY <2>4 DEF l, r
<1>4. cloud'.comps \in Episodes
  BY <1>3 DEF Passes, Episodes
<1>5. cloud' = [rec |-> m.remote.rec, comps |-> cloud'.comps]
  BY DEF Passes, m
<1>6. History!Kept(cloud.comps, cloud'.comps) /\ History!Kept(comps[d], cloud'.comps)
  BY <1>3 DEF History!Kept, History!Episode
<1>. QED
  BY <1>1, <1>2, <1>4, <1>5, <1>6 DEF m, Unlocked

(* The initial states, of each of the two instances.                       *)
LEMMA HistoryInit == History!Init \/ Revision!Init => HistoryInv /\ seen = rec
<1>. SUFFICES ASSUME History!Init \/ Revision!Init
              PROVE  HistoryInv /\ seen = rec
  OBVIOUS
<1>1. PICK d \in Tracker, total \in 1..MaxTotal :
        cloud = [rec |-> [f |-> [x \in Tracked |-> IF x = "total" THEN total ELSE 0], locked |-> FALSE,
                          rev |-> 1, actor |-> d],
                 comps |-> [e \in 1..MaxTotal |-> None]]
  BY DEF History!Init, Revision!Init, History!NoHistory, Revision!NoHistory, History!Episode,
       Revision!Episode, History!Tracking, Revision!Tracking, Tracked
<1>2. /\ rec = [o \in Tracker |-> cloud.rec] /\ seen = rec
      /\ comps = [o \in Tracker |-> [e \in 1..MaxTotal |-> None]]
      /\ common = [o \in Tracker |-> cloud] /\ conflict = [o \in Tracker |-> None]
  BY DEF History!Init, Revision!Init, History!NoHistory, Revision!NoHistory, History!Episode,
       Revision!Episode
<1>3. cloud.rec \in Merge!Record /\ ~cloud.rec.locked
  BY <1>1, HistoryConstants DEF Merge!Record, Numbers
<1>4. cloud \in [rec : Merge!Record, comps : Episodes] /\ [e \in 1..MaxTotal |-> None] \in Episodes
  <2>1. [e \in 1..MaxTotal |-> None] \in Episodes
    BY DEF Episodes
  <2>. DEFINE none == [e \in 1..MaxTotal |-> None]
  <2>. HIDE DEF none
  <2>2. cloud = [rec |-> cloud.rec, comps |-> none]
    BY <1>1 DEF none
  <2>3. none \in Episodes
    BY <2>1 DEF none
  <2>. QED
    BY <1>3, <2>1, <2>2, <2>3
<1>5. cloud.comps = [e \in 1..MaxTotal |-> None]
  BY <1>1
<1>6. SeriesTypes
  BY <1>2, <1>3, <1>4 DEF SeriesTypes
<1>7. \A o \in Tracker : common[o].comps = comps[o] /\ common[o].comps = cloud.comps
  BY <1>2, <1>5
<1>. QED
  BY <1>2, <1>6, <1>7, KeptSame DEF HistoryInv

(* A command keeps the invariant and what was completed.                   *)
LEMMA CommandsKeep ==
  ASSUME HistoryInv, NEW d \in Tracker, Writes(d) \/ Reads(d) \/ Decides(d)
  PROVE  HistoryInv' /\ History!KeepsHistory
<1>0. SeriesTypes
  BY DEF HistoryInv
<1>1. CASE Writes(d)
  <2>1. /\ rec' \in [Tracker -> Merge!Record] /\ seen' \in [Tracker -> Merge!Record]
        /\ \A o \in Tracker : ~rec'[o].locked
    BY <1>0, <1>1, PutKeepsTypes DEF Writes
  <2>2. /\ comps' \in [Tracker -> Episodes]
        /\ \A o \in Tracker : History!Kept(comps[o], comps'[o])
    <3>1. CASE comps' = comps
      BY <1>0, <3>1, KeptSame DEF SeriesTypes
    <3>2. ASSUME NEW from \in Int, NEW upto \in Int,
                 comps' = [comps EXCEPT ![d] = History!CompletedEpisodes(comps[d], from, upto, d)]
          PROVE  /\ comps' \in [Tracker -> Episodes]
                 /\ \A o \in Tracker : History!Kept(comps[o], comps'[o])
      <4>. DEFINE g == History!CompletedEpisodes(comps[d], from, upto, d)
      <4>1. g \in Episodes /\ History!Kept(comps[d], g)
        BY <1>0, CompletingKeeps DEF SeriesTypes
      <4>. HIDE DEF g
      <4>2. comps' = [comps EXCEPT ![d] = g]
        BY <3>2 DEF g
      <4>. QED
        BY <1>0, <4>1, <4>2, KeptSame DEF SeriesTypes
    <3>. QED
      BY <1>1, <3>1, <3>2 DEF Writes
  <2>3. UNCHANGED <<common, conflict, cloud>>
    BY <1>1 DEF Writes
  <2>4. SeriesTypes'
    BY <1>0, <2>1, <2>2, <2>3 DEF SeriesTypes
  <2>5. \A o \in Tracker : /\ History!Kept(common'[o].comps, comps'[o])
                           /\ History!Kept(common'[o].comps, cloud'.comps)
    BY <2>2, <2>3, KeptTwice DEF HistoryInv
  <2>. QED
    BY <2>2, <2>3, <2>4, <2>5, KeptSame DEF HistoryInv, History!KeepsHistory
<1>2. CASE Reads(d)
  <2>1. SeriesTypes'
    BY <1>0, <1>2 DEF SeriesTypes, Reads
  <2>. QED
    BY <1>2, <2>1, KeptSame DEF HistoryInv, Reads, History!KeepsHistory
<1>3. CASE Decides(d)
  <2>1. SeriesTypes'
    BY <1>0, <1>3 DEF SeriesTypes, Decides, Unlocked
  <2>. QED
    BY <1>3, <2>1, KeptSame DEF HistoryInv, Decides, History!KeepsHistory
<1>. QED
  BY <1>1, <1>2, <1>3

(* A pass does, too.                                                       *)
LEMMA PassKeepsHistory ==
  ASSUME HistoryInv, NEW d \in Tracker, Passes(d)
  PROVE  HistoryInv' /\ History!KeepsHistory
<1>0. SeriesTypes
  BY DEF HistoryInv
<1>. DEFINE m == MergedBy(d)
<1>1. /\ cloud' \in [rec : Merge!Record, comps : Episodes] /\ ~cloud'.rec.locked
      /\ Unlocked(m.local.rec)
      /\ m.conflict \in Merge!Conflict \cup {None}
      /\ m.conflict # None => Unlocked(m.conflict.local) /\ Unlocked(m.conflict.remote)
      /\ History!Kept(cloud.comps, cloud'.comps) /\ History!Kept(comps[d], cloud'.comps)
  BY PassMergesHistory
<1>2. seen' = seen
  BY DEF Passes
<1>3. \A o \in Tracker : History!Kept(common[o].comps, cloud'.comps)
  BY <1>1, KeptTwice DEF HistoryInv
<1>. HIDE DEF m
<1>4. CASE UNCHANGED <<rec, comps, common, conflict>>
  <2>1. SeriesTypes'
    BY <1>0, <1>1, <1>2, <1>4 DEF SeriesTypes
  <2>. QED
    BY <1>1, <1>3, <1>4, <2>1, KeptSame DEF HistoryInv, History!KeepsHistory
<1>5. CASE /\ rec' = [rec EXCEPT ![d] = m.local.rec]
           /\ comps' = [comps EXCEPT ![d] = cloud'.comps]
           /\ common' = [common EXCEPT ![d] = cloud']
           /\ conflict' = [conflict EXCEPT ![d] = m.conflict]
  <2>1. SeriesTypes'
    BY <1>0, <1>1, <1>2, <1>5 DEF SeriesTypes, Unlocked
  <2>2. ASSUME NEW o \in Tracker
        PROVE  /\ History!Kept(comps[o], comps'[o])
               /\ History!Kept(common'[o].comps, comps'[o])
               /\ History!Kept(common'[o].comps, cloud'.comps)
    <3>1. CASE o = d
      BY <1>0, <1>1, <1>5, <3>1, KeptSame DEF SeriesTypes
    <3>2. CASE o # d
      <4>1. comps'[o] = comps[o] /\ common'[o] = common[o]
        BY <1>0, <1>5, <3>2 DEF SeriesTypes
      <4>. QED
        BY <1>3, <4>1, KeptSame DEF HistoryInv
    <3>. QED
      BY <3>1, <3>2
  <2>. QED
    BY <1>1, <2>1, <2>2 DEF HistoryInv, History!KeepsHistory
<1>. QED
  BY <1>4, <1>5 DEF Passes, m

(* Of one device at most, a revision has one content.                      *)
UpTo(a, b) == a.rev < b.rev \/ (a.rev = b.rev /\ a.f = b.f)

(* A page is behind its database, and what was last agreed on behind both  *)
(* sides, but for a device that has a conflict.                            *)
RevisionInv ==
  /\ HistoryInv
  /\ \A d \in Tracker : /\ UpTo(seen[d], rec[d])
                        /\ conflict[d] = None => UpTo(common[d].rec, rec[d])
                        /\ UpTo(common[d].rec, cloud.rec)

(* Revisions are ordered.                                                  *)
LEMMA UpToTwice ==
  ASSUME NEW a \in Merge!Record, NEW b \in Merge!Record, NEW c \in Merge!Record,
         UpTo(a, b), UpTo(b, c)
  PROVE  UpTo(a, c)
BY DEF UpTo, Merge!Record

(* Every record is up to itself.                                           *)
LEMMA UpToSame == \A a : UpTo(a, a)
BY DEF UpTo

(* A pass brings each side a content that is up to what it had, and the    *)
(* same to both where there is no conflict.                                *)
LEMMA PassMergesRevisions ==
  ASSUME RevisionInv, NEW d \in Tracker, Passes(d)
  PROVE  /\ UpTo(rec[d], MergedBy(d).local.rec) /\ UpTo(cloud.rec, cloud'.rec)
         /\ MergedBy(d).conflict = None => UpTo(cloud'.rec, MergedBy(d).local.rec)
<1>. DEFINE m   == MergedBy(d)
            b   == common[d].rec
            l   == rec[d]
            r   == cloud.rec
            old == conflict[d]
<1>1. m = Merge!MergeEntity(Merge!RecordEntity(b), Merge!RecordEntity(l), Merge!RecordEntity(r), old, d)
  BY DEF MergedBy
<1>2. /\ b \in Merge!Record /\ l \in Merge!Record /\ r \in Merge!Record
      /\ old \in Merge!Conflict \cup {None}
      /\ old = None => UpTo(b, l)
      /\ UpTo(b, r)
  BY DEF RevisionInv, HistoryInv, SeriesTypes
<1>3. cloud'.rec = m.remote.rec
  BY DEF Passes
<1>. HIDE DEF m, b, l, r, old
<1>4. Outcome(b, l, r, old, m)
  BY <1>1, <1>2, SeriesMerge
<1>5. m.local.rec \in Merge!Record
  BY <1>4 DEF Outcome
<1>6. UpTo(l, m.local.rec) /\ UpTo(r, m.remote.rec)
  <2>1. CASE m.conflict # None
    BY <1>4, <2>1, UpToSame DEF Outcome
  <2>2. CASE m.conflict = None
    <3>1. CASE l = r /\ m.local.rec = l
      BY <1>4, <2>2, <3>1, UpToSame DEF Outcome
    <3>2. CASE l = b /\ m.local.rec = r
      BY <1>2, <1>4, <2>2, <3>2, UpToSame DEF Outcome
    <3>3. CASE r = b /\ m.local.rec = l
      BY <1>2, <1>4, <2>2, <3>3, UpToSame DEF Outcome
    <3>4. CASE m.local.rec.rev > l.rev /\ m.local.rec.rev > r.rev
      BY <1>2, <1>4, <1>5, <2>2, <3>4 DEF Outcome, UpTo, Merge!Record
    <3>. QED
      BY <1>4, <2>2, <3>1, <3>2, <3>3, <3>4 DEF Outcome
  <2>. QED
    BY <2>1, <2>2
<1>. QED
  BY <1>3, <1>4, <1>6, UpToSame DEF Outcome, m, l, r

(* The steps of "Revision" keep its invariant.                             *)
LEMMA RevisionKeeps ==
  ASSUME RevisionInv, NEW d \in Tracker, Writes(d) \/ Reads(d) \/ Passes(d)
  PROVE  RevisionInv'
<1>1. HistoryInv'
  BY CommandsKeep, PassKeepsHistory DEF RevisionInv
<1>2. SeriesTypes /\ SeriesTypes'
  BY <1>1 DEF RevisionInv, HistoryInv
<1>3. CASE Writes(d)
  <2>1. /\ rec'[d].rev = rec[d].rev + 1 /\ seen'[d] = rec'[d]
        /\ \A o \in Tracker \ {d} : rec'[o] = rec[o] /\ seen'[o] = seen[o]
    BY <1>2, <1>3, PutKeepsTypes DEF Writes
  <2>2. UNCHANGED <<common, conflict, cloud>>
    BY <1>3 DEF Writes
  <2>3. UpTo(rec[d], rec'[d]) /\ rec[d] \in Merge!Record /\ rec'[d] \in Merge!Record
    <3>1. rec[d] \in Merge!Record /\ rec'[d] \in Merge!Record
      BY <1>2 DEF SeriesTypes
    <3>2. rec[d].rev < rec'[d].rev
      BY <2>1, <3>1 DEF Merge!Record
    <3>3. UpTo(rec[d], rec'[d])
      BY <3>2 DEF UpTo
    <3>. QED
      BY <3>1, <3>3, Zenon
  <2>4. ASSUME NEW o \in Tracker
        PROVE  /\ UpTo(seen'[o], rec'[o])
               /\ conflict'[o] = None => UpTo(common'[o].rec, rec'[o])
               /\ UpTo(common'[o].rec, cloud'.rec)
    <3>1. UpTo(rec[o], rec'[o]) /\ UpTo(seen'[o], rec'[o])
      BY <2>1, <2>3, UpToSame DEF RevisionInv
    <3>2. common[o].rec \in Merge!Record /\ rec[o] \in Merge!Record /\ rec'[o] \in Merge!Record
      BY <1>2 DEF SeriesTypes
    <3>. QED
      BY <2>2, <3>1, <3>2, UpToTwice DEF RevisionInv
  <2>. QED
    BY <1>1, <2>4 DEF RevisionInv
<1>4. CASE Reads(d)
  <2>1. ASSUME NEW o \in Tracker
        PROVE  UpTo(seen'[o], rec'[o])
    BY <1>2, <1>4, UpToSame DEF RevisionInv, Reads, SeriesTypes
  <2>. QED
    BY <1>1, <1>4, <2>1 DEF RevisionInv, Reads
<1>5. CASE Passes(d)
  <2>. DEFINE m == MergedBy(d)
  <2>1. /\ UpTo(rec[d], m.local.rec) /\ UpTo(cloud.rec, cloud'.rec)
        /\ m.conflict = None => UpTo(cloud'.rec, m.local.rec)
    BY <1>5, PassMergesRevisions
  <2>2. seen' = seen
    BY <1>5 DEF Passes
  <2>3. \/ UNCHANGED <<rec, common, conflict>>
        \/ /\ rec' = [rec EXCEPT ![d] = m.local.rec]
           /\ common' = [common EXCEPT ![d] = cloud']
           /\ conflict' = [conflict EXCEPT ![d] = m.conflict]
    BY <1>5 DEF Passes
  <2>. HIDE DEF m
  <2>4. ASSUME NEW o \in Tracker
        PROVE  /\ UpTo(seen'[o], rec'[o])
               /\ conflict'[o] = None => UpTo(common'[o].rec, rec'[o])
               /\ UpTo(common'[o].rec, cloud'.rec)
    <3>0. /\ common[o].rec \in Merge!Record /\ rec[o] \in Merge!Record /\ rec'[o] \in Merge!Record
          /\ seen[o] \in Merge!Record /\ cloud.rec \in Merge!Record /\ cloud'.rec \in Merge!Record
      BY <1>2 DEF SeriesTypes
    <3>1. /\ UpTo(seen[o], rec[o]) /\ UpTo(common[o].rec, cloud.rec)
          /\ conflict[o] = None => UpTo(common[o].rec, rec[o])
      BY DEF RevisionInv
    <3>2. UpTo(common[o].rec, cloud'.rec)
      BY <2>1, <3>0, <3>1, UpToTwice
    <3>3. CASE rec'[o] = rec[o] /\ common'[o] = common[o] /\ conflict'[o] = conflict[o]
      BY <2>2, <3>1, <3>2, <3>3
    <3>4. CASE o = d /\ rec'[o] = m.local.rec /\ common'[o] = cloud' /\ conflict'[o] = m.conflict
      <4>1. UpTo(seen[o], rec'[o])
        BY <2>1, <3>0, <3>1, <3>4, UpToTwice
      <4>. QED
        BY <2>1, <2>2, <3>4, <4>1, UpToSame
    <3>. QED
      BY <1>2, <2>3, <3>3, <3>4 DEF SeriesTypes
  <2>. QED
    BY <1>1, <2>4 DEF RevisionInv
<1>. QED
  BY <1>3, <1>4, <1>5

-----------------------------------------------------------------------------
(* What holds of the component that runs.                                  *)
PartInv ==
  /\ part = "history" => HistoryInv
  /\ part = "revision" => RevisionInv
  /\ part = "locked history" => DOMAIN comps = Tracker

(* The steps of the locked histories touch one device's, and that of a     *)
(* locked series by no command and no pass.                                *)
LEMMA LockedSteps ==
  ASSUME DOMAIN comps = Tracker, Locked!Next
  PROVE  DOMAIN comps' = Tracker /\ Locked!LockedHistoryIsUntouchedStep
<1>1. PICK d \in Tracker : Locked!Local(d) \/ Locked!Sync(d)
  BY DEF Locked!Next
<1>2. \/ comps' = comps
      \/ \E h : comps' = [comps EXCEPT ![d] = h] /\ (rec[d].locked => h = comps[d])
  <2>1. ASSUME NEW e, Locked!SetNext(d, e)
        PROVE  ~rec[d].locked /\ \E h : comps' = [comps EXCEPT ![d] = h]
    BY <2>1 DEF Locked!SetNext, Locked!Valid
  <2>2. ASSUME Locked!Sync(d)
        PROVE  \/ comps' = comps
               \/ \E h : comps' = [comps EXCEPT ![d] = h] /\ (rec[d].locked => h = comps[d])
    <3>1. comps' = comps \/ \E h : comps' = [comps EXCEPT ![d] = Locked!Committed(d, h)]
      BY <2>2 DEF Locked!Sync
    <3>2. \A h : rec[d].locked => Locked!Committed(d, h) = comps[d]
      BY DEF Locked!Committed
    <3>. QED
      BY <3>1, <3>2
  <2>3. ASSUME Locked!Local(d)
        PROVE  comps' = comps \/ \E e : Locked!SetNext(d, e)
    BY <2>3 DEF Locked!Local, Locked!Enable, Locked!Edit, Locked!ToggleLock, Locked!Reload,
         Locked!Resolve
  <2>. QED
    BY <1>1, <2>1, <2>2, <2>3
<1>. QED
  BY <1>2 DEF Locked!LockedHistoryIsUntouchedStep

(* Every step keeps the invariant and the histories.                       *)
LEMMA PartSteps ==
  ASSUME PartInv, [AllNext]_allVars
  PROVE  /\ PartInv'
         /\ part = "history" => History!KeepsHistory
         /\ part = "locked history" => Locked!LockedHistoryIsUntouchedStep
<1>1. CASE UNCHANGED allVars
  <2>1. UNCHANGED <<part, rec, comps, common, conflict, seen, cloud>>
    BY <1>1 DEF allVars, HistoryVars
  <2>2. PartInv'
    BY <2>1 DEF PartInv, HistoryInv, RevisionInv, SeriesTypes, History!Kept, History!Known
  <2>. QED
    BY <2>1, <2>2, KeptSame DEF History!KeepsHistory, Locked!LockedHistoryIsUntouchedStep
<1>2. CASE part \in {"record", "collections"} /\ part' = part
  BY <1>2 DEF PartInv
<1>3. CASE part = "history" /\ part' = part /\ History!Next
  <2>1. PICK d \in Tracker : History!Local(d) \/ History!Sync(d)
    BY <1>3 DEF History!Next
  <2>2. HistoryInv /\ SeriesTypes
    BY <1>3 DEF PartInv, HistoryInv
  <2>3. Writes(d) \/ Reads(d) \/ Decides(d) \/ Passes(d)
    BY <2>1, <2>2, LocalSteps, PassSteps
  <2>. QED
    BY <1>3, <2>2, <2>3, CommandsKeep, PassKeepsHistory DEF PartInv
<1>4. CASE part = "revision" /\ part' = part /\ Revision!Next
  <2>1. PICK d \in Tracker : Revision!Local(d) \/ Revision!Sync(d)
    BY <1>4 DEF Revision!Next
  <2>2. RevisionInv /\ SeriesTypes
    BY <1>4 DEF PartInv, RevisionInv, HistoryInv
  <2>3. Writes(d) \/ Reads(d) \/ Passes(d)
    BY <2>1, <2>2, LocalSteps, PassSteps
  <2>. QED
    BY <1>4, <2>2, <2>3, RevisionKeeps DEF PartInv
<1>5. CASE part = "locked history" /\ part' = part /\ Locked!Next
  BY <1>5, LockedSteps DEF PartInv
<1>. QED
  BY <1>1, <1>2, <1>3, <1>4, <1>5 DEF AllNext

(* Every reachable state satisfies it.                                     *)
LEMMA PartInvHolds == AllSpec => []PartInv
<1>1. AllInit => PartInv
  <2>1. ASSUME Revision!Init
        PROVE  RevisionInv
    <3>1. HistoryInv /\ seen = rec
      BY <2>1, HistoryInit
    <3>2. \A d \in Tracker : common[d] = cloud /\ rec[d] = cloud.rec
      BY <2>1 DEF Revision!Init
    <3>. QED
      BY <3>1, <3>2, UpToSame DEF RevisionInv
  <2>2. Locked!Init => DOMAIN comps = Tracker
    BY DEF Locked!Init
  <2>. QED
    BY <2>1, <2>2, HistoryInit DEF AllInit, PartInv
<1>2. PartInv /\ [AllNext]_allVars => PartInv'
  BY PartSteps
<1>. QED
  BY <1>1, <1>2, PTL DEF AllSpec

(* What a device compares tells it truly whether it knows the history: in  *)
(* step with the file it shows the history of the file, and a revision     *)
(* sent with progress identifies what the user saw.                        *)
THEOREM HistoryTold == AllSpec => []HistoryIsAsTold
<1>1. PartInv => HistoryIsAsTold
  <2>1. ASSUME HistoryInv
        PROVE  History!InStepMeansSameHistory
    BY <2>1 DEF HistoryInv, History!InStepMeansSameHistory
  <2>2. ASSUME RevisionInv
        PROVE  Revision!RevisionShowsProgress
    BY <2>2 DEF RevisionInv, HistoryInv, SeriesTypes, Revision!RevisionShowsProgress, UpTo,
         Merge!Record
  <2>. QED
    BY <2>1, <2>2 DEF PartInv, HistoryIsAsTold
<1>. QED
  BY <1>1, PartInvHolds, PTL

(* A completed episode stays completed everywhere, also through passes,    *)
(* conflicts and refused commits, and the history of a series that stays   *)
(* locked does not change.                                                 *)
THEOREM HistoryKept == AllSpec => HistoryIsKept
<1>1. PartInv /\ [AllNext]_allVars =>
        [/\ part = "history" => History!KeepsHistory
         /\ part = "locked history" => Locked!LockedHistoryIsUntouchedStep]_allVars
  BY PartSteps
<1>. QED
  BY <1>1, PartInvHolds, PTL DEF AllSpec, HistoryIsKept

-----------------------------------------------------------------------------
(*                             The collections                             *)

Fields == {"name", "mode"}

(* The entry of a collection, and the entries of a library or a file.      *)
Entry(e) ==
  \/ \E n, f : e = [st |-> "live", at |-> n, f |-> [x \in Fields |-> f[x]]]
  \/ \E n : e = [st |-> "absent", at |-> n] \/ e = [st |-> "gone", at |-> n]
Cols(s) == (\E g : s = [c \in Cid |-> g[c]]) /\ \A c \in Cid : Entry(s[c])
Side(s) == Cols(s.cols)

(* Two entries show the same of a field.                                   *)
Same(a, b, x) ==
  /\ Collections!IsLive(a) <=> Collections!IsLive(b)
  /\ Collections!IsLive(a) => a.f[x] = b.f[x]

(* A live entry has its fields.                                            *)
LEMMA LiveEntry ==
  ASSUME NEW e, Entry(e), Collections!IsLive(e)
  PROVE  DOMAIN e.f = Fields /\ e.st = "live"
BY DEF Entry, Collections!IsLive

(* What mergeDisjoint makes of three live entries.                         *)
LEMMA DisjointEntry ==
  ASSUME NEW b, NEW l, NEW r, Entry(b), Entry(l), Entry(r), Collections!Mergeable(b, l, r),
         NEW s, s = Collections!MergeDisjoint(b, l, r)
  PROVE  /\ Entry(s) /\ Collections!IsLive(s)
         /\ \A x \in Fields :
              s.f[x] = IF b.f[x] # r.f[x] THEN r.f[x] ELSE IF b.f[x] # l.f[x] THEN l.f[x] ELSE b.f[x]
<1>1. PICK n, f : b = [st |-> "live", at |-> n, f |-> [x \in Fields |-> f[x]]]
  BY DEF Entry, Collections!Mergeable, Collections!IsLive
<1>. DEFINE g == [x \in Fields |-> IF b.f[x] # r.f[x] THEN r.f[x]
                                   ELSE IF b.f[x] # l.f[x] THEN l.f[x] ELSE b.f[x]]
            h == [x \in DOMAIN b.f |-> IF x \in Collections!Changed(b, r) THEN r.f[x]
                                       ELSE IF x \in Collections!Changed(b, l) THEN l.f[x] ELSE b.f[x]]
            k == Collections!Max({l.at, r.at})
<1>2. DOMAIN b.f = Fields
  BY <1>1
<1>3. h = g
  BY <1>2 DEF Collections!Changed
<1>4. s = [b EXCEPT !.at = k, !.f = h]
  BY DEF Collections!MergeDisjoint
<1>. HIDE DEF h, k
<1>5. s = [st |-> "live", at |-> k, f |-> g]
  <2>. HIDE DEF g
  <2>. QED
    BY <1>1, <1>3, <1>4
<1>6. s.f = g /\ s.st = "live"
  <2>. HIDE DEF g
  <2>. QED
    BY <1>5
<1>7. Entry(s)
  <2>1. s = [st |-> "live", at |-> k, f |-> [x \in Fields |-> g[x]]]
    BY <1>5
  <2>. HIDE DEF g
  <2>. QED
    BY <1>6, <2>1 DEF Entry
<1>. QED
  BY <1>6, <1>7 DEF Collections!IsLive

(* What a merge keeps of a collection that nobody is asked about: what     *)
(* this side did not change the other gives, and the other way round.      *)
LEMMA SelectedEntry ==
  ASSUME NEW b, NEW l, NEW r, Entry(b), Entry(l), Entry(r), NEW mine,
         ~Collections!Conflicting(b, l, r),
         NEW s, s = Collections!Selected(b, l, r, mine)
  PROVE  /\ Entry(s)
         /\ b.st # "gone" /\ l.st # "gone" /\ r.st # "gone" => s.st # "gone"
         /\ Collections!IsLive(s) => Collections!IsLive(l) \/ Collections!IsLive(r)
         /\ r.st = "gone" /\ Collections!IsLive(s) => b.st = "gone" /\ l.st # "gone"
         /\ (Collections!IsLive(b) => Collections!IsLive(l)) /\ Collections!IsLive(r)
              => Collections!IsLive(s)
         /\ \A x \in Fields : /\ Same(l, b, x) => Same(s, r, x)
                              /\ Same(r, b, x) => Same(s, l, x)
<1>1. \/ l \in {b, r} /\ s = r
      \/ r = b /\ s = l
      \/ Collections!Mergeable(b, l, r) /\ s = Collections!MergeDisjoint(b, l, r)
  BY DEF Collections!Selected, Collections!Conflicting
<1>2. CASE l \in {b, r} /\ s = r
  BY <1>2 DEF Same, Collections!IsLive
<1>3. CASE r = b /\ s = l
  BY <1>3 DEF Same, Collections!IsLive
<1>4. CASE Collections!Mergeable(b, l, r) /\ s = Collections!MergeDisjoint(b, l, r)
  <2>1. /\ Entry(s) /\ Collections!IsLive(s)
        /\ \A x \in Fields :
             s.f[x] = IF b.f[x] # r.f[x] THEN r.f[x] ELSE IF b.f[x] # l.f[x] THEN l.f[x] ELSE b.f[x]
    BY <1>4, DisjointEntry
  <2>2. Collections!IsLive(b) /\ Collections!IsLive(l) /\ Collections!IsLive(r)
    BY <1>4 DEF Collections!Mergeable
  <2>. QED
    BY <2>1, <2>2 DEF Same, Collections!IsLive
<1>. QED
  BY <1>1, <1>2, <1>3, <1>4

(* Whatever is kept, also by choice of the user, is an entry.              *)
LEMMA SelectedIsEntry ==
  ASSUME NEW b, NEW l, NEW r, Entry(b), Entry(l), Entry(r), NEW mine
  PROVE  Entry(Collections!Selected(b, l, r, mine))
BY DisjointEntry DEF Collections!Selected

Started(d) == pass[d].running
Sent(d) == pass[d].state

CollectionTypes ==
  /\ DOMAIN lib = Phone /\ DOMAIN shared = Phone /\ DOMAIN pass = Phone /\ DOMAIN dirty = Phone
  /\ \A d \in Phone : /\ Side(lib[d]) /\ Side(shared[d])
                      /\ Started(d) => Side(Sent(d))
  /\ Side(file)

(* What nobody deleted is nowhere gone, and what a device agreed on with   *)
(* the file is still in both.                                              *)
Undeleted(c) ==
  /\ file.cols[c].st # "gone"
  /\ \A d \in Phone :
       /\ lib[d].cols[c].st # "gone" /\ shared[d].cols[c].st # "gone"
       /\ Started(d) => Sent(d).cols[c].st # "gone"
       /\ Started(d) /\ Collections!IsLive(Sent(d).cols[c]) => Collections!IsLive(file.cols[c])
       /\ Collections!IsLive(shared[d].cols[c])
            => Collections!IsLive(lib[d].cols[c]) /\ Collections!IsLive(file.cols[c])

(* A device that did not edit a field shows what was last agreed on.       *)
OthersAgree(c, x) ==
  \A d \in Phone : d \notin author[c][x] => Same(lib[d].cols[c], shared[d].cols[c], x)

(* Of a field that only this device edited the file has what the device    *)
(* published last, which is what it shows if it was not edited since.      *)
SoleIsPublished(c, x) ==
  \A d \in Phone \ unconfirmed : author[c][x] \subseteq {d} =>
    IF Started(d)
    THEN /\ Same(Sent(d).cols[c], file.cols[c], x)
         /\ ~dirty[d] => Same(Sent(d).cols[c], lib[d].cols[c], x)
    ELSE Same(shared[d].cols[c], file.cols[c], x)

SoleStays(c, x) ==
  \A d \in Phone \ unconfirmed : author[c][x] = {d} =>
    Collections!IsLive(lib[d].cols[c]) /\ lib[d].cols[c].f[x] = written[c][x]

CollectionInv ==
  /\ CollectionTypes
  /\ \A d \in Phone, c \in Cid : shared[d].cols[c].st = "gone" => lib[d].cols[c].st = "gone"
  /\ \A c \in Cid \ disputed :
       /\ Undeleted(c)
       /\ \A x \in Fields : OthersAgree(c, x) /\ SoleIsPublished(c, x) /\ SoleStays(c, x)

(* What is the same as the same is the same.                               *)
LEMMA SameTwice ==
  ASSUME NEW a, NEW b, NEW c, NEW x, Same(a, b, x)
  PROVE  /\ Same(b, a, x)
         /\ Same(b, c, x) => Same(a, c, x)
         /\ Same(c, a, x) => Same(c, b, x)
BY DEF Same

-----------------------------------------------------------------------------
(* The commands.                                                           *)

(* What a command leaves of an entry.                                      *)
Touched(was, is) ==
  /\ Entry(is)
  /\ \/ was.st = is.st /\ (Collections!IsLive(is) => is.f = was.f)
     \/ was = Collections!Absent /\ Collections!IsLive(is)
     \/ Collections!IsLive(was) /\ Collections!IsLive(is)
     \/ Collections!IsLive(was) /\ is.st = "gone"

(* An entry that is made is one.                                           *)
LEMMA MadeEntry ==
  /\ \A n, m, k : Entry(Collections!Collection(n, m, k))
                  /\ Collections!IsLive(Collections!Collection(n, m, k))
  /\ \A k : Entry(Collections!Gone(k)) /\ Collections!Gone(k).st = "gone"
  /\ Entry(Collections!Absent) /\ Collections!Absent.st = "absent"
<1>1. ASSUME NEW n, NEW m, NEW k
      PROVE  Entry(Collections!Collection(n, m, k)) /\ Collections!IsLive(Collections!Collection(n, m, k))
  <2>. DEFINE f == [name |-> n, mode |-> m]
              e == Collections!Collection(n, m, k)
  <2>1. f = [x \in Fields |-> f[x]]
    BY DEF Fields
  <2>2. e = [st |-> "live", at |-> k, f |-> f]
    BY DEF Collections!Collection
  <2>. HIDE DEF f, e
  <2>3. e = [st |-> "live", at |-> k, f |-> [x \in Fields |-> f[x]]]
    BY <2>1, <2>2
  <2>4. Entry(e)
    BY <2>3 DEF Entry
  <2>5. Collections!IsLive(e)
    BY <2>2 DEF Collections!IsLive
  <2>. QED
    BY <2>4, <2>5 DEF e
<1>. QED
  BY <1>1 DEF Entry, Collections!Gone, Collections!Absent

(* A stamp alone changes neither state nor fields.                         *)
LEMMA StampedEntry ==
  ASSUME NEW e, Entry(e), NEW k
  PROVE  Touched(e, [e EXCEPT !.at = k])
<1>. DEFINE s == [e EXCEPT !.at = k]
<1>1. CASE \E n, f : e = [st |-> "live", at |-> n, f |-> [x \in Fields |-> f[x]]]
  <2>1. PICK n, f : e = [st |-> "live", at |-> n, f |-> [x \in Fields |-> f[x]]]
    BY <1>1
  <2>2. s = [st |-> "live", at |-> k, f |-> [x \in Fields |-> f[x]]]
    BY <2>1
  <2>. HIDE DEF s
  <2>3. Entry(s)
    BY <2>2 DEF Entry
  <2>4. s.st = e.st /\ s.f = e.f
    BY <2>1, <2>2
  <2>. QED
    BY <2>3, <2>4 DEF Touched, s
<1>2. CASE \E n : e = [st |-> "absent", at |-> n] \/ e = [st |-> "gone", at |-> n]
  <2>1. PICK n : e = [st |-> "absent", at |-> n] \/ e = [st |-> "gone", at |-> n]
    BY <1>2
  <2>2. s.st = e.st /\ (s = [st |-> "absent", at |-> k] \/ s = [st |-> "gone", at |-> k])
    BY <2>1
  <2>3. Entry(s) /\ ~Collections!IsLive(s)
    BY <2>2 DEF Entry, Collections!IsLive
  <2>. QED
    BY <2>2, <2>3 DEF Touched
<1>. QED
  BY <1>1, <1>2 DEF Entry

Edits(d) ==
  \E cols, mems : /\ Collections!Edited(d, cols, mems)
                  /\ Cols(cols) /\ \A c \in Cid : Touched(lib[d].cols[c], cols[c])

(* Putting one touched entry in its place.                                 *)
LEMMA PutEntry ==
  ASSUME NEW s, Cols(s), NEW o \in Cid, NEW e, Touched(s[o], e), NEW t, t = [s EXCEPT ![o] = e]
  PROVE  Cols(t) /\ \A c \in Cid : Touched(s[c], t[c])
<1>1. PICK g : s = [c \in Cid |-> g[c]]
  BY DEF Cols
<1>2. t = [c \in Cid |-> IF c = o THEN e ELSE s[c]]
  BY <1>1
<1>3. ASSUME NEW c \in Cid  PROVE Touched(s[c], t[c]) /\ Entry(t[c])
  <2>1. CASE c = o
    BY <2>1, <1>2 DEF Touched
  <2>2. CASE c # o
    <3>1. t[c] = s[c] /\ Entry(s[c])
      BY <2>2, <1>2 DEF Cols
    <3>. QED
      BY <3>1 DEF Touched
  <2>. QED
    BY <2>1, <2>2
<1>4. \E h : t = [c \in Cid |-> h[c]]
  <2>. DEFINE h == [c \in Cid |-> IF c = o THEN e ELSE s[c]]
  <2>1. t = [c \in Cid |-> h[c]]
    BY <1>2
  <2>. QED
    BY <2>1
<1>. QED
  BY <1>3, <1>4 DEF Cols

(* A stamp on a collection a member of which changed.                      *)
LEMMA BumpedCols ==
  ASSUME NEW s, Cols(s), NEW o \in Cid
  PROVE  Cols(Collections!Bump(s, o)) /\ \A c \in Cid : Touched(s[c], Collections!Bump(s, o)[c])
<1>. DEFINE e == [s[o] EXCEPT !.at = at + 1]
<1>1. Touched(s[o], e)
  BY StampedEntry DEF Cols
<1>2. Collections!Bump(s, o) = [s EXCEPT ![o] = e]
  BY DEF Collections!Bump
<1>. HIDE DEF e
<1>. QED
  BY <1>1, <1>2, PutEntry

(* Every command touches collections and nothing else of them.             *)
LEMMA CommandTouches ==
  ASSUME CollectionTypes, NEW d \in Phone, Collections!Edit(d)
  PROVE  Edits(d)
<1>. DEFINE was == lib[d].cols
<1>1. Cols(was)
  BY DEF CollectionTypes, Side, Cols
<1>. PICK c \in Cid :
       \/ \E n \in NamesOf[c] : \/ Collections!Create(d, c, n)
                                \/ \E r \in Rec : Collections!CreateForRecord(d, c, n, r)
       \/ \E n \in NamesOf[c], m \in Collections!Modes : Collections!Update(d, c, n, m)
       \/ \E m \in Collections!Modes : /\ c \in Collections!LiveCols(lib[d])
                                       /\ Collections!Update(d, c, Collections!NameOf(lib[d], c), m)
       \/ \E r \in Rec : Collections!AddMember(d, c, r) \/ Collections!RemoveMember(d, c, r)
       \/ \E p \in Collections!Places : Collections!Reorder(d, c, p)
       \/ Collections!Delete(d, c)
  BY DEF Collections!Edit
<1>2. ASSUME NEW n, NEW k, was[c] = Collections!Absent
      PROVE  LET s == [was EXCEPT ![c] = Collections!Collection(n, "manual", k)]
             IN  Cols(s) /\ \A o \in Cid : Touched(was[o], s[o])
  <2>. DEFINE e == Collections!Collection(n, "manual", k)
  <2>1. Touched(was[c], e)
    BY <1>2, MadeEntry DEF Touched
  <2>. HIDE DEF e, was
  <2>2. Cols([was EXCEPT ![c] = e]) /\ \A o \in Cid : Touched(was[o], [was EXCEPT ![c] = e][o])
    BY <1>1, <2>1, PutEntry
  <2>. QED
    BY <2>2 DEF e
<1>3. ASSUME NEW n, Collections!Create(d, c, n)  PROVE Edits(d)
  <2>1. was[c] = Collections!Absent
    BY <1>3 DEF Collections!Create
  <2>2. Collections!Edited(d, [was EXCEPT ![c] = Collections!Collection(n, "manual", at + 1)], lib[d].mems)
    BY <1>3 DEF Collections!Create
  <2>. HIDE DEF was
  <2>. QED
    BY <1>2, <2>1, <2>2 DEF Edits, was
<1>4. ASSUME NEW n, NEW r, Collections!CreateForRecord(d, c, n, r)  PROVE Edits(d)
  <2>1. was[c] = Collections!Absent
    BY <1>4 DEF Collections!CreateForRecord
  <2>2. \E mems : Collections!Edited(d, [was EXCEPT ![c] = Collections!Collection(n, "manual", at + 1)], mems)
    BY <1>4 DEF Collections!CreateForRecord
  <2>. HIDE DEF was
  <2>. QED
    BY <1>2, <2>1, <2>2 DEF Edits, was
<1>5. ASSUME NEW n, NEW m, Collections!Update(d, c, n, m)  PROVE Edits(d)
  <2>. DEFINE e == Collections!Collection(n, m, at + 1)
  <2>1. Collections!IsLive(was[c])
    BY <1>5 DEF Collections!Update, Collections!LiveCols
  <2>2. Collections!Edited(d, [was EXCEPT ![c] = e], lib[d].mems)
    BY <1>5 DEF Collections!Update
  <2>3. Touched(was[c], e)
    BY <2>1, MadeEntry DEF Touched
  <2>. HIDE DEF was, e
  <2>4. Cols([was EXCEPT ![c] = e]) /\ \A o \in Cid : Touched(was[o], [was EXCEPT ![c] = e][o])
    BY <1>1, <2>3, PutEntry
  <2>. QED
    BY <2>2, <2>4 DEF Edits, was
<1>6. ASSUME NEW mems, Collections!Edited(d, Collections!Bump(was, c), mems)  PROVE Edits(d)
  <2>1. /\ Cols(Collections!Bump(was, c))
        /\ \A o \in Cid : Touched(was[o], Collections!Bump(was, c)[o])
    BY <1>1, BumpedCols
  <2>. QED
    BY <2>1, <1>6 DEF Edits
<1>7. ASSUME Collections!Delete(d, c)  PROVE Edits(d)
  <2>. DEFINE e == Collections!Gone(at + 1)
  <2>1. Collections!IsLive(was[c])
    BY <1>7 DEF Collections!Delete, Collections!LiveCols
  <2>2. \E mems : Collections!Edited(d, [was EXCEPT ![c] = e], mems)
    BY <1>7 DEF Collections!Delete
  <2>3. Touched(was[c], e)
    BY <2>1, MadeEntry DEF Touched
  <2>. HIDE DEF was, e
  <2>4. Cols([was EXCEPT ![c] = e]) /\ \A o \in Cid : Touched(was[o], [was EXCEPT ![c] = e][o])
    BY <1>1, <2>3, PutEntry
  <2>. QED
    BY <2>2, <2>4 DEF Edits, was
<1>8. ASSUME NEW r, Collections!AddMember(d, c, r) \/ Collections!RemoveMember(d, c, r)  PROVE Edits(d)
  BY <1>8, <1>6 DEF Collections!AddMember, Collections!RemoveMember
<1>9. ASSUME NEW p, Collections!Reorder(d, c, p)  PROVE Edits(d)
  BY <1>9, <1>6 DEF Collections!Reorder
<1>. HIDE DEF was
<1>. QED
  BY <1>3, <1>4, <1>5, <1>7, <1>8, <1>9

-----------------------------------------------------------------------------
(* Each step keeps what the history of the edits rests on.                 *)

Kept(c) ==
  /\ Undeleted(c)
  /\ \A x \in Fields : OthersAgree(c, x) /\ SoleIsPublished(c, x) /\ SoleStays(c, x)

(* A command: what it changes of a field makes its device an author, and   *)
(* what it deletes is disputed.                                            *)
LEMMA EditKeeps ==
  ASSUME CollectionInv, NEW d \in Phone, Edits(d)
  PROVE  CollectionInv'
<1>. PICK cols, mems : /\ Collections!Edited(d, cols, mems)
                       /\ Cols(cols) /\ \A c \in Cid : Touched(lib[d].cols[c], cols[c])
  BY DEF Edits
<1>1. /\ lib' = [lib EXCEPT ![d] = [cols |-> cols, mems |-> mems]]
      /\ dirty' = [dirty EXCEPT ![d] = TRUE]
      /\ UNCHANGED <<shared, file, pass, unconfirmed>>
  BY DEF Collections!Edited
<1>2. /\ DOMAIN lib' = Phone /\ DOMAIN dirty' = Phone
      /\ \A e \in Phone : /\ e # d => lib'[e] = lib[e] /\ dirty'[e] = dirty[e]
                          /\ e = d => lib'[e].cols = cols /\ dirty'[e]
  BY <1>1 DEF CollectionInv, CollectionTypes
<1>3. CollectionTypes'
  <2>1. \A e \in Phone : Side(lib[e])'
    BY <1>2 DEF CollectionInv, CollectionTypes, Side
  <2>2. /\ \A e \in Phone : Side(shared[e])' /\ (Started(e) => Side(Sent(e)))'
        /\ Side(file)'
    BY <1>1 DEF CollectionInv, CollectionTypes, Started, Sent, Side
  <2>. QED
    BY <2>1, <2>2, <1>1, <1>2 DEF CollectionInv, CollectionTypes
<1>4. ASSUME NEW e \in Phone, NEW c \in Cid, shared'[e].cols[c].st = "gone"
      PROVE  lib'[e].cols[c].st = "gone"
  <2>1. lib[e].cols[c].st = "gone"
    BY <1>1, <1>4 DEF CollectionInv
  <2>2. CASE e = d
    <3>1. Touched(lib[d].cols[c], cols[c])
      OBVIOUS
    <3>. QED
      BY <2>1, <2>2, <3>1, <1>2 DEF Touched, Collections!IsLive, Collections!Absent
  <2>. QED
    BY <2>1, <2>2, <1>2
<1>5. ASSUME NEW c \in Cid \ disputed'  PROVE Kept(c)'
  <2>1. c \in Cid \ disputed /\ cols[c].st # "gone"
    BY DEF Collections!Edited
  <2>2. Kept(c)
    BY <2>1 DEF CollectionInv, Kept
  <2>3. Touched(lib[d].cols[c], cols[c])
    OBVIOUS
  <2>4. Collections!IsLive(lib[d].cols[c]) => Collections!IsLive(cols[c])
    BY <2>1, <2>3 DEF Touched, Collections!IsLive
  <2>5. Undeleted(c)'
    BY <2>1, <2>2, <2>4, <1>1, <1>2 DEF Kept, Undeleted, Started, Sent
  <2>6. ASSUME NEW x \in Fields
        PROVE  /\ author[c][x] \subseteq author'[c][x]
               /\ \/ author'[c][x] = author[c][x] \cup {d} /\ written'[c][x] = cols[c].f[x]
                     /\ Collections!IsLive(cols[c])
                  \/ author'[c][x] = author[c][x] /\ written'[c][x] = written[c][x]
                     /\ Same(cols[c], lib[d].cols[c], x)
    <3>. DEFINE edits == /\ Collections!IsLive(cols[c])
                         /\ \/ lib[d].cols[c] = Collections!Absent
                            \/ lib[d].cols[c].f[x] # cols[c].f[x]
    <3>1. /\ author'[c][x] = IF edits THEN author[c][x] \cup {d} ELSE author[c][x]
          /\ written'[c][x] = IF edits THEN cols[c].f[x] ELSE written[c][x]
      BY DEF Collections!Edited, Fields
    <3>2. CASE edits
      BY <3>1, <3>2
    <3>3. CASE ~edits
      <4>1. Same(cols[c], lib[d].cols[c], x)
        BY <3>3, <2>1, <2>3 DEF Touched, Same, Collections!IsLive
      <4>. HIDE DEF edits
      <4>. QED
        BY <3>1, <3>3, <4>1
    <3>. QED
      BY <3>2, <3>3
  <2>7. ASSUME NEW x \in Fields  PROVE (OthersAgree(c, x) /\ SoleIsPublished(c, x) /\ SoleStays(c, x))'
    <3>1. OthersAgree(c, x)'
      <4>1. SUFFICES ASSUME NEW e \in Phone, e \notin author'[c][x]
                     PROVE  Same(lib'[e].cols[c], shared[e].cols[c], x)
        BY <1>1 DEF OthersAgree, Same
      <4>2. Same(lib[e].cols[c], shared[e].cols[c], x)
        BY <4>1, <2>6, <2>2 DEF Kept, OthersAgree
      <4>3. CASE e = d
        <5>1. Same(cols[c], lib[d].cols[c], x)
          BY <4>1, <4>3, <2>6
        <5>. QED
          BY <5>1, <4>2, <4>3, <1>2, SameTwice
      <4>. QED
        BY <4>2, <4>3, <1>2
    <3>2. SoleIsPublished(c, x)'
      <4>1. SUFFICES ASSUME NEW e \in Phone \ unconfirmed, author'[c][x] \subseteq {e}
                     PROVE  IF pass[e].running
                            THEN /\ Same(pass[e].state.cols[c], file.cols[c], x)
                                 /\ ~dirty'[e] => Same(pass[e].state.cols[c], lib'[e].cols[c], x)
                            ELSE Same(shared[e].cols[c], file.cols[c], x)
        BY <1>1 DEF SoleIsPublished, Same, Started, Sent
      <4>2. author[c][x] \subseteq {e}
        BY <2>6, <4>1
      <4>. QED
        BY <4>2, <2>2, <1>2 DEF Kept, SoleIsPublished, Started, Sent
    <3>3. SoleStays(c, x)'
      <4>1. SUFFICES ASSUME NEW e \in Phone \ unconfirmed, author'[c][x] = {e}
                     PROVE  Collections!IsLive(lib'[e].cols[c]) /\ lib'[e].cols[c].f[x] = written'[c][x]
        BY <1>1 DEF SoleStays, Collections!IsLive
      <4>2. CASE author'[c][x] = author[c][x] \cup {d} /\ written'[c][x] = cols[c].f[x]
                 /\ Collections!IsLive(cols[c])
        <5>1. e = d
          BY <4>1, <4>2
        <5>. QED
          BY <5>1, <4>2, <1>2
      <4>3. CASE author'[c][x] = author[c][x] /\ written'[c][x] = written[c][x]
                 /\ Same(cols[c], lib[d].cols[c], x)
        <5>1. Collections!IsLive(lib[e].cols[c]) /\ lib[e].cols[c].f[x] = written[c][x]
          BY <4>1, <4>3, <2>2 DEF Kept, SoleStays
        <5>. QED
          BY <5>1, <4>3, <1>2 DEF Same
      <4>. QED
        BY <4>2, <4>3, <2>6
    <3>. QED
      BY <3>1, <3>2, <3>3
  <2>. QED
    BY <2>5, <2>7 DEF Kept
<1>. QED
  BY <1>3, <1>4, <1>5 DEF CollectionInv, Kept

(* A pass: what it makes of a collection nobody is asked about is what the *)
(* file and the devices' libraries already agree on.                       *)
LEMMA PublishKeeps ==
  ASSUME CollectionInv, NEW d \in Phone, NEW mineC, NEW mineM, Collections!Publish(d, mineC, mineM)
  PROVE  CollectionInv' /\ Collections!DeletedStaysDeletedStep
<1>. DEFINE s == Collections!Merged(shared[d], lib[d], file, mineC, mineM)
            kept(c) == Collections!Selected(shared[d].cols[c], lib[d].cols[c], file.cols[c], c \in mineC)
<1>1. /\ ~Started(d) /\ file' = s
      /\ pass' = [pass EXCEPT ![d] = [running |-> TRUE, state |-> s]]
      /\ dirty' = [dirty EXCEPT ![d] = FALSE]
      /\ disputed' = disputed \cup Collections!AskedCols(d)
      /\ UNCHANGED <<lib, shared, at, author, written, unconfirmed>>
  BY DEF Collections!Publish, Collections!Running, Started
<1>2. s.cols = [c \in Cid |-> kept(c)]
  BY DEF Collections!Merged
<1>3. CollectionTypes
  BY DEF CollectionInv
<1>4. ASSUME NEW c \in Cid
      PROVE  Entry(shared[d].cols[c]) /\ Entry(lib[d].cols[c]) /\ Entry(file.cols[c])
  BY <1>3 DEF CollectionTypes, Side, Cols
<1>5. Side(s)
  <2>1. \A c \in Cid : Entry(kept(c))
    BY <1>4, SelectedIsEntry
  <2>. DEFINE g == [c \in Cid |-> kept(c)]
  <2>2. s.cols = [c \in Cid |-> g[c]] /\ \A c \in Cid : s.cols[c] = kept(c)
    <3>. HIDE DEF s, kept
    <3>. QED
      BY <1>2
  <2>. HIDE DEF s, kept, g
  <2>. QED
    BY <2>1, <2>2 DEF Side, Cols
<1>6. \A c \in Cid : s.cols[c] = kept(c)
  <2>. HIDE DEF s, kept
  <2>. QED
    BY <1>2
<1>. HIDE DEF s
<1>7. /\ \A e \in Phone : /\ e # d => Started(e)' = Started(e) /\ Sent(e)' = Sent(e) /\ dirty'[e] = dirty[e]
                          /\ e = d => Started(e)' /\ Sent(e)' = s /\ ~dirty'[e]
      /\ DOMAIN pass' = Phone /\ DOMAIN dirty' = Phone
  BY <1>1, <1>3 DEF CollectionTypes, Started, Sent
<1>8. CollectionTypes'
  <2>1. \A e \in Phone : (Started(e) => Side(Sent(e)))'
    <3>1. TAKE e \in Phone
    <3>2. CASE e = d
      BY <3>2, <1>5, <1>7 DEF Side
    <3>3. CASE e # d
      BY <3>3, <1>3, <1>7 DEF CollectionTypes, Side
    <3>. QED
      BY <3>2, <3>3
  <2>2. Side(file)' /\ \A e \in Phone : (Side(lib[e]) /\ Side(shared[e]))'
    BY <1>1, <1>3, <1>5 DEF CollectionTypes, Side
  <2>. QED
    BY <2>1, <2>2, <1>1, <1>3, <1>7 DEF CollectionTypes
<1>9. ASSUME NEW c \in Cid, c \notin Collections!AskedCols(d)
      PROVE  /\ shared[d].cols[c].st # "gone" /\ lib[d].cols[c].st # "gone" /\ file.cols[c].st # "gone"
                  => s.cols[c].st # "gone"
             /\ file.cols[c].st = "gone" /\ Collections!IsLive(s.cols[c])
                  => shared[d].cols[c].st = "gone" /\ lib[d].cols[c].st # "gone"
             /\ (Collections!IsLive(shared[d].cols[c]) => Collections!IsLive(lib[d].cols[c]))
                /\ Collections!IsLive(file.cols[c])
                  => Collections!IsLive(s.cols[c])
             /\ \A x \in Fields :
                  /\ Same(lib[d].cols[c], shared[d].cols[c], x) => Same(s.cols[c], file.cols[c], x)
                  /\ Same(file.cols[c], shared[d].cols[c], x) => Same(s.cols[c], lib[d].cols[c], x)
  <2>1. ~Collections!Conflicting(shared[d].cols[c], lib[d].cols[c], file.cols[c])
    BY <1>9 DEF Collections!AskedCols
  <2>. QED
    BY <2>1, <1>4, <1>6, SelectedEntry
<1>. HIDE DEF kept
<1>10. ASSUME NEW c \in Cid \ disputed'  PROVE Kept(c)'
  <2>1. c \in Cid \ disputed /\ c \notin Collections!AskedCols(d)
    BY <1>1
  <2>2. Kept(c)
    BY <2>1 DEF CollectionInv, Kept
  <2>3. Undeleted(c)'
    <3>1. s.cols[c].st # "gone"
      BY <1>9, <2>1, <2>2 DEF Kept, Undeleted
    <3>2. Collections!IsLive(file.cols[c]) => Collections!IsLive(s.cols[c])
      BY <1>9, <2>1, <2>2 DEF Kept, Undeleted
    <3>. QED
      BY <3>1, <3>2, <2>2, <1>1, <1>7 DEF Kept, Undeleted
  <2>4. ASSUME NEW x \in Fields  PROVE (OthersAgree(c, x) /\ SoleIsPublished(c, x) /\ SoleStays(c, x))'
    <3>1. OthersAgree(c, x) /\ SoleIsPublished(c, x) /\ SoleStays(c, x)
      BY <2>2 DEF Kept
    <3>2. OthersAgree(c, x)' /\ SoleStays(c, x)'
      BY <3>1, <1>1 DEF OthersAgree, SoleStays, Same
    <3>3. SoleIsPublished(c, x)'
      <4>1. SUFFICES ASSUME NEW e \in Phone \ unconfirmed, author[c][x] \subseteq {e}
                     PROVE  IF Started(e)'
                            THEN /\ Same(Sent(e)'.cols[c], s.cols[c], x)
                                 /\ ~dirty'[e] => Same(Sent(e)'.cols[c], lib[e].cols[c], x)
                            ELSE Same(shared[e].cols[c], s.cols[c], x)
        BY <1>1 DEF SoleIsPublished, Same, Started, Sent
      <4>2. CASE e = d
        <5>1. Same(shared[d].cols[c], file.cols[c], x)
          BY <3>1, <4>1, <4>2, <1>1 DEF SoleIsPublished
        <5>2. Same(s.cols[c], lib[d].cols[c], x)
          BY <5>1, <1>9, <2>1, SameTwice
        <5>3. Same(s.cols[c], s.cols[c], x)
          BY DEF Same
        <5>. QED
          BY <5>2, <5>3, <4>2, <1>7
      <4>3. CASE e # d
        <5>1. Same(lib[d].cols[c], shared[d].cols[c], x)
          BY <3>1, <4>1, <4>3 DEF OthersAgree
        <5>2. Same(file.cols[c], s.cols[c], x)
          BY <5>1, <1>9, <2>1, SameTwice
        <5>3. IF Started(e)
              THEN /\ Same(Sent(e).cols[c], file.cols[c], x)
                   /\ ~dirty[e] => Same(Sent(e).cols[c], lib[e].cols[c], x)
              ELSE Same(shared[e].cols[c], file.cols[c], x)
          BY <3>1, <4>1 DEF SoleIsPublished
        <5>. QED
          BY <5>2, <5>3, <4>3, <1>7, SameTwice
      <4>. QED
        BY <4>2, <4>3
    <3>. QED
      BY <3>2, <3>3
  <2>. QED
    BY <2>3, <2>4 DEF Kept
<1>11. CollectionInv'
  BY <1>1, <1>8, <1>10 DEF CollectionInv, Kept
<1>12. Collections!DeletedStaysDeletedStep
  <2>1. SUFFICES ASSUME NEW c \in Cid, file.cols[c].st = "gone", Collections!IsLive(s.cols[c])
                 PROVE  c \in Collections!AskedCols(d)
    BY <1>1, <1>7 DEF Collections!DeletedStaysDeletedStep, Started
  <2>. QED
    BY <1>9, <2>1 DEF CollectionInv
<1>. QED
  BY <1>11, <1>12

(* The end of a pass: a device that stores what it published shows and     *)
(* agrees on that.                                                         *)
LEMMA CommitKeeps ==
  ASSUME CollectionInv, NEW d \in Phone, Collections!Commit(d)
  PROVE  CollectionInv'
<1>1. /\ Started(d)
      /\ pass' = [pass EXCEPT ![d] = [running |-> FALSE, state |-> None]]
      /\ UNCHANGED <<file, dirty, author, written, disputed>>
  BY DEF Collections!Commit, Collections!Idle, Started
<1>2. CollectionTypes
  BY DEF CollectionInv
<1>3. \A e \in Phone : /\ e # d => Started(e)' = Started(e) /\ Sent(e)' = Sent(e)
                       /\ e = d => ~Started(e)'
  BY <1>1, <1>2 DEF CollectionTypes, Started, Sent
<1>4. CASE d \in unconfirmed' /\ unconfirmed \subseteq unconfirmed' /\ UNCHANGED <<lib, shared>>
  <2>1. CollectionTypes'
    <3>1. \A e \in Phone : (Started(e) => Side(Sent(e)))'
      BY <1>2, <1>3 DEF CollectionTypes, Side
    <3>. QED
      BY <3>1, <1>1, <1>2, <1>4 DEF CollectionTypes, Side
  <2>2. ASSUME NEW c \in Cid \ disputed  PROVE Kept(c)'
    <3>1. Kept(c)
      BY DEF CollectionInv, Kept
    <3>2. Undeleted(c)'
      BY <3>1, <1>1, <1>3, <1>4 DEF Kept, Undeleted
    <3>3. ASSUME NEW x \in Fields  PROVE (OthersAgree(c, x) /\ SoleIsPublished(c, x) /\ SoleStays(c, x))'
      <4>1. OthersAgree(c, x) /\ SoleIsPublished(c, x) /\ SoleStays(c, x)
        BY <3>1 DEF Kept
      <4>2. (OthersAgree(c, x) /\ SoleStays(c, x))'
        BY <4>1, <1>1, <1>4 DEF OthersAgree, SoleStays, Same
      <4>3. SoleIsPublished(c, x)'
        BY <4>1, <1>1, <1>3, <1>4 DEF SoleIsPublished, Same
      <4>. QED
        BY <4>2, <4>3
    <3>. QED
      BY <3>2, <3>3 DEF Kept
  <2>. QED
    BY <2>1, <2>2, <1>1, <1>4 DEF CollectionInv, Kept
<1>5. CASE /\ ~dirty[d] /\ unconfirmed' = unconfirmed
           /\ lib' = [lib EXCEPT ![d] = Sent(d)] /\ shared' = [shared EXCEPT ![d] = Sent(d)]
  <2>1. /\ DOMAIN lib' = Phone /\ DOMAIN shared' = Phone
        /\ \A e \in Phone : /\ e # d => lib'[e] = lib[e] /\ shared'[e] = shared[e]
                            /\ e = d => lib'[e] = Sent(d) /\ shared'[e] = Sent(d)
    BY <1>5, <1>2 DEF CollectionTypes
  <2>2. CollectionTypes'
    <3>1. \A e \in Phone : (Started(e) => Side(Sent(e)))'
      BY <1>2, <1>3 DEF CollectionTypes, Side
    <3>2. Side(Sent(d))
      BY <1>1, <1>2 DEF CollectionTypes
    <3>3. \A e \in Phone : (Side(lib[e]) /\ Side(shared[e]))'
      BY <2>1, <3>2, <1>2 DEF CollectionTypes, Side
    <3>. QED
      BY <2>1, <3>1, <3>3, <1>1, <1>2 DEF CollectionTypes, Side
  <2>3. ASSUME NEW c \in Cid \ disputed  PROVE Kept(c)'
    <3>1. Kept(c)
      BY DEF CollectionInv, Kept
    <3>2. Undeleted(c)'
      BY <3>1, <2>1, <1>1, <1>3 DEF Kept, Undeleted
    <3>3. ASSUME NEW x \in Fields  PROVE (OthersAgree(c, x) /\ SoleIsPublished(c, x) /\ SoleStays(c, x))'
      <4>1. OthersAgree(c, x) /\ SoleIsPublished(c, x) /\ SoleStays(c, x)
        BY <3>1 DEF Kept
      <4>2. OthersAgree(c, x)'
        BY <4>1, <2>1, <1>1 DEF OthersAgree, Same
      <4>3. SoleIsPublished(c, x)'
        BY <4>1, <2>1, <1>1, <1>3, <1>5 DEF SoleIsPublished, Same
      <4>4. SoleStays(c, x)'
        <5>1. SUFFICES ASSUME NEW e \in Phone \ unconfirmed, author[c][x] = {e}
                       PROVE  Collections!IsLive(lib'[e].cols[c]) /\ lib'[e].cols[c].f[x] = written[c][x]
          BY <1>1, <1>5 DEF SoleStays, Collections!IsLive
        <5>2. Collections!IsLive(lib[e].cols[c]) /\ lib[e].cols[c].f[x] = written[c][x]
          BY <4>1, <5>1 DEF SoleStays
        <5>3. CASE e = d
          <6>1. Same(Sent(d).cols[c], lib[d].cols[c], x)
            BY <4>1, <5>1, <5>3, <1>1, <1>5 DEF SoleIsPublished
          <6>. QED
            BY <6>1, <5>2, <5>3, <2>1 DEF Same
        <5>. QED
          BY <5>2, <5>3, <2>1
      <4>. QED
        BY <4>2, <4>3, <4>4
    <3>. QED
      BY <3>2, <3>3 DEF Kept
  <2>4. \A e \in Phone, c \in Cid : shared'[e].cols[c].st = "gone" => lib'[e].cols[c].st = "gone"
    BY <2>1 DEF CollectionInv
  <2>. QED
    BY <2>2, <2>3, <2>4, <1>1 DEF CollectionInv, Kept
<1>. QED
  BY <1>4, <1>5 DEF Collections!Commit, Sent

(* At the start all devices and the file have the same, and nobody edited. *)
LEMMA CollectionStart ==
  ASSUME Collections!Init
  PROVE  CollectionInv
<1>. DEFINE g == [c \in Cid |-> IF c \in DOMAIN Shared
                                THEN Collections!Collection(Shared[c], "manual", 0) ELSE Collections!Absent]
<1>1. /\ DOMAIN lib = Phone /\ DOMAIN shared = Phone /\ DOMAIN pass = Phone /\ DOMAIN dirty = Phone
      /\ \A d \in Phone : lib[d].cols = g /\ shared[d].cols = g /\ ~Started(d) /\ lib[d] = shared[d]
      /\ file.cols = g
  BY DEF Collections!Init, Collections!Idle, Started
<1>2. \A c \in Cid : Entry(g[c]) /\ g[c].st # "gone"
  BY MadeEntry DEF Collections!IsLive
<1>3. Cols(g)
  <2>1. g = [c \in Cid |-> g[c]]
    OBVIOUS
  <2>. HIDE DEF g
  <2>. QED
    BY <1>2, <2>1 DEF Cols
<1>. HIDE DEF g
<1>4. CollectionTypes
  BY <1>1, <1>3 DEF CollectionTypes, Side
<1>5. ASSUME NEW c \in Cid  PROVE Kept(c)
  <2>1. Undeleted(c)
    BY <1>1, <1>2 DEF Undeleted
  <2>2. \A x \in Fields : OthersAgree(c, x) /\ SoleIsPublished(c, x)
    BY <1>1 DEF OthersAgree, SoleIsPublished, Same
  <2>3. \A x \in Fields : SoleStays(c, x)
    BY DEF SoleStays, Collections!Init, Fields
  <2>. QED
    BY <2>1, <2>2, <2>3 DEF Kept
<1>. QED
  BY <1>1, <1>4, <1>5 DEF CollectionInv, Kept

(* What a device alone edited stays there.                                 *)
LEMMA SoleEditorStays ==
  ASSUME CollectionInv  PROVE Collections!SoleEditorKeepsTheEdit
BY DEF CollectionInv, SoleStays, Collections!SoleEditorKeepsTheEdit, Collections!EditStays, Fields

(* Every step of the collections.                                          *)
LEMMA CollectionStep ==
  ASSUME CollectionInv, Collections!Next
  PROVE  CollectionInv' /\ Collections!DeletedStaysDeletedStep
<1>. PICK d \in Phone : Collections!Edit(d) \/ Collections!Start(d) \/ Collections!Commit(d)
  BY DEF Collections!Next
<1>1. CASE Collections!Edit(d)
  <2>1. Edits(d)
    BY <1>1, CommandTouches DEF CollectionInv
  <2>2. UNCHANGED file
    BY <2>1 DEF Edits, Collections!Edited
  <2>3. Collections!DeletedStaysDeletedStep
    BY <2>2 DEF Collections!DeletedStaysDeletedStep, Collections!IsLive
  <2>. QED
    BY <2>1, <2>3, EditKeeps
<1>2. CASE Collections!Start(d)
  BY <1>2, PublishKeeps DEF Collections!Start
<1>3. CASE Collections!Commit(d)
  <2>1. UNCHANGED file
    BY <1>3 DEF Collections!Commit
  <2>2. Collections!DeletedStaysDeletedStep
    BY <2>1 DEF Collections!DeletedStaysDeletedStep, Collections!IsLive
  <2>. QED
    BY <1>3, <2>2, CommitKeeps
<1>. QED
  BY <1>1, <1>2, <1>3

(* What one device alone edited of a collection stays at it, and a deleted *)
(* collection comes back only when a user kept it, however many devices    *)
(* and collections there are (collectionSync.ts, collections.rs).          *)
THEOREM CollectionEditsKept == AllSpec => CollectionEditsAreKept
<1>. DEFINE CInv == part = "collections" => CollectionInv
            CStep == part = "collections" =>
                       Collections!SoleEditorKeepsTheEdit' /\ Collections!DeletedStaysDeletedStep
<1>1. AllInit => CInv
  BY CollectionStart DEF AllInit
<1>2. CInv /\ [AllNext]_allVars => CInv' /\ [CStep]_allVars
  <2>1. SUFFICES ASSUME CInv, [AllNext]_allVars, part' = "collections"
                 PROVE  CollectionInv' /\ [CStep]_allVars
    BY DEF AllNext, allVars, CStep
  <2>2. CASE UNCHANGED allVars
    <3>1. CollectionInv' <=> CollectionInv
      BY <2>2 DEF allVars, CollectionVars, CollectionInv, CollectionTypes, Undeleted, OthersAgree,
                  SoleIsPublished, SoleStays, Started, Sent, Same, Side
    <3>. QED
      BY <2>1, <2>2, <3>1 DEF allVars
  <2>3. CASE AllNext
    <3>1. part = "collections" /\ Collections!Next
      BY <2>1, <2>3 DEF AllNext
    <3>2. CollectionInv' /\ Collections!DeletedStaysDeletedStep
      BY <2>1, <3>1, CollectionStep
    <3>3. Collections!SoleEditorKeepsTheEdit'
      BY <3>2, SoleEditorStays, PTL
    <3>. QED
      BY <3>2, <3>3
  <2>. QED
    BY <2>1, <2>2, <2>3
<1>. QED
  BY <1>1, <1>2, PTL DEF AllSpec, CollectionEditsAreKept
=============================================================================
