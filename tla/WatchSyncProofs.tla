-------------------------- MODULE WatchSyncProofs --------------------------
(***************************************************************************)
(* Theorems about the synchronisation protocol, for any number of devices, *)
(* records, fields, values, attempts, local writes and copies:             *)
(*                                                                         *)
(*   - types, and the generation that certifies a snapshot;                *)
(*   - what a clean outbox promises, and what the conflict centre shows;   *)
(*   - no write is lost in a commit;                                       *)
(*   - the chain of versions, which CommitChain describes;                 *)
(*   - publications and the publish intent;                                *)
(*   - what of this survives recovery points (WatchSyncRecovery).          *)
(***************************************************************************)
EXTENDS WatchSyncRecovery, SyncMergeProofs

(* A pass that runs has a snapshot, one that published has a commit id.    *)
PassComplete ==
  \A d \in Device :
    /\ pass[d].phase # "idle" => pass[d].snap \in Database
    /\ pass[d].phase \in {"waiting", "verify", "ready"} => pass[d].commit \in Commit

TypeInv == TypeOK /\ PassComplete

-----------------------------------------------------------------------------
(*                       Types of what a step computes                     *)

(* What a device starts with is typed.                                     *)
LEMMA EmptyTypes == EmptyDb \in Database /\ EmptySide \in Side /\ Idle \in Pass
<1>1. Absent \in Entity
  BY DEF Absent, Entity
<1>2. EmptySide \in Side
  BY <1>1 DEF EmptySide, Side
<1>3. EmptyDb \in Database
  BY <1>2 DEF EmptyDb, Database
<1>4. Idle \in Pass
  BY MaxAttemptsAssumption DEF Idle, Pass, Phase
<1>. QED
  BY <1>2, <1>3, <1>4

(* The cloud file is a version, or does not exist.                         *)
LEMMA FileType ==
  ASSUME published \in Seq(Payload)
  PROVE  /\ File \in Payload \cup {None}
         /\ CommitOf(File) \in Commit \cup {None}
<1>1. File \in Payload \cup {None}
  BY DEF File
<1>. QED
  BY <1>1 DEF CommitOf, Payload

(* A local write of an entity leaves a database.                           *)
LEMMA WrittenType ==
  ASSUME NEW x \in Database, NEW id \in Id, NEW e \in Entity,
         NEW c \in [Id -> Conflict \cup {None}]
  PROVE  Written(x, id, e, c) \in Database
<1>1. [x.side EXCEPT ![id] = e] \in Side
  BY DEF Database, Side
<1>2. x.gen + 1 \in Nat
  BY DEF Database
<1>3. Stage(x, id, e.rec # None, x.gen + 1) \in Staged \cup {None}
  BY <1>2 DEF Stage, Staged, Database
<1>4. [x.staging EXCEPT ![id] = Stage(x, id, e.rec # None, x.gen + 1)]
         \in [Id -> Staged \cup {None}]
  BY <1>3 DEF Database
<1>. QED
  BY <1>1, <1>2, <1>4 DEF Written, Database

(* A pass that has a snapshot merges typed sides into typed results.       *)
LEMMA MergedType ==
  ASSUME NEW d \in Device, NEW p \in Pass, p.snap \in Database
  PROVE  /\ Merged(d, p) \in [Id -> MergeResult]
         /\ MergedRemote(d, p) \in Side
         /\ FileSide(p) \in Side /\ BaseSide(d, p) \in Side
<1>1. p.snap.side \in Side /\ p.snap.baseline \in Payload \cup {None}
      /\ p.snap.conflicts \in [Id -> Conflict \cup {None}]
  BY DEF Database
<1>2. FileSide(p) \in Side /\ BaseSide(d, p) \in Side
  BY <1>1, EmptyTypes DEF FileSide, BaseSide, Pass, Payload
<1>3. ASSUME NEW id \in Id
      PROVE  ActiveConflict(d, p, id) \in Conflict \cup {None}
  BY <1>1 DEF ActiveConflict
<1>4. ASSUME NEW id \in Id
      PROVE  MergeEntity(BaseSide(d, p)[id], p.snap.side[id], FileSide(p)[id],
                         ActiveConflict(d, p, id), d) \in MergeResult
  BY <1>1, <1>2, <1>3, MergeEntityType DEF Side
<1>5. Merged(d, p) \in [Id -> MergeResult]
  BY <1>4 DEF Merged
<1>6. MergedRemote(d, p) \in Side
  BY <1>5 DEF MergedRemote, Side, MergeResult
<1>. QED
  BY <1>2, <1>5, <1>6

(* buildSyncPayload yields a version of the file.                          *)
LEMMA NextPayloadType ==
  ASSUME NEW d \in Device, NEW p \in Pass, p.snap \in Database, NEW commit \in Commit
  PROVE  NextPayload(d, p, commit) \in Payload
<1>1. MergedRemote(d, p) \in Side
  BY MergedType
<1>2. CommitOf(p.file) \in Commit \cup {None}
  BY DEF CommitOf, Pass, Payload
<1>3. (IF p.file = None THEN 1 ELSE p.file.revision + 1) \in Nat
  BY DEF Pass, Payload
<1>. QED
  BY <1>1, <1>2, <1>3 DEF NextPayload, Payload

(* prepare_publish_intent yields a publish intent.                         *)
LEMMA IntentType ==
  ASSUME NEW x \in Database, NEW gen \in Nat, NEW commit \in Commit
  PROVE  IntentOf(x, gen, commit) \in Intent
<1>1. ASSUME NEW id \in Id
      PROVE  (IF x.staging[id] # None /\ x.staging[id].last <= gen
              THEN x.staging[id].last ELSE None) \in Nat \cup {None}
  BY DEF Database, Staged
<1>. QED
  BY <1>1 DEF IntentOf, Intent

(* The commit of a typed merge leaves a typed database.                    *)
LEMMA CommittedType ==
  ASSUME NEW x \in Database, NEW m \in [Id -> MergeResult],
         NEW confirmed \in Payload, NEW expected \in Nat
  PROVE  Committed(x, m, confirmed, expected) \in Database
<1>1. CommittedSide(x, m) \in Side
  <2>1. ASSUME NEW id \in Id
        PROVE  [rec  |-> IF IsLocked(x.side[id]) THEN x.side[id].rec ELSE m[id].local.rec,
                tomb |-> m[id].local.tomb] \in Entity
    <3>1. x.side[id] \in Entity /\ m[id].local \in Entity
      BY DEF Database, Side, MergeResult
    <3>. QED  BY <3>1 DEF Entity
  <2>. QED  BY <2>1 DEF CommittedSide, Side
<1>2. (IF CommittedSide(x, m) # x.side THEN x.gen + 1 ELSE x.gen) \in Nat
  BY DEF Database
<1>3. (x.pending /\ x.dirty > expected) \in BOOLEAN
  OBVIOUS
<1>4. StagedAfter(x, confirmed.commit, expected) \in [Id -> Staged \cup {None}]
  BY DEF StagedAfter, Database
<1>5. [id \in Id |-> m[id].conflict] \in [Id -> Conflict \cup {None}]
  BY DEF MergeResult
<1>. QED
  BY <1>1, <1>2, <1>3, <1>4, <1>5 DEF Committed, Database

-----------------------------------------------------------------------------
(*                        The type invariant                               *)

(* What a local write does to a typed state.                               *)
LEMMA WriteTyped ==
  ASSUME TypeInv, NEW d \in Device, NEW id \in Id, NEW e \in Entity,
         NEW c \in [Id -> Conflict \cup {None}], Write(d, id, e, c)
  PROVE  TypeInv'
<1>1. Written(db[d], id, e, c) \in Database
  BY WrittenType DEF TypeInv, TypeOK
<1>2. db' \in [Device -> Database]
  BY <1>1 DEF Write, TypeInv, TypeOK
<1>. QED
  BY <1>2 DEF Write, TypeInv, TypeOK, PassComplete

(* A record or a tombstone, not both and not neither.                      *)
Definite == {RecordEntity(r) : r \in Record} \cup {TombEntity(t) : t \in Tombstone}

(* Where a lock may come from: the user sets it, or it is there already.   *)
MayBeLocked(d, id) ==
  LET c == db[d].conflicts[id]
  IN  \/ Locking \/ IsLocked(db[d].side[id])
      \/ c # None /\ \E r \in {c.local, c.remote} : r # None /\ r.locked

(* What a local write does to the library and the conflict centre.         *)
Writes(d) ==
  \E id \in Id : \E e \in Definite :
    /\ IsLocked(e) => MayBeLocked(d, id)
    /\ \E c \in {db[d].conflicts, [db[d].conflicts EXCEPT ![id] = None]} : Write(d, id, e, c)

(* Every local write stores a record or a tombstone, and at most takes the *)
(* conflict of the id out of the conflict centre.                          *)
LEMMA LocalWriteWrites ==
  ASSUME TypeInv, NEW d \in Device, LocalWrite(d)
  PROVE  Writes(d)
<1>0. /\ db[d].side \in Side
      /\ db[d].conflicts \in [Id -> Conflict \cup {None}]
  BY DEF TypeInv, TypeOK, Database
<1>1. PICK id \in Id :
        \/ \E f \in [Field -> Value] : InsertRecord(d, id, f)
        \/ \E x \in Field, v \in Value : EditField(d, id, x, v)
        \/ ToggleLock(d, id)
        \/ DeleteRecord(d, id)
        \/ \E resolution \in Resolution : ResolveConflict(d, id, resolution)
  BY DEF LocalWrite
<1>. DEFINE old == db[d].side[id].rec
<1>2. old \in Record \cup {None} /\ RevOf(old) \in Nat
  BY <1>0 DEF Side, Entity, Record, RevOf
<1>3. \A r \in Record : RecordEntity(r) \in Definite
  BY DEF Definite
<1>4. \A t \in Tombstone : TombEntity(t) \in Definite /\ ~IsLocked(TombEntity(t))
  BY DEF Definite, TombEntity, IsLocked
<1>5. ASSUME NEW f \in [Field -> Value], InsertRecord(d, id, f)
      PROVE  Writes(d)
  <2>. DEFINE r == [f |-> f, locked |-> FALSE, rev |-> RevOf(old) + 1, actor |-> d]
  <2>1. r \in Record
    BY <1>2 DEF Record
  <2>2. Write(d, id, RecordEntity(r), db[d].conflicts)
    BY <1>5 DEF InsertRecord
  <2>3. ~IsLocked(RecordEntity(r))
    BY DEF IsLocked, RecordEntity
  <2>. QED  BY <2>1, <2>2, <2>3, <1>3 DEF Writes
<1>6. ASSUME NEW f \in [Field -> Value], NEW locked \in BOOLEAN, UpdateRecord(d, id, f, locked),
             locked => MayBeLocked(d, id)
      PROVE  Writes(d)
  <2>. DEFINE r == [f |-> f, locked |-> locked, rev |-> old.rev + 1, actor |-> d]
  <2>1. r \in Record
    BY <1>2, <1>6 DEF Record, UpdateRecord
  <2>2. Write(d, id, RecordEntity(r), db[d].conflicts)
    BY <1>6 DEF UpdateRecord
  <2>3. IsLocked(RecordEntity(r)) => MayBeLocked(d, id)
    BY <1>6 DEF IsLocked, RecordEntity
  <2>. QED  BY <2>1, <2>2, <2>3, <1>3 DEF Writes
<1>7. ASSUME NEW x \in Field, NEW v \in Value, EditField(d, id, x, v)
      PROVE  Writes(d)
  <2>1. old \in Record
    BY <1>2, <1>7 DEF EditField
  <2>2. [old.f EXCEPT ![x] = v] \in [Field -> Value] /\ old.locked \in BOOLEAN
    BY <2>1 DEF Record
  <2>3. UpdateRecord(d, id, [old.f EXCEPT ![x] = v], old.locked)
    BY <1>7 DEF EditField
  <2>4. old.locked => MayBeLocked(d, id)
    BY <1>7 DEF EditField, MayBeLocked, IsLocked
  <2>. QED  BY <2>2, <2>3, <2>4, <1>6
<1>8. ASSUME ToggleLock(d, id)
      PROVE  Writes(d)
  <2>1. old \in Record
    BY <1>2, <1>8 DEF ToggleLock
  <2>2. old.f \in [Field -> Value] /\ (~old.locked) \in BOOLEAN
    BY <2>1 DEF Record
  <2>3. UpdateRecord(d, id, old.f, ~old.locked)
    BY <1>8 DEF ToggleLock
  <2>4. MayBeLocked(d, id)
    BY <1>8 DEF ToggleLock, MayBeLocked
  <2>. QED  BY <2>2, <2>3, <2>4, <1>6
<1>9. ASSUME DeleteRecord(d, id)
      PROVE  Writes(d)
  <2>. DEFINE t == [rev |-> old.rev + 1, actor |-> d]
  <2>1. t \in Tombstone
    BY <1>2, <1>9 DEF DeleteRecord, Record, Tombstone
  <2>2. Write(d, id, TombEntity(t), db[d].conflicts)
    BY <1>9 DEF DeleteRecord
  <2>. QED  BY <2>1, <2>2, <1>4 DEF Writes
<1>10. ASSUME NEW resolution \in Resolution, ResolveConflict(d, id, resolution)
       PROVE  Writes(d)
  <2>. DEFINE r == Chosen(db[d].conflicts[id], resolution)
              t == [rev |-> 0, actor |-> d]
              c == [db[d].conflicts EXCEPT ![id] = None]
  <2>1. db[d].conflicts[id] \in Conflict
    BY <1>0, <1>10 DEF ResolveConflict
  <2>2. r \in Record \cup {None}
    BY <2>1 DEF Chosen, Resolution, Conflict
  <2>3. t \in Tombstone
    BY DEF Tombstone
  <2>5. (IF r # None THEN RecordEntity(r) ELSE TombEntity(t)) \in Definite
    BY <2>2, <2>3, <1>3, <1>4
  <2>6. Write(d, id, IF r # None THEN RecordEntity(r) ELSE TombEntity(t), c)
    BY <1>10 DEF ResolveConflict
  <2>7. r # None /\ IsLocked(RecordEntity(r)) => MayBeLocked(d, id)
    BY <1>10 DEF ResolveConflict, Chosen, Resolution, IsLocked, RecordEntity, MayBeLocked
  <2>. QED  BY <1>4, <2>3, <2>5, <2>6, <2>7 DEF Writes
<1>. QED
  BY <1>1, <1>5, <1>7, <1>8, <1>9, <1>10

(* No local write breaks the types.                                        *)
LEMMA LocalWriteTyped ==
  ASSUME TypeInv, NEW d \in Device, LocalWrite(d)
  PROVE  TypeInv'
<1>1. PICK id \in Id : \E e \in Definite :
        \E c \in {db[d].conflicts, [db[d].conflicts EXCEPT ![id] = None]} : Write(d, id, e, c)
  BY LocalWriteWrites DEF Writes
<1>2. PICK e \in Definite, c \in {db[d].conflicts, [db[d].conflicts EXCEPT ![id] = None]} :
        Write(d, id, e, c)
  BY <1>1
<1>3. e \in Entity
  BY DEF Definite, RecordEntity, TombEntity, Entity
<1>4. c \in [Id -> Conflict \cup {None}]
  BY <1>2 DEF TypeInv, TypeOK, Database
<1>. QED
  BY <1>2, <1>3, <1>4, WriteTyped

(* A step that changes only the pass of one device, to a complete one.     *)
LEMMA PassTyped ==
  ASSUME TypeInv, NEW d \in Device, NEW p \in Pass,
         p.phase # "idle" => p.snap \in Database,
         p.phase \in {"waiting", "verify", "ready"} => p.commit \in Commit,
         pass' = [pass EXCEPT ![d] = p]
  PROVE  pass' \in [Device -> Pass] /\ PassComplete'
BY DEF TypeInv, TypeOK, PassComplete

(* The next attempt keeps the snapshot and stays within the bound.         *)
LEMMA NextAttemptTyped ==
  ASSUME NEW p \in Pass, p.snap \in Database
  PROVE  /\ NextAttempt(p) \in Pass
         /\ NextAttempt(p).phase \in {"idle", "started"}
         /\ NextAttempt(p).phase # "idle" => NextAttempt(p).snap = p.snap
<1>1. CASE p.attempt + 1 < MaxAttempts
  <2>1. NextAttempt(p) = [phase |-> "started", snap |-> p.snap, file |-> None, etag |-> None,
                          commit |-> None, attempt |-> p.attempt + 1]
    BY <1>1 DEF NextAttempt, Idle
  <2>2. p.attempt + 1 \in 0 .. MaxAttempts
    BY <1>1, MaxAttemptsAssumption DEF Pass
  <2>. QED  BY <2>1, <2>2 DEF Pass, Phase
<1>2. CASE ~(p.attempt + 1 < MaxAttempts)
  BY <1>2, EmptyTypes DEF NextAttempt, Idle
<1>. QED
  BY <1>1, <1>2

(* No step of a pass breaks the types: one case per action.                *)
LEMMA PassStepTyped ==
  ASSUME TypeInv, NEW d \in Device, PassStep(d) \/ Abort(d)
  PROVE  TypeInv'
<1>. DEFINE p == pass[d]
<1>0. /\ p \in Pass /\ db[d] \in Database /\ published \in Seq(Payload)
      /\ p.phase # "idle" => p.snap \in Database
      /\ p.phase \in {"waiting", "verify", "ready"} => p.commit \in Commit
  BY DEF TypeInv, TypeOK, PassComplete
<1>1. CASE StartPass(d)
  <2>. DEFINE q == [Idle EXCEPT !.phase = "started", !.snap = db[d]]
  <2>1. q \in Pass
    BY <1>0, EmptyTypes DEF Pass, Phase
  <2>2. q.phase = "started" /\ q.snap \in Database
    BY <1>0, EmptyTypes DEF Pass
  <2>3. pass' = [pass EXCEPT ![d] = q] /\ UNCHANGED <<db, wire, reply, published, lastCommit>>
    BY <1>1 DEF StartPass
  <2>. HIDE DEF q
  <2>. QED  BY <2>1, <2>2, <2>3, PassTyped DEF TypeInv, TypeOK
<1>2. CASE Fetch(d)
  <2>. DEFINE q == [p EXCEPT !.file  = File,
                             !.etag  = IF StrongETags THEN CommitOf(File) ELSE None,
                             !.phase = IF StrongETags \/ File = None THEN "planned"
                                       ELSE "fetched"]
  <2>1. pass' = [pass EXCEPT ![d] = q] /\ UNCHANGED <<db, wire, reply, published, lastCommit>>
    BY <1>2 DEF Fetch
  <2>2. p.snap \in Database
    BY <1>0, <1>2 DEF Fetch
  <2>3. q \in Pass
    BY <1>0, FileType DEF Pass, Phase
  <2>4. q.snap = p.snap /\ q.phase \in {"planned", "fetched"}
    BY <1>0 DEF Pass
  <2>. HIDE DEF q
  <2>. QED  BY <2>1, <2>2, <2>3, <2>4, PassTyped DEF TypeInv, TypeOK
<1>3. CASE AskETag(d)
  <2>. DEFINE q == [p EXCEPT !.etag = CommitOf(File), !.phase = "planned"]
  <2>1. pass' = [pass EXCEPT ![d] = q] /\ UNCHANGED <<db, wire, reply, published, lastCommit>>
    BY <1>3 DEF AskETag
  <2>2. p.snap \in Database
    BY <1>0, <1>3 DEF AskETag
  <2>3. q \in Pass
    BY <1>0, FileType DEF Pass, Phase
  <2>4. q.snap = p.snap /\ q.phase = "planned"
    BY <1>0 DEF Pass
  <2>. HIDE DEF q
  <2>. QED  BY <2>1, <2>2, <2>3, <2>4, PassTyped DEF TypeInv, TypeOK
<1>4. CASE Publish(d)
  <2>. DEFINE commit == lastCommit + 1
              q == [p EXCEPT !.phase = "waiting", !.commit = commit]
              x == [db[d] EXCEPT !.intent = IntentOf(db[d], p.snap.gen, commit)]
              put == [from |-> d, payload |-> NextPayload(d, p, commit), etag |-> p.etag]
  <2>1. /\ pass' = [pass EXCEPT ![d] = q] /\ db' = [db EXCEPT ![d] = x]
        /\ wire' = wire \cup {put} /\ lastCommit' = commit /\ UNCHANGED <<reply, published>>
    BY <1>4 DEF Publish
  <2>2. p.snap \in Database /\ p.snap.gen \in Nat
    BY <1>0, <1>4 DEF Publish, Database
  <2>3. commit \in Commit /\ commit \in Nat
    BY DEF TypeInv, TypeOK, Commit
  <2>4. q \in Pass /\ q.snap = p.snap /\ q.phase = "waiting" /\ q.commit = commit
    BY <1>0, <2>3 DEF Pass, Phase
  <2>5. x \in Database
    BY <1>0, <2>2, <2>3, IntentType DEF Database
  <2>6. put \in Put
    BY <1>0, <2>2, <2>3, NextPayloadType DEF Put, Pass
  <2>. HIDE DEF q, x, put, commit
  <2>7. pass' \in [Device -> Pass] /\ PassComplete'
    BY <2>1, <2>2, <2>3, <2>4, PassTyped
  <2>. QED  BY <2>1, <2>3, <2>5, <2>6, <2>7 DEF TypeInv, TypeOK
<1>5. CASE ReadReply(d)
  <2>0. p.snap \in Database /\ p.commit \in Commit
    BY <1>0, <1>5 DEF ReadReply
  <2>1. PICK q \in {NextAttempt(p), [p EXCEPT !.phase = "ready"], [p EXCEPT !.phase = "verify"]} :
          pass' = [pass EXCEPT ![d] = q]
    BY <1>5 DEF ReadReply
  <2>2. /\ q \in Pass
        /\ q.phase # "idle" => q.snap \in Database
        /\ q.phase \in {"waiting", "verify", "ready"} => q.commit \in Commit
    BY <1>0, <2>0, NextAttemptTyped DEF Pass, Phase
  <2>3. pass' \in [Device -> Pass] /\ PassComplete'
    BY <2>1, <2>2, PassTyped
  <2>. QED  BY <2>3, <1>5 DEF ReadReply, TypeInv, TypeOK
<1>6. CASE Verify(d)
  <2>0. p.snap \in Database /\ p.commit \in Commit
    BY <1>0, <1>6 DEF Verify
  <2>1. PICK q \in {NextAttempt(p), [p EXCEPT !.phase = "ready"]} :
          pass' = [pass EXCEPT ![d] = q]
    BY <1>6 DEF Verify
  <2>2. /\ q \in Pass
        /\ q.phase # "idle" => q.snap \in Database
        /\ q.phase \in {"waiting", "verify", "ready"} => q.commit \in Commit
    BY <1>0, <2>0, NextAttemptTyped DEF Pass, Phase
  <2>3. pass' \in [Device -> Pass] /\ PassComplete'
    BY <2>1, <2>2, PassTyped
  <2>. QED  BY <2>3, <1>6 DEF Verify, TypeInv, TypeOK
<1>7. CASE CommitPass(d)
  <2>. DEFINE x == Committed(db[d], Merged(d, p), Confirmed(d, p), p.snap.gen)
  <2>0. /\ p.snap \in Database /\ p.snap.gen \in Nat
        /\ p.phase = "ready" \/ (p.phase = "planned" /\ ~MustPublish(d, p))
    BY <1>0, <1>7 DEF CommitPass, Database
  <2>1. Confirmed(d, p) \in Payload
    BY <1>0, <2>0, NextPayloadType DEF Confirmed, MustPublish, Pass
  <2>2. x \in Database
    BY <1>0, <2>0, <2>1, MergedType, CommittedType
  <2>3. /\ db' = [db EXCEPT ![d] = x] /\ pass' = [pass EXCEPT ![d] = Idle]
        /\ UNCHANGED <<wire, reply, published, lastCommit>>
    BY <1>7 DEF CommitPass
  <2>. HIDE DEF x
  <2>4. pass' \in [Device -> Pass] /\ PassComplete'
    BY <2>3, EmptyTypes, PassTyped DEF Idle
  <2>. QED  BY <2>2, <2>3, <2>4 DEF TypeInv, TypeOK
<1>8. CASE Abort(d)
  <2>1. pass' \in [Device -> Pass] /\ PassComplete'
    BY <1>8, EmptyTypes, PassTyped DEF Abort, Idle
  <2>. QED  BY <2>1, <1>8 DEF Abort, TypeInv, TypeOK
<1>. QED
  BY <1>1, <1>2, <1>3, <1>4, <1>5, <1>6, <1>7, <1>8 DEF PassStep

(* Nor does the server.                                                    *)
LEMMA ServeTyped ==
  ASSUME TypeInv, NEW put \in wire, Serve(put)
  PROVE  TypeInv'
<1>1. put \in Put /\ put.payload \in Payload /\ put.from \in Device
  BY DEF TypeInv, TypeOK, Put
<1>2. published' \in Seq(Payload)
  BY <1>1 DEF Serve, TypeInv, TypeOK
<1>3. reply' \in [Device -> {"stored", "rejected", None}]
  BY <1>1 DEF Serve, TypeInv, TypeOK
<1>. QED
  BY <1>2, <1>3 DEF Serve, TypeInv, TypeOK, PassComplete

(* The type invariant is inductive ...                                     *)
LEMMA TypeInvInductive == TypeInv /\ [Next]_vars => TypeInv'
<1>. SUFFICES ASSUME TypeInv, [Next]_vars
              PROVE  TypeInv'
  OBVIOUS
<1>1. CASE \E d \in Device : LocalWrite(d)
  BY <1>1, LocalWriteTyped
<1>2. CASE \E d \in Device : PassStep(d) \/ Abort(d)
  BY <1>2, PassStepTyped
<1>3. CASE \E put \in wire : Serve(put)
  BY <1>3, ServeTyped
<1>4. CASE UNCHANGED vars
  BY <1>4 DEF vars, TypeInv, TypeOK, PassComplete
<1>. QED
  BY <1>1, <1>2, <1>3, <1>4 DEF Next

(* ... and holds at first.                                                 *)
LEMMA TypeInvInit == Init => TypeInv
BY EmptyTypes DEF Init, TypeInv, TypeOK, PassComplete, Idle

(* Every reachable state is well typed, and a running pass has what its    *)
(* phase needs.                                                            *)
THEOREM TypeCorrect == Spec => []TypeInv
BY TypeInvInit, TypeInvInductive, PTL DEF Spec

(* The type invariant of the runs.                                         *)
COROLLARY TypeOKHolds == Spec => []TypeOK
<1>1. TypeInv => TypeOK
  BY DEF TypeInv
<1>. QED
  BY <1>1, TypeCorrect, PTL

-----------------------------------------------------------------------------
(*                     The generation certifies the snapshot               *)

(* What a step of the pass of d, other than its start and its commit, does *)
(* to the snapshot and to the database.                                    *)
LEMMA PassKeepsSnapshot ==
  ASSUME TypeInv, NEW d \in Device,
         Fetch(d) \/ AskETag(d) \/ Publish(d) \/ ReadReply(d) \/ Verify(d)
  PROVE  /\ pass[d].phase # "idle"
         /\ pass'[d].phase # "idle" => pass'[d].snap = pass[d].snap
         /\ \A e \in Device \ {d} : pass'[e] = pass[e]
         /\ \A e \in Device : /\ db'[e].gen = db[e].gen
                              /\ db'[e].side = db[e].side
                              /\ db'[e].pending = db[e].pending
                              /\ db'[e].conflicts = db[e].conflicts
                              /\ db'[e].baseline = db[e].baseline
                              /\ db'[e].staging = db[e].staging
<1>0. /\ pass \in [Device -> Pass] /\ db \in [Device -> Database]
      /\ pass[d] \in Pass
  BY DEF TypeInv, TypeOK
<1>1. CASE Fetch(d)
  BY <1>0, <1>1 DEF Fetch, Pass
<1>2. CASE AskETag(d)
  BY <1>0, <1>2 DEF AskETag, Pass
<1>3. CASE Publish(d)
  <2>1. PICK n, i : /\ pass' = [pass EXCEPT ![d] = [@ EXCEPT !.phase = "waiting", !.commit = n]]
                    /\ db' = [db EXCEPT ![d] = [@ EXCEPT !.intent = i]]
    BY <1>3 DEF Publish
  <2>2. pass[d].phase # "idle"
    BY <1>3 DEF Publish
  <2>3. \A e \in Device : db[e] \in Database
    BY <1>0
  <2>. QED  BY <1>0, <2>1, <2>2, <2>3 DEF Pass, Database
<1>4. CASE ReadReply(d)
  <2>1. PICK q \in {NextAttempt(pass[d]), [pass[d] EXCEPT !.phase = "ready"],
                    [pass[d] EXCEPT !.phase = "verify"]} : pass' = [pass EXCEPT ![d] = q]
    BY <1>4 DEF ReadReply
  <2>2. pass[d].phase # "idle" /\ db' = db /\ pass[d].snap \in Database
    BY <1>4 DEF ReadReply, TypeInv, PassComplete
  <2>3. q.phase # "idle" => q.snap = pass[d].snap
    BY <1>0, <2>2, NextAttemptTyped DEF Pass
  <2>. QED  BY <1>0, <2>1, <2>2, <2>3
<1>5. CASE Verify(d)
  <2>1. PICK q \in {NextAttempt(pass[d]), [pass[d] EXCEPT !.phase = "ready"]} :
               pass' = [pass EXCEPT ![d] = q]
    BY <1>5 DEF Verify
  <2>2. pass[d].phase # "idle" /\ db' = db /\ pass[d].snap \in Database
    BY <1>5 DEF Verify, TypeInv, PassComplete
  <2>3. q.phase # "idle" => q.snap = pass[d].snap
    BY <1>0, <2>2, NextAttemptTyped DEF Pass
  <2>. QED  BY <1>0, <2>1, <2>2, <2>3
<1>. QED
  BY <1>1, <1>2, <1>3, <1>4, <1>5

(* Every local write is one Write of one record.                           *)
LEMMA LocalWriteIsWrite ==
  ASSUME NEW d \in Device, LocalWrite(d)
  PROVE  \E id \in Id : \E e, c : Write(d, id, e, c)
<1>1. PICK id \in Id :
        \/ \E f \in [Field -> Value] : InsertRecord(d, id, f)
        \/ \E x \in Field, v \in Value : EditField(d, id, x, v)
        \/ ToggleLock(d, id)
        \/ DeleteRecord(d, id)
        \/ \E resolution \in Resolution : ResolveConflict(d, id, resolution)
  BY DEF LocalWrite
<1>2. ASSUME NEW f \in [Field -> Value], InsertRecord(d, id, f)
      PROVE  \E e, c : Write(d, id, e, c)
  BY <1>2 DEF InsertRecord
<1>3. ASSUME NEW f, NEW l, UpdateRecord(d, id, f, l)
      PROVE  \E e, c : Write(d, id, e, c)
  BY <1>3 DEF UpdateRecord
<1>4. ASSUME NEW x \in Field, NEW v \in Value, EditField(d, id, x, v)
      PROVE  \E e, c : Write(d, id, e, c)
  BY <1>3, <1>4 DEF EditField
<1>5. ToggleLock(d, id) => \E e, c : Write(d, id, e, c)
  BY <1>3 DEF ToggleLock
<1>6. DeleteRecord(d, id) => \E e, c : Write(d, id, e, c)
  BY DEF DeleteRecord
<1>7. ASSUME NEW resolution \in Resolution, ResolveConflict(d, id, resolution)
      PROVE  \E e, c : Write(d, id, e, c)
  BY <1>7 DEF ResolveConflict
<1>. QED
  BY <1>1, <1>2, <1>4, <1>5, <1>6, <1>7

(* Only a local write, a start and a commit touch what the generation      *)
(* certifies: the first and the last move it or end the pass.              *)
LEMMA SnapshotInductive ==
  TypeInv /\ SnapshotIsCertified /\ [Next]_vars => SnapshotIsCertified'
<1>. SUFFICES ASSUME TypeInv, SnapshotIsCertified, [Next]_vars
              PROVE  SnapshotIsCertified'
  OBVIOUS
<1>0. /\ pass \in [Device -> Pass] /\ db \in [Device -> Database]
      /\ \A e \in Device : db[e].gen \in Nat
      /\ \A e \in Device : pass[e].phase # "idle" => pass[e].snap.gen \in Nat
  BY DEF TypeInv, TypeOK, PassComplete, Database
<1>1. ASSUME NEW d \in Device, LocalWrite(d)
      PROVE  SnapshotIsCertified'
  <2>1. PICK id \in Id : \E e, c : Write(d, id, e, c)
    BY <1>1, LocalWriteIsWrite
  <2>2. /\ pass' = pass /\ db'[d].gen = db[d].gen + 1
        /\ \A u \in Device \ {d} : db'[u] = db[u]
    BY <2>1, <1>0 DEF Write, Written
  <2>. QED  BY <2>2, <1>0 DEF SnapshotIsCertified, Active
<1>2. ASSUME NEW d \in Device, StartPass(d)
      PROVE  SnapshotIsCertified'
  <2>1. pass'[d].snap = db[d] /\ db' = db /\ \A u \in Device \ {d} : pass'[u] = pass[u]
    BY <1>0, <1>2, EmptyTypes DEF StartPass, Pass
  <2>. QED  BY <2>1, <1>0 DEF SnapshotIsCertified, Active
<1>3. ASSUME NEW d \in Device,
             Fetch(d) \/ AskETag(d) \/ Publish(d) \/ ReadReply(d) \/ Verify(d)
      PROVE  SnapshotIsCertified'
  BY <1>3, PassKeepsSnapshot DEF SnapshotIsCertified, Active
<1>4. ASSUME NEW d \in Device, CommitPass(d)
      PROVE  SnapshotIsCertified'
  <2>1. /\ pass'[d].phase = "idle"
        /\ \A u \in Device \ {d} : pass'[u] = pass[u] /\ db'[u] = db[u]
    BY <1>0, <1>4 DEF CommitPass, Idle
  <2>. QED  BY <2>1 DEF SnapshotIsCertified, Active
<1>5. ASSUME NEW d \in Device, Abort(d)
      PROVE  SnapshotIsCertified'
  <2>1. /\ pass'[d].phase = "idle" /\ db' = db
        /\ \A u \in Device \ {d} : pass'[u] = pass[u]
    BY <1>0, <1>5 DEF Abort, Idle
  <2>. QED  BY <2>1 DEF SnapshotIsCertified, Active
<1>6. ASSUME NEW put \in wire, Serve(put)
      PROVE  SnapshotIsCertified'
  BY <1>6 DEF Serve, SnapshotIsCertified, Active
<1>7. CASE UNCHANGED vars
  BY <1>7 DEF vars, SnapshotIsCertified, Active
<1>. QED
  BY <1>1, <1>2, <1>3, <1>4, <1>5, <1>6, <1>7 DEF Next, PassStep

(* A pass can commit only what it merged from the library, the conflicts   *)
(* and the baseline the device still has: no write that happened while the *)
(* pass waited for the network is overwritten.                             *)
THEOREM SnapshotCertified == Spec => []SnapshotIsCertified
<1>1. Init => SnapshotIsCertified
  BY DEF Init, SnapshotIsCertified, Active, Idle
<1>. QED
  BY <1>1, TypeCorrect, SnapshotInductive, PTL DEF Spec

-----------------------------------------------------------------------------
(* What a device with a clean outbox may rely on: its library is           *)
(* published, and its conflict centre shows the versions there are.  No    *)
(* assumption is made about the entity tags of the server.                 *)

IsPublished(payload) == \E i \in DOMAIN published : published[i] = payload

(* Where the versions that a commit may take for the baseline come from.   *)
PutsAreCounted == \A put \in wire : put.payload.commit <= lastCommit

PutsAreNext ==
  \A put \in wire :
    StillWaiting(put) =>
      put.payload = NextPayload(put.from, pass[put.from], put.payload.commit)

ReadIsPublished ==
  \A d \in Device :
    /\ db[d].baseline # None => IsPublished(db[d].baseline)
    /\ pass[d].file # None => IsPublished(pass[d].file)

AnswerIsAwaited == \A d \in Device : reply[d] # None => pass[d].phase = "waiting"

StoredIsPublished ==
  \A d \in Device :
    reply[d] = "stored" \/ pass[d].phase \in {"verify", "ready"}
      => IsPublished(NextPayload(d, pass[d], pass[d].commit))

Provenance ==
  PutsAreCounted /\ PutsAreNext /\ ReadIsPublished /\ AnswerIsAwaited /\ StoredIsPublished

(* The next version depends on what the pass read, not on its progress.    *)
LEMMA PayloadOfInputs ==
  ASSUME NEW d, NEW p, NEW q, NEW commit, p.snap = q.snap, p.file = q.file
  PROVE  NextPayload(d, p, commit) = NextPayload(d, q, commit)
BY DEF NextPayload, MergedRemote, Merged, BaseSide, FileSide, ActiveConflict, CommitOf

(* The server appends a payload and keeps the versions it has.             *)
LEMMA PublishedGrows ==
  ASSUME TypeInv, NEW put \in wire, Serve(put)
  PROVE  /\ published' \in Seq(Payload)
         /\ \A i \in DOMAIN published : i \in DOMAIN published' /\ published'[i] = published[i]
         /\ put.etag = CommitOf(File) =>
              \E i \in DOMAIN published' : published'[i] = put.payload
<1>1. published \in Seq(Payload) /\ put.payload \in Payload
  BY DEF TypeInv, TypeOK, Put
<1>2. CASE put.etag = CommitOf(File)
  <2>1. published' = Append(published, put.payload)
    BY <1>2 DEF Serve
  <2>2. published'[Len(published) + 1] = put.payload /\ Len(published) + 1 \in DOMAIN published'
    BY <1>1, <2>1
  <2>. QED  BY <1>1, <2>1, <2>2
<1>3. CASE put.etag # CommitOf(File)
  BY <1>1, <1>3 DEF Serve
<1>. QED
  BY <1>2, <1>3

(* What the verification and the answer to a PUT do to the pass of d.      *)
LEMMA PassMoves ==
  ASSUME TypeInv, NEW d \in Device, ReadReply(d) \/ Verify(d)
  PROVE  \E q \in Pass :
           /\ pass' = [pass EXCEPT ![d] = q]
           /\ \/ q.file = None /\ q.phase \in {"idle", "started"}
              \/ /\ q.snap = pass[d].snap /\ q.file = pass[d].file /\ q.commit = pass[d].commit
                 /\ q.phase \in {"verify", "ready"}
                 /\ reply[d] = "stored" \/ pass[d].phase = "verify"
<1>0. /\ pass[d] \in Pass /\ pass[d].snap \in Database
  BY DEF TypeInv, TypeOK, PassComplete, ReadReply, Verify
<1>. DEFINE p == pass[d]
            back == NextAttempt(p)
            done == [p EXCEPT !.phase = "ready"]
            check == [p EXCEPT !.phase = "verify"]
<1>1. back \in Pass /\ back.phase \in {"idle", "started"} /\ back.file = None
  <2>1. back \in Pass /\ back.phase \in {"idle", "started"}
    BY <1>0, NextAttemptTyped
  <2>2. back.file = None
    BY DEF NextAttempt, Idle
  <2>. QED  BY <2>1, <2>2
<1>2. /\ done \in Pass /\ done.phase = "ready"
      /\ done.snap = p.snap /\ done.file = p.file /\ done.commit = p.commit
  BY <1>0 DEF Pass, Phase
<1>3. /\ check \in Pass /\ check.phase = "verify"
      /\ check.snap = p.snap /\ check.file = p.file /\ check.commit = p.commit
  BY <1>0 DEF Pass, Phase
<1>. HIDE DEF back, done, check
<1>4. CASE ReadReply(d)
  <2>1. \/ pass' = [pass EXCEPT ![d] = back]
        \/ reply[d] = "stored" /\ pass' = [pass EXCEPT ![d] = done]
        \/ reply[d] = "stored" /\ pass' = [pass EXCEPT ![d] = check]
    BY <1>4 DEF ReadReply, back, done, check
  <2>. QED  BY <1>1, <1>2, <1>3, <2>1
<1>5. CASE Verify(d)
  <2>1. \/ pass' = [pass EXCEPT ![d] = back]
        \/ pass[d].phase = "verify" /\ pass' = [pass EXCEPT ![d] = done]
    BY <1>5 DEF Verify, back, done
  <2>. QED  BY <1>1, <1>2, <2>1
<1>. QED
  BY <1>4, <1>5

(* A step of d after which its pass awaits nothing from the server.        *)
LEMMA QuietStep ==
  ASSUME TypeInv, Provenance, NEW d \in Device, NEW q \in Pass,
         pass' = [pass EXCEPT ![d] = q],
         q.phase \notin {"waiting", "verify", "ready"},
         q.file # None => IsPublished(q.file),
         reply' = [reply EXCEPT ![d] = None],
         UNCHANGED <<wire, published, lastCommit>>,
         \A u \in Device : db'[u].baseline # None => IsPublished(db'[u].baseline)
  PROVE  Provenance'
<1>0. /\ pass \in [Device -> Pass]
      /\ reply \in [Device -> {"stored", "rejected", None}]
      /\ None \notin {"stored", "rejected"}
  BY NoVersionAssumption DEF TypeInv, TypeOK
<1>1. /\ pass'[d] = q /\ \A u \in Device \ {d} : pass'[u] = pass[u]
      /\ reply'[d] = None /\ \A u \in Device \ {d} : reply'[u] = reply[u]
  BY <1>0
<1>2. PutsAreCounted'
  BY DEF Provenance, PutsAreCounted
<1>3. PutsAreNext'
  <2>1. ASSUME NEW put \in wire, StillWaiting(put)'
        PROVE  StillWaiting(put) /\ pass'[put.from] = pass[put.from]
    <3>1. put.from \in Device
      BY DEF TypeInv, TypeOK, Put
    <3>. QED  BY <1>1, <2>1, <3>1 DEF StillWaiting
  <2>. QED  BY <2>1 DEF Provenance, PutsAreNext
<1>4. ReadIsPublished'
  BY <1>1 DEF Provenance, ReadIsPublished, IsPublished
<1>5. AnswerIsAwaited' /\ StoredIsPublished'
  BY <1>0, <1>1 DEF Provenance, AnswerIsAwaited, StoredIsPublished, IsPublished
<1>. QED
  BY <1>2, <1>3, <1>4, <1>5 DEF Provenance

(* Every step keeps the provenance of baselines, files read and answers.   *)
LEMMA ProvenanceInductive == TypeInv /\ Provenance /\ [Next]_vars => Provenance'
<1>. SUFFICES ASSUME TypeInv, Provenance, [Next]_vars
              PROVE  Provenance'
  OBVIOUS
<1>0. /\ pass \in [Device -> Pass] /\ db \in [Device -> Database]
      /\ reply \in [Device -> {"stored", "rejected", None}]
      /\ wire \subseteq Put /\ published \in Seq(Payload) /\ lastCommit \in Nat
      /\ \A put \in wire : put.payload.commit \in Nat
      /\ None # "stored" /\ None # "rejected"
  BY NoVersionAssumption DEF TypeInv, TypeOK, Put, Payload, Commit
<1>1. ASSUME NEW d \in Device, LocalWrite(d)
      PROVE  Provenance'
  <2>1. PICK id \in Id : \E e, c : Write(d, id, e, c)
    BY <1>1, LocalWriteIsWrite
  <2>2. /\ UNCHANGED <<pass, wire, reply, published, lastCommit>>
        /\ \A u \in Device : db'[u].baseline = db[u].baseline
    BY <2>1, <1>0 DEF Write, Written
  <2>3. PutsAreCounted' /\ PutsAreNext' /\ AnswerIsAwaited' /\ StoredIsPublished'
    BY <2>2 DEF Provenance, PutsAreCounted, PutsAreNext, AnswerIsAwaited, StoredIsPublished,
                StillWaiting, IsPublished
  <2>4. ReadIsPublished'
    BY <2>2 DEF Provenance, ReadIsPublished, IsPublished
  <2>. QED  BY <2>3, <2>4 DEF Provenance
<1>2. ASSUME NEW d \in Device, StartPass(d)
      PROVE  Provenance'
  <2>. DEFINE q == [Idle EXCEPT !.phase = "started", !.snap = db[d]]
  <2>1. q \in Pass /\ q.phase = "started" /\ q.file = None
    BY <1>0, EmptyTypes DEF Pass, Phase, Idle
  <2>2. /\ pass' = [pass EXCEPT ![d] = q] /\ UNCHANGED <<db, wire, reply, published, lastCommit>>
        /\ pass[d].phase = "idle"
    BY <1>2 DEF StartPass
  <2>3. reply[d] = None
    BY <2>2 DEF Provenance, AnswerIsAwaited
  <2>4. reply' = [reply EXCEPT ![d] = None]
    BY <1>0, <2>2, <2>3
  <2>. HIDE DEF q
  <2>. QED  BY <2>1, <2>2, <2>4, QuietStep DEF Provenance, ReadIsPublished
<1>3. ASSUME NEW d \in Device, Fetch(d) \/ AskETag(d)
      PROVE  Provenance'
  <2>1. PICK q \in Pass : /\ pass' = [pass EXCEPT ![d] = q]
                          /\ q.phase \in {"planned", "fetched"}
                          /\ q.file \in {File, pass[d].file}
    <3>1. pass[d] \in Pass
      BY <1>0
    <3>2. CASE Fetch(d)
      <4>. DEFINE q == [pass[d] EXCEPT
                          !.file  = File,
                          !.etag  = IF StrongETags THEN CommitOf(File) ELSE None,
                          !.phase = IF StrongETags \/ File = None THEN "planned" ELSE "fetched"]
      <4>1. q \in Pass /\ q.phase \in {"planned", "fetched"} /\ q.file = File
        BY <1>0, <3>1, FileType DEF Pass, Phase
      <4>2. pass' = [pass EXCEPT ![d] = q]
        BY <3>2 DEF Fetch
      <4>. HIDE DEF q
      <4>. QED  BY <4>1, <4>2
    <3>3. CASE AskETag(d)
      <4>. DEFINE q == [pass[d] EXCEPT !.etag = CommitOf(File), !.phase = "planned"]
      <4>1. q \in Pass /\ q.phase = "planned" /\ q.file = pass[d].file
        BY <1>0, <3>1, FileType DEF Pass, Phase
      <4>2. pass' = [pass EXCEPT ![d] = q]
        BY <3>3 DEF AskETag
      <4>. HIDE DEF q
      <4>. QED  BY <4>1, <4>2
    <3>. QED  BY <1>3, <3>2, <3>3
  <2>2. UNCHANGED <<db, wire, reply, published, lastCommit>> /\ pass[d].phase # "waiting"
    BY <1>3 DEF Fetch, AskETag
  <2>3. q.file # None => IsPublished(q.file)
    BY <1>0, <2>1 DEF File, IsPublished, Provenance, ReadIsPublished
  <2>4. reply' = [reply EXCEPT ![d] = None]
    BY <1>0, <2>2 DEF Provenance, AnswerIsAwaited
  <2>. QED  BY <2>1, <2>2, <2>3, <2>4, QuietStep DEF Provenance, ReadIsPublished
<1>4. ASSUME NEW d \in Device, Abort(d)
      PROVE  Provenance'
  <2>1. /\ pass' = [pass EXCEPT ![d] = Idle] /\ reply' = [reply EXCEPT ![d] = None]
        /\ UNCHANGED <<db, wire, published, lastCommit>>
    BY <1>4 DEF Abort
  <2>2. Idle \in Pass /\ Idle.phase = "idle" /\ Idle.file = None
    BY EmptyTypes DEF Idle
  <2>. QED  BY <2>1, <2>2, QuietStep DEF Provenance, ReadIsPublished
<1>5. ASSUME NEW d \in Device, CommitPass(d)
      PROVE  Provenance'
  <2>1. /\ pass' = [pass EXCEPT ![d] = Idle] /\ UNCHANGED <<wire, reply, published, lastCommit>>
        /\ pass[d].phase \in {"ready", "planned"}
        /\ pass[d].phase = "planned" => ~MustPublish(d, pass[d])
    BY <1>5 DEF CommitPass
  <2>2. Idle \in Pass /\ Idle.phase = "idle" /\ Idle.file = None
    BY EmptyTypes DEF Idle
  <2>3. reply' = [reply EXCEPT ![d] = None]
    BY <1>0, <2>1 DEF Provenance, AnswerIsAwaited
  <2>4. IsPublished(Confirmed(d, pass[d]))
    BY <2>1 DEF Confirmed, MustPublish, Provenance, ReadIsPublished, StoredIsPublished
  <2>5. \A u \in Device : db'[u].baseline \in {db[u].baseline, Confirmed(d, pass[d])}
    BY <1>0, <1>5 DEF CommitPass, Committed
  <2>6. \A u \in Device : db'[u].baseline # None => IsPublished(db'[u].baseline)
    BY <2>4, <2>5 DEF Provenance, ReadIsPublished
  <2>. QED  BY <2>1, <2>2, <2>3, <2>6, QuietStep
<1>6. ASSUME NEW d \in Device, Publish(d)
      PROVE  Provenance'
  <2>. DEFINE p == pass[d]
              n == lastCommit + 1
              put == [from |-> d, payload |-> NextPayload(d, p, n), etag |-> p.etag]
  <2>1. /\ wire' = wire \cup {put} /\ lastCommit' = n /\ UNCHANGED <<reply, published>>
        /\ pass' = [pass EXCEPT ![d] = [p EXCEPT !.phase = "waiting", !.commit = n]]
        /\ p.phase = "planned"
    BY <1>6 DEF Publish
  <2>2. /\ \A u \in Device \ {d} : pass'[u] = pass[u]
        /\ pass'[d].phase = "waiting" /\ pass'[d].commit = n
        /\ pass'[d].snap = p.snap /\ pass'[d].file = p.file
    BY <1>0, <2>1 DEF Pass
  <2>3. NextPayload(d, p, n).commit = n
    BY DEF NextPayload
  <2>4. PutsAreCounted'
    BY <1>0, <2>1, <2>3 DEF Provenance, PutsAreCounted
  <2>5. PutsAreNext'
    <3>1. ASSUME NEW r \in wire, StillWaiting(r)'
          PROVE  r.payload = NextPayload(r.from, pass'[r.from], r.payload.commit)
      <4>1. r.from \in Device /\ r.payload.commit # n
        BY <1>0 DEF Provenance, PutsAreCounted, Put
      <4>2. r.from # d
        BY <2>2, <3>1, <4>1 DEF StillWaiting
      <4>. QED  BY <2>2, <3>1, <4>1, <4>2 DEF Provenance, PutsAreNext, StillWaiting
    <3>2. put.payload = NextPayload(put.from, pass'[put.from], put.payload.commit)
      BY <2>2, <2>3, PayloadOfInputs
    <3>. QED  BY <2>1, <3>1, <3>2 DEF PutsAreNext
  <2>6. ReadIsPublished'
    <3>1. \A u \in Device : db'[u].baseline = db[u].baseline
      BY <1>6, PassKeepsSnapshot
    <3>. QED  BY <2>1, <2>2, <3>1 DEF Provenance, ReadIsPublished, IsPublished
  <2>7. AnswerIsAwaited' /\ StoredIsPublished'
    <3>1. reply[d] = None
      BY <2>1 DEF Provenance, AnswerIsAwaited
    <3>. QED  BY <1>0, <2>1, <2>2, <3>1
              DEF Provenance, AnswerIsAwaited, StoredIsPublished, IsPublished
  <2>. QED  BY <2>4, <2>5, <2>6, <2>7 DEF Provenance
<1>7. ASSUME NEW d \in Device, ReadReply(d) \/ Verify(d)
      PROVE  Provenance'
  <2>1. PICK q \in Pass :
           /\ pass' = [pass EXCEPT ![d] = q]
           /\ \/ q.file = None /\ q.phase \in {"idle", "started"}
              \/ /\ q.snap = pass[d].snap /\ q.file = pass[d].file /\ q.commit = pass[d].commit
                 /\ q.phase \in {"verify", "ready"}
                 /\ reply[d] = "stored" \/ pass[d].phase = "verify"
    BY <1>7, PassMoves
  <2>2. UNCHANGED <<db, wire, published, lastCommit>>
    BY <1>7 DEF ReadReply, Verify
  <2>3. reply' = [reply EXCEPT ![d] = None]
    <3>1. CASE ReadReply(d)
      BY <3>1 DEF ReadReply
    <3>2. CASE Verify(d)
      <4>1. reply' = reply /\ pass[d].phase = "verify"
        BY <3>2 DEF Verify
      <4>. QED  BY <1>0, <4>1 DEF Provenance, AnswerIsAwaited
    <3>. QED  BY <1>7, <3>1, <3>2
  <2>4. CASE q.file = None /\ q.phase \in {"idle", "started"}
    BY <2>1, <2>2, <2>3, <2>4, QuietStep DEF Provenance, ReadIsPublished
  <2>5. CASE /\ q.snap = pass[d].snap /\ q.file = pass[d].file /\ q.commit = pass[d].commit
             /\ q.phase \in {"verify", "ready"}
             /\ reply[d] = "stored" \/ pass[d].phase = "verify"
    <3>1. /\ pass'[d] = q /\ \A u \in Device \ {d} : pass'[u] = pass[u]
          /\ reply'[d] = None /\ \A u \in Device \ {d} : reply'[u] = reply[u]
      BY <1>0, <2>1, <2>3
    <3>2. IsPublished(NextPayload(d, q, q.commit))
      <4>1. IsPublished(NextPayload(d, pass[d], pass[d].commit))
        BY <2>5 DEF Provenance, StoredIsPublished
      <4>. QED  BY <2>5, <4>1, PayloadOfInputs
    <3>3. PutsAreNext'
      <4>1. ASSUME NEW put \in wire, StillWaiting(put)'
            PROVE  StillWaiting(put) /\ pass'[put.from] = pass[put.from]
        <5>1. put.from \in Device
          BY <1>0 DEF Put
        <5>. QED  BY <2>5, <3>1, <4>1, <5>1 DEF StillWaiting
      <4>. QED  BY <2>2, <4>1 DEF Provenance, PutsAreNext
    <3>4. ReadIsPublished' /\ PutsAreCounted'
      BY <2>2, <2>5, <3>1 DEF Provenance, ReadIsPublished, IsPublished, PutsAreCounted
    <3>5. AnswerIsAwaited' /\ StoredIsPublished'
      BY <1>0, <2>2, <3>1, <3>2 DEF Provenance, AnswerIsAwaited, StoredIsPublished, IsPublished
    <3>. QED  BY <3>3, <3>4, <3>5 DEF Provenance
  <2>. QED  BY <2>1, <2>4, <2>5
<1>8. ASSUME NEW put \in wire, Serve(put)
      PROVE  Provenance'
  <2>0. put.from \in Device /\ put.payload \in Payload
    BY <1>0 DEF Put
  <2>1. /\ wire' = wire \ {put} /\ UNCHANGED <<db, pass, lastCommit>>
        /\ reply' = [reply EXCEPT ![put.from] =
                        IF ~StillWaiting(put) THEN @
                        ELSE IF put.etag = CommitOf(File) THEN "stored" ELSE "rejected"]
    BY <1>8 DEF Serve
  <2>2. ASSUME NEW payload, IsPublished(payload)
        PROVE  IsPublished(payload)'
    BY <1>8, <2>2, PublishedGrows DEF IsPublished
  <2>3. PutsAreCounted' /\ PutsAreNext'
    BY <2>1 DEF Provenance, PutsAreCounted, PutsAreNext, StillWaiting
  <2>4. ReadIsPublished'
    BY <2>1, <2>2 DEF Provenance, ReadIsPublished
  <2>5. AnswerIsAwaited'
    BY <1>0, <2>0, <2>1 DEF Provenance, AnswerIsAwaited, StillWaiting
  <2>6. StoredIsPublished'
    <3>1. ASSUME StillWaiting(put), put.etag = CommitOf(File)
          PROVE  IsPublished(NextPayload(put.from, pass[put.from], pass[put.from].commit))'
      <4>1. put.payload = NextPayload(put.from, pass[put.from], pass[put.from].commit)
        BY <3>1 DEF Provenance, PutsAreNext, StillWaiting
      <4>2. \E i \in DOMAIN published' : published'[i] = put.payload
        BY <1>8, <3>1, PublishedGrows
      <4>. QED  BY <2>1, <4>1, <4>2 DEF IsPublished
    <3>2. ASSUME NEW u \in Device, reply'[u] = "stored", reply[u] # "stored"
          PROVE  u = put.from /\ StillWaiting(put) /\ put.etag = CommitOf(File)
      BY <1>0, <2>0, <2>1, <3>2
    <3>. QED  BY <2>1, <2>2, <3>1, <3>2 DEF Provenance, StoredIsPublished
  <2>. QED  BY <2>3, <2>4, <2>5, <2>6 DEF Provenance
<1>9. CASE UNCHANGED vars
  BY <1>9 DEF vars, Provenance, PutsAreCounted, PutsAreNext, ReadIsPublished, AnswerIsAwaited,
              StoredIsPublished, IsPublished, StillWaiting
<1>. QED
  BY <1>1, <1>2, <1>3, <1>4, <1>5, <1>6, <1>7, <1>8, <1>9 DEF Next, PassStep

-----------------------------------------------------------------------------
(* What the commit of a pass leaves of one record, in terms of the merge.  *)
LEMMA CommitOutcome ==
  ASSUME TypeInv, NEW d \in Device, CommitPass(d), NEW id \in Id
  PROVE  LET m    == Merged(d, pass[d])[id]
             base == EntityOf(BaseSide(d, pass[d])[id], Absent)
         IN  /\ m \in MergeResult
             /\ Faithful(EntityOf(pass[d].snap.side[id], base),
                         EntityOf(FileSide(pass[d])[id], base), m)
             /\ db'[d].conflicts[id] = m.conflict
             /\ db'[d].side[id].rec = IF IsLocked(db[d].side[id]) THEN db[d].side[id].rec
                                      ELSE m.local.rec
             /\ db'[d].side[id].tomb = m.local.tomb
             /\ db'[d].side[id] \in Entity
             /\ db'[d].baseline # None
             /\ db'[d].baseline.side[id] = m.remote
<1>. DEFINE p == pass[d]
            m == Merged(d, p)[id]
            base == EntityOf(BaseSide(d, p)[id], Absent)
<1>0. /\ p \in Pass /\ p.snap \in Database /\ db[d] \in Database /\ db \in [Device -> Database]
      /\ p.phase = "ready" => p.commit \in Commit
  BY DEF TypeInv, TypeOK, PassComplete, CommitPass
<1>1. m \in MergeResult
  BY <1>0, MergedType
<1>2. Faithful(EntityOf(p.snap.side[id], base), EntityOf(FileSide(p)[id], base), m)
  <2>1. /\ BaseSide(d, p)[id] \in Entity /\ FileSide(p)[id] \in Entity
        /\ p.snap.side[id] \in Entity
    BY <1>0, MergedType DEF Side, Database
  <2>2. ActiveConflict(d, p, id) \in Conflict \cup {None}
    BY <1>0 DEF ActiveConflict, Database
  <2>3. m = MergeEntity(BaseSide(d, p)[id], p.snap.side[id], FileSide(p)[id],
                        ActiveConflict(d, p, id), d)
    BY DEF Merged
  <2>. QED  BY <2>1, <2>2, <2>3, MergeIsFaithful
<1>3. db'[d] = Committed(db[d], Merged(d, p), Confirmed(d, p), p.snap.gen)
  BY <1>0 DEF CommitPass
<1>4. /\ db'[d].conflicts[id] = m.conflict
      /\ db'[d].side[id] = [rec  |-> IF IsLocked(db[d].side[id]) THEN db[d].side[id].rec
                                     ELSE m.local.rec,
                            tomb |-> m.local.tomb]
      /\ db'[d].baseline = Confirmed(d, p)
  BY <1>3 DEF Committed, CommittedSide
<1>5. db'[d].side[id] \in Entity
  <2>1. m.local \in Entity /\ db[d].side[id] \in Entity
    BY <1>0, <1>1 DEF MergeResult, Database, Side
  <2>. QED  BY <1>4, <2>1 DEF Entity
<1>6. /\ Confirmed(d, p) \in Payload
      /\ Confirmed(d, p).side = MergedRemote(d, p)
  <2>1. CASE p.phase = "ready"
    <3>1. Confirmed(d, p) = NextPayload(d, p, p.commit)
      BY <2>1 DEF Confirmed
    <3>2. NextPayload(d, p, p.commit) \in Payload
      BY <1>0, <2>1, NextPayloadType
    <3>. QED  BY <3>1, <3>2 DEF NextPayload
  <2>2. CASE p.phase = "planned" /\ ~MustPublish(d, p)
    BY <1>0, <2>2 DEF Confirmed, MustPublish, Pass
  <2>. QED  BY <2>1, <2>2 DEF CommitPass
<1>7. MergedRemote(d, p)[id] = m.remote
  BY DEF MergedRemote
<1>8. db'[d].baseline # None
  BY <1>4, <1>6, NoVersionAssumption
<1>. QED
  BY <1>1, <1>2, <1>4, <1>5, <1>6, <1>7, <1>8

(* The steps that neither write locally nor commit leave alone what the    *)
(* two invariants speak of.                                                *)
LEMMA OtherStepsKeepDb ==
  ASSUME TypeInv, [Next]_vars, NEW u \in Device,
         ~LocalWrite(u), ~CommitPass(u)
  PROVE  /\ db'[u].pending = db[u].pending /\ db'[u].side = db[u].side
         /\ db'[u].conflicts = db[u].conflicts /\ db'[u].baseline = db[u].baseline
         /\ db'[u].gen = db[u].gen /\ db'[u].staging = db[u].staging
<1>0. db \in [Device -> Database]
  BY DEF TypeInv, TypeOK
<1>1. ASSUME NEW d \in Device, LocalWrite(d)
      PROVE  db'[u] = db[u]
  <2>1. PICK id \in Id : \E e, c : Write(d, id, e, c)
    BY <1>1, LocalWriteIsWrite
  <2>. QED  BY <1>0, <1>1, <2>1 DEF Write
<1>2. ASSUME NEW d \in Device, CommitPass(d)
      PROVE  db'[u] = db[u]
  BY <1>0, <1>2 DEF CommitPass
<1>3. ASSUME NEW d \in Device, StartPass(d) \/ Abort(d)
      PROVE  db' = db
  BY <1>3 DEF StartPass, Abort
<1>4. ASSUME NEW put \in wire, Serve(put)
      PROVE  db' = db
  BY <1>4 DEF Serve
<1>5. CASE UNCHANGED vars
  BY <1>5 DEF vars
<1>. QED
  BY <1>1, <1>2, <1>3, <1>4, <1>5, PassKeepsSnapshot DEF Next, PassStep

(* A local write queues itself.                                            *)
LEMMA LocalWriteIsPending ==
  ASSUME TypeInv, NEW d \in Device, LocalWrite(d)
  PROVE  db'[d].pending
<1>1. PICK id \in Id : \E e, c : Write(d, id, e, c)
  BY LocalWriteIsWrite
<1>. QED
  BY <1>1 DEF Write, Written, TypeInv, TypeOK

(* The baseline is published, and the commit that leaves the outbox clean  *)
(* leaves on both sides of the merge what it does not report.              *)
LEMMA CleanInductive ==
  TypeInv /\ Provenance' /\ CleanMeansPublished /\ [Next]_vars => CleanMeansPublished'
<1>. SUFFICES ASSUME TypeInv, Provenance', CleanMeansPublished, [Next]_vars,
                     NEW u \in Device, ~db'[u].pending
              PROVE  /\ db'[u].baseline # None =>
                          \E i \in DOMAIN published' : published'[i] = db'[u].baseline
                     /\ \A id \in Id : \/ db'[u].conflicts[id] # None
                                       \/ IsLocked(db'[u].side[id])
                                       \/ db'[u].side[id] = BaselineSide(db'[u])[id]
  BY DEF CleanMeansPublished
<1>1. db'[u].baseline # None => \E i \in DOMAIN published' : published'[i] = db'[u].baseline
  BY DEF Provenance, ReadIsPublished, IsPublished
<1>2. ~LocalWrite(u)
  BY LocalWriteIsPending
<1>3. CASE CommitPass(u)
  <2>. SUFFICES ASSUME NEW id \in Id, db'[u].conflicts[id] = None,
                       ~IsLocked(db'[u].side[id])
                PROVE  db'[u].side[id] = BaselineSide(db'[u])[id]
    BY <1>1
  <2>. DEFINE m == Merged(u, pass[u])[id]
  <2>1. /\ m \in MergeResult /\ m.conflict = None
        /\ db'[u].side[id].rec = IF IsLocked(db[u].side[id]) THEN db[u].side[id].rec
                                 ELSE m.local.rec
        /\ db'[u].side[id].tomb = m.local.tomb
        /\ db'[u].side[id] \in Entity
        /\ BaselineSide(db'[u])[id] = m.remote
    BY <1>3, CommitOutcome DEF BaselineSide
  <2>2. m.local = m.remote
    BY <1>3, <2>1, CommitOutcome DEF Faithful
  <2>3. ~IsLocked(db[u].side[id])
    BY <2>1 DEF IsLocked
  <2>. QED  BY <2>1, <2>2, <2>3 DEF MergeResult, Entity
<1>4. CASE ~CommitPass(u)
  BY <1>1, <1>2, <1>4, OtherStepsKeepDb DEF CleanMeansPublished, BaselineSide
<1>. QED
  BY <1>3, <1>4

(* Both hold at first.                                                     *)
LEMMA CleanInit == Init => Provenance /\ CleanMeansPublished
BY NoVersionAssumption, EmptyTypes
   DEF Init, Provenance, PutsAreCounted, PutsAreNext, ReadIsPublished, AnswerIsAwaited,
       StoredIsPublished, CleanMeansPublished, EmptyDb, EmptySide, BaselineSide, Idle

(* A device whose outbox is clean has published its library: every record  *)
(* that is neither locked nor in conflict is the one of a version that the *)
(* server has stored.                                                      *)
THEOREM CleanPublished == Spec => []CleanMeansPublished
BY CleanInit, TypeCorrect, ProvenanceInductive, CleanInductive, PTL DEF Spec

(* A conflict is stored by a commit whose snapshot is still the library,   *)
(* by the certificate of the generation.                                   *)
LEMMA ConflictInductive ==
  TypeInv /\ SnapshotIsCertified /\ ConflictShowsBothSides /\ [Next]_vars
    => ConflictShowsBothSides'
<1>. SUFFICES ASSUME TypeInv, SnapshotIsCertified, ConflictShowsBothSides, [Next]_vars,
                     NEW u \in Device, NEW id \in Id,
                     ~db'[u].pending, db'[u].conflicts[id] # None
              PROVE  /\ db'[u].conflicts[id].local = db'[u].side[id].rec
                     /\ db'[u].conflicts[id].remote = BaselineSide(db'[u])[id].rec
  BY DEF ConflictShowsBothSides
<1>1. ~LocalWrite(u)
  BY LocalWriteIsPending
<1>2. CASE CommitPass(u)
  <2>. DEFINE m == Merged(u, pass[u])[id]
              base == EntityOf(BaseSide(u, pass[u])[id], Absent)
              local == EntityOf(pass[u].snap.side[id], base)
  <2>1. /\ m.conflict # None /\ m.conflict = db'[u].conflicts[id]
        /\ db'[u].side[id].rec = IF IsLocked(db[u].side[id]) THEN db[u].side[id].rec
                                 ELSE m.local.rec
        /\ BaselineSide(db'[u])[id] = m.remote
    BY <1>2, CommitOutcome DEF BaselineSide
  <2>2. /\ m.local = local
        /\ m.conflict.local = m.local.rec /\ m.conflict.remote = m.remote.rec
    BY <1>2, <2>1, CommitOutcome DEF Faithful
  <2>3. pass[u].snap.side = db[u].side
    BY <1>2 DEF CommitPass, SnapshotIsCertified, Active
  <2>4. IsLocked(db[u].side[id]) => local.rec = db[u].side[id].rec
    BY <2>3 DEF IsLocked, EntityOf, RecordEntity
  <2>. QED  BY <2>1, <2>2, <2>4
<1>3. CASE ~CommitPass(u)
  BY <1>1, <1>3, OtherStepsKeepDb DEF ConflictShowsBothSides, BaselineSide
<1>. QED
  BY <1>2, <1>3

(* The conflict centre of a device whose outbox is clean shows its own     *)
(* version of the record and the one of its baseline.                      *)
THEOREM ConflictsShown == Spec => []ConflictShowsBothSides
<1>1. Init => SnapshotIsCertified /\ ConflictShowsBothSides
  BY DEF Init, SnapshotIsCertified, Active, Idle, ConflictShowsBothSides, EmptyDb
<1>. QED
  BY <1>1, TypeCorrect, SnapshotInductive, ConflictInductive, PTL DEF Spec
-----------------------------------------------------------------------------
(* No write is lost.  A library and a baseline say one thing of an id, but *)
(* for the tombstone that a locked record may carry; a library is silent   *)
(* only about what its baseline does not have.                             *)
Tidy ==
  \A d \in Device, id \in Id :
    /\ IsLocked(db[d].side[id]) \/ Single(db[d].side[id])
    /\ db[d].baseline # None =>
         /\ Single(db[d].baseline.side[id])
         /\ db[d].side[id] = Absent => db[d].baseline.side[id] = Absent
    /\ db[d].conflicts[id] # None => db[d].side[id] # Absent

(* What a local write stores is tidy.                                      *)
LEMMA DefiniteIsTidy ==
  ASSUME NEW e \in Definite
  PROVE  e \in Entity /\ Single(e) /\ e # Absent
BY NoneAssumption DEF Definite, Entity, RecordEntity, TombEntity, Single, Absent

(* The commit of d leaves its database tidy.                               *)
LEMMA CommitIsTidy ==
  ASSUME TypeInv, SnapshotIsCertified, Tidy, NEW d \in Device, CommitPass(d), NEW id \in Id
  PROVE  /\ IsLocked(db'[d].side[id]) \/ Single(db'[d].side[id])
         /\ Single(db'[d].baseline.side[id])
         /\ db'[d].side[id] = Absent => db'[d].baseline.side[id] = Absent
         /\ db'[d].conflicts[id] # None => db'[d].side[id] # Absent
<1>. DEFINE p == pass[d]
            m == Merged(d, p)[id]
            b == BaseSide(d, p)[id]
            frozen == ActiveConflict(d, p, id)
            base == EntityOf(b, Absent)
            local == EntityOf(db[d].side[id], base)
<1>0. /\ p \in Pass /\ p.snap \in Database /\ db[d] \in Database
      /\ p.snap.side = db[d].side /\ p.snap.conflicts = db[d].conflicts
  BY DEF TypeInv, TypeOK, PassComplete, CommitPass, SnapshotIsCertified, Active
<1>1. /\ b \in Entity /\ FileSide(p)[id] \in Entity /\ db[d].side[id] \in Entity
      /\ frozen \in Conflict \cup {None}
      /\ m = MergeEntity(b, db[d].side[id], FileSide(p)[id], frozen, d)
  BY <1>0, MergedType DEF Side, Database, ActiveConflict, Merged
<1>2. /\ m \in MergeResult
      /\ Faithful(local, EntityOf(FileSide(p)[id], base), m)
      /\ db'[d].conflicts[id] = m.conflict
      /\ db'[d].side[id].rec = IF IsLocked(db[d].side[id]) THEN db[d].side[id].rec ELSE m.local.rec
      /\ db'[d].side[id].tomb = m.local.tomb
      /\ db'[d].side[id] \in Entity
      /\ db'[d].baseline.side[id] = m.remote
  BY <1>0, CommitOutcome
<1>3. Single(m.local) /\ Single(m.remote)
  BY <1>1, MergeIsSingle
<1>4. CASE IsLocked(db[d].side[id])
  <2>1. IsLocked(db'[d].side[id]) /\ db'[d].side[id] # Absent
    BY <1>2, <1>4 DEF IsLocked, Absent
  <2>. QED  BY <1>2, <1>3, <2>1
<1>5. CASE ~IsLocked(db[d].side[id])
  <2>1. db'[d].side[id] = m.local
    BY <1>2, <1>5 DEF Entity, MergeResult
  <2>2. m.conflict # None => db[d].side[id] # Absent
    <3>1. CASE frozen = None
      BY <1>1, <3>1, ClashNeedsAMention
    <3>2. CASE frozen # None
      BY <1>0, <3>2 DEF Tidy, ActiveConflict
    <3>. QED  BY <3>1, <3>2
  <2>3. m.conflict # None => m.local = local
    BY <1>2 DEF Faithful
  <2>4. db[d].side[id] # Absent => local # Absent
    <3>. HIDE DEF base
    <3>. QED  BY <1>1 DEF EntityOf, Entity, Absent, RecordEntity, TombEntity
  <2>5. m.conflict = None => m.local = m.remote
    BY <1>2 DEF Faithful
  <2>. HIDE DEF m, local
  <2>. QED  BY <1>2, <1>3, <2>1, <2>2, <2>3, <2>4, <2>5
<1>. QED
  BY <1>4, <1>5

(* Databases stay tidy.                                                    *)
LEMMA TidyInductive == TypeInv /\ SnapshotIsCertified /\ Tidy /\ [Next]_vars => Tidy'
<1>. SUFFICES ASSUME TypeInv, SnapshotIsCertified, Tidy, [Next]_vars,
                     NEW u \in Device, NEW i \in Id
              PROVE  /\ IsLocked(db'[u].side[i]) \/ Single(db'[u].side[i])
                     /\ db'[u].baseline # None =>
                          /\ Single(db'[u].baseline.side[i])
                          /\ db'[u].side[i] = Absent => db'[u].baseline.side[i] = Absent
                     /\ db'[u].conflicts[i] # None => db'[u].side[i] # Absent
  BY DEF Tidy
<1>1. CASE LocalWrite(u)
  <2>1. PICK id \in Id, e \in Definite :
          \E c \in {db[u].conflicts, [db[u].conflicts EXCEPT ![id] = None]} : Write(u, id, e, c)
    BY <1>1, LocalWriteWrites DEF Writes
  <2>2. PICK c : /\ c \in {db[u].conflicts, [db[u].conflicts EXCEPT ![id] = None]}
                 /\ Write(u, id, e, c)
    BY <2>1
  <2>3. db[u] \in Database /\ db'[u] = Written(db[u], id, e, c)
    BY <2>2 DEF Write, TypeInv, TypeOK
  <2>4. /\ db'[u].side = [db[u].side EXCEPT ![id] = e]
        /\ db'[u].baseline = db[u].baseline /\ db'[u].conflicts = c
    BY <2>3 DEF Written
  <2>5. /\ db'[u].side[i] = IF i = id THEN e ELSE db[u].side[i]
        /\ c[i] # None => db[u].conflicts[i] # None
    BY <2>2, <2>3, <2>4 DEF Database, Side
  <2>. QED  BY <2>4, <2>5, DefiniteIsTidy DEF Tidy
<1>2. CASE CommitPass(u)
  BY <1>2, CommitIsTidy
<1>3. CASE ~LocalWrite(u) /\ ~CommitPass(u)
  BY <1>3, OtherStepsKeepDb DEF Tidy
<1>. QED
  BY <1>1, <1>2, <1>3

(* What a silent merge keeps of a library that differs from the base: each *)
(* edited field and each deletion.                                         *)
LEMMA SilentMergeKeeps ==
  ASSUME NEW b \in Entity, NEW l \in Entity, NEW r \in Entity,
         NEW frozen \in Conflict \cup {None}, NEW d \in Device,
         Single(b), Single(l), l # Absent, l # b,
         MergeEntity(b, l, r, frozen, d).conflict = None
  PROVE  Keeps(b, l, MergeEntity(b, l, r, frozen, d).local)
<1>. DEFINE remote == EntityOf(r, b)
            m == MergeEntity(b, l, r, frozen, d)
<1>1. EntityOf(b, Absent) = b /\ EntityOf(l, b) = l
  BY EntityOfSingle DEF Absent, Entity
<1>2. SilentCase(b, l, remote, m, d)
  BY <1>1, SilentMerge
<1>3. remote \in Entity
  BY EntityOfType
<1>4. \A e : Agree(e).local = e
  BY DEF Agree
<1>5. Keeps(b, l, l)
  BY DEF Keeps
<1>. HIDE DEF remote, m
<1>6. ASSUME b.rec = None, l.rec # None, remote.rec # None, SameBusiness(l.rec, remote.rec)
      PROVE  Keeps(b, l, remote)
  BY <1>6 DEF Keeps, SameBusiness
<1>7. ASSUME b.rec # None, l.rec # None, remote.rec # None,
             ClashingFields(b.rec, l.rec, remote.rec) = {}
      PROVE  Keeps(b, l, RecordEntity(MergeRecords(b.rec, l.rec, remote.rec, d)))
  <2>. DEFINE n == MergeRecords(b.rec, l.rec, remote.rec, d)
  <2>1. b.rec \in Record /\ l.rec \in Record /\ remote.rec \in Record
    BY <1>3, <1>7 DEF Entity
  <2>2. n \in Record
    BY <2>1, MergeRecordsType
  <2>3. \A x \in Field : n.f[x] = IF remote.rec.f[x] # b.rec.f[x] THEN remote.rec.f[x] ELSE l.rec.f[x]
    BY DEF MergeRecords, ChangedFields
  <2>4. \A x \in Field : \/ l.rec.f[x] = b.rec.f[x]
                         \/ remote.rec.f[x] = b.rec.f[x]
                         \/ l.rec.f[x] = remote.rec.f[x]
    BY <1>7 DEF ClashingFields, ChangedFields
  <2>5. n # None
    BY <2>2, NoneAssumption
  <2>. HIDE DEF n
  <2>6. RecordEntity(n).rec = n
    BY DEF RecordEntity
  <2>7. Keeps(b, l, RecordEntity(n))
    BY <1>7, <2>3, <2>4, <2>5, <2>6 DEF Keeps
  <2>. QED  BY <2>7 DEF n
<1>8. \A t : l.rec = None => Keeps(b, l, TombEntity(t))
  BY DEF Keeps, TombEntity
<1>9. Keeps(b, l, m.local)
  BY <1>2, <1>4, <1>5, <1>6, <1>7, <1>8 DEF SilentCase
<1>. QED
  BY <1>9 DEF m

(* Before the first sync the base is nothing, or the file itself: then the *)
(* whole local version is kept.                                            *)
LEMMA FirstMergeKeeps ==
  ASSUME NEW b \in Entity, NEW l \in Entity, NEW r \in Entity,
         NEW frozen \in Conflict \cup {None}, NEW d \in Device,
         b = Absent \/ b = r, Single(l), l # Absent,
         MergeEntity(b, l, r, frozen, d).conflict = None
  PROVE  Keeps(Absent, l, MergeEntity(b, l, r, frozen, d).local)
<1>. DEFINE base == EntityOf(b, Absent)
            remote == EntityOf(r, base)
            m == MergeEntity(b, l, r, frozen, d)
<1>0. Absent \in Entity /\ Absent.rec = None /\ Absent.tomb = None
  BY DEF Absent, Entity
<1>1. base \in Entity /\ remote \in Entity
  BY <1>0, EntityOfType
<1>2. SilentCase(base, l, remote, m, d)
  <2>1. EntityOf(l, base) = l
    BY <1>1, EntityOfSingle
  <2>. QED  BY <2>1, SilentMerge
<1>3. base = Absent \/ base = remote
  BY <1>0 DEF EntityOf, RecordEntity, TombEntity
<1>4. \A e : Agree(e).local = e
  BY DEF Agree
<1>. HIDE DEF base, remote, m
<1>5. Keeps(Absent, l, l)
  BY DEF Keeps
<1>6. ASSUME l.rec # None, remote.rec # None, SameBusiness(l.rec, remote.rec)
      PROVE  Keeps(Absent, l, remote)
  BY <1>6 DEF Keeps, SameBusiness
<1>7. \A t : l.rec = None => Keeps(Absent, l, TombEntity(t))
  BY DEF Keeps, TombEntity
<1>8. ASSUME base.rec # None, l.rec # None, remote.rec # None,
             ClashingFields(base.rec, l.rec, remote.rec) = {}
      PROVE  Keeps(Absent, l, RecordEntity(MergeRecords(base.rec, l.rec, remote.rec, d)))
  <2>. DEFINE n == MergeRecords(base.rec, l.rec, remote.rec, d)
  <2>1. base.rec \in Record /\ l.rec \in Record /\ remote.rec \in Record
    BY <1>1, <1>8 DEF Entity
  <2>2. n \in Record
    BY <2>1, MergeRecordsType
  <2>3. base = remote
    BY <1>0, <1>3, <1>8
  <2>4. \A x \in Field : n.f[x] = l.rec.f[x]
    BY <2>3 DEF MergeRecords, ChangedFields
  <2>5. n # None
    BY <2>2, NoneAssumption
  <2>. HIDE DEF n
  <2>6. RecordEntity(n).rec = n
    BY DEF RecordEntity
  <2>7. Keeps(Absent, l, RecordEntity(n))
    BY <1>8, <2>4, <2>5, <2>6 DEF Keeps
  <2>. QED  BY <2>7 DEF n
<1>9. Keeps(Absent, l, m.local)
  BY <1>0, <1>2, <1>3, <1>4, <1>5, <1>6, <1>7, <1>8 DEF SilentCase
<1>. QED
  BY <1>9 DEF m

(* No write of the user is lost in a commit: what the library has over the *)
(* baseline is there afterwards, field by field, or in conflict.           *)
THEOREM WritesAreKept == Spec => NoWriteLost
<1>1. ASSUME TypeInv, SnapshotIsCertified, Tidy, [Next]_vars,
             NEW u \in Device, NEW id \in Id,
             db'[u].baseline # db[u].baseline,
             db[u].side[id] # BaselineSide(db[u])[id],
             db'[u].conflicts[id] = None
      PROVE  Keeps(BaselineSide(db[u])[id], db[u].side[id], db'[u].side[id])
  <2>. USE <1>1
  <2>. DEFINE p == pass[u]
              l == db[u].side[id]
              b == BaseSide(u, p)[id]
              r == FileSide(p)[id]
              frozen == ActiveConflict(u, p, id)
              m == MergeEntity(b, l, r, frozen, u)
              new == db'[u].side[id]
  <2>1. CommitPass(u)
    <3>1. ASSUME LocalWrite(u) PROVE FALSE
      <4>1. PICK i \in Id : \E e, c : Write(u, i, e, c)
        BY <3>1, LocalWriteIsWrite
      <4>. QED  BY <4>1 DEF Write, Written, TypeInv, TypeOK
    <3>. QED  BY <3>1, OtherStepsKeepDb
  <2>2. /\ p \in Pass /\ p.snap \in Database /\ db[u] \in Database
        /\ p.snap.side = db[u].side /\ p.snap.conflicts = db[u].conflicts
        /\ p.snap.baseline = db[u].baseline
    BY <2>1 DEF TypeInv, TypeOK, PassComplete, CommitPass, SnapshotIsCertified, Active
  <2>3. /\ b \in Entity /\ r \in Entity /\ l \in Entity
        /\ frozen \in Conflict \cup {None} /\ Merged(u, p)[id] = m
    BY <2>2, MergedType DEF Side, Database, ActiveConflict, Merged
  <2>4. /\ m.conflict = None /\ new \in Entity
        /\ new.rec = IF IsLocked(l) THEN l.rec ELSE m.local.rec
    BY <2>1, <2>3, CommitOutcome
  <2>5. CASE IsLocked(l)
    BY <2>4, <2>5 DEF Keeps, IsLocked
  <2>6. ASSUME ~IsLocked(l) PROVE Keeps(BaselineSide(db[u])[id], l, m.local)
    <3>1. Single(l) /\ (db[u].baseline # None => (l = Absent => db[u].baseline.side[id] = Absent))
      BY <2>6 DEF Tidy
    <3>2. CASE db[u].baseline # None
      <4>1. b = db[u].baseline.side[id] /\ BaselineSide(db[u])[id] = b
        BY <2>2, <3>2 DEF BaseSide, BaselineSide
      <4>2. Single(b) /\ l # Absent /\ l # b
        BY <3>1, <3>2, <4>1 DEF Tidy
      <4>. HIDE DEF b, l, r, frozen
      <4>. QED  BY <2>3, <2>4, <3>1, <4>1, <4>2, SilentMergeKeeps
    <3>3. CASE db[u].baseline = None
      <4>1. BaselineSide(db[u])[id] = Absent /\ l # Absent
        BY <3>3 DEF BaselineSide, EmptySide
      <4>2. b = Absent \/ b = r
        BY <2>2, <3>3 DEF BaseSide, FileSide, EmptySide
      <4>. HIDE DEF b, l, r, frozen
      <4>. QED  BY <2>3, <2>4, <3>1, <4>1, <4>2, FirstMergeKeeps
    <3>. QED  BY <3>2, <3>3
  <2>7. CASE ~IsLocked(l)
    <3>1. new.rec = m.local.rec
      BY <2>4, <2>7
    <3>2. Keeps(BaselineSide(db[u])[id], l, new)
      <4>. HIDE DEF l, m, new
      <4>. QED  BY <2>6, <2>7, <3>1 DEF Keeps
    <3>. QED  BY <3>2
  <2>. QED  BY <2>5, <2>7
<1>2. TypeInv /\ SnapshotIsCertified /\ Tidy /\ [Next]_vars =>
        [\A d \in Device, id \in Id :
           ( /\ db'[d].baseline # db[d].baseline
             /\ db[d].side[id] # BaselineSide(db[d])[id]
             /\ db'[d].conflicts[id] = None )
           => Keeps(BaselineSide(db[d])[id], db[d].side[id], db'[d].side[id])]_vars
  BY <1>1
<1>3. Init => Tidy
  BY EmptyTypes DEF Init, Tidy, EmptyDb, EmptySide, Absent, Single
<1>. QED
  BY <1>2, <1>3, TypeCorrect, SnapshotCertified, TidyInductive, PTL DEF Spec, NoWriteLost

-----------------------------------------------------------------------------
(***************************************************************************)
(*                          The chain of versions                          *)
(*                                                                         *)
(* The protocol implements CommitChain when the entity tags are strong:    *)
(* every version of the cloud file was derived from the one it replaced,   *)
(* and the baseline of a device only moves forward.  The part that does    *)
(* not need strong tags is stated without them.                            *)
(***************************************************************************)
(* A payload that is a version, no older than the given baseline.          *)
Ahead(versions, baseline, payload) ==
  \E n \in DOMAIN versions :
    /\ versions[n] = payload
    /\ \A m \in DOMAIN versions : versions[m] = baseline => m <= n

(* No two publications share a commit id.                                  *)
CommitsDiffer ==
  /\ \A i \in DOMAIN published : published[i].commit <= lastCommit
  /\ \A put \in wire : /\ \A i \in DOMAIN published : published[i].commit # put.payload.commit
                       /\ \A r \in wire : r.payload.commit = put.payload.commit => r = put

(* What a commit may take for the baseline is no older than the baseline.  *)
MovesForward ==
  \A d \in Device :
    /\ pass[d].file # None => Ahead(published, db[d].baseline, pass[d].file)
    /\ reply[d] = "stored" \/ pass[d].phase \in {"verify", "ready"}
         => Ahead(published, db[d].baseline, NextPayload(d, pass[d], pass[d].commit))

(* A PUT is conditional on the version its payload was derived from.       *)
TagIsParent ==
  StrongETags =>
    /\ \A d \in Device : /\ pass[d].phase # "fetched"
                         /\ pass[d].phase = "planned" => pass[d].etag = CommitOf(pass[d].file)
    /\ \A put \in wire : put.etag = put.payload.parent

ChainInv == TypeInv /\ Provenance /\ CommitsDiffer /\ MovesForward /\ TagIsParent

-----------------------------------------------------------------------------
(* A version with a commit id of its own leaves the others where they are. *)
LEMMA AheadStays ==
  ASSUME NEW versions \in Seq(Payload), NEW new \in Payload,
         NEW baseline, baseline # None => \E i \in DOMAIN versions : versions[i] = baseline,
         \A i \in DOMAIN versions : versions[i].commit # new.commit,
         NEW payload, Ahead(versions, baseline, payload)
  PROVE  Ahead(Append(versions, new), baseline, payload)
<1>. DEFINE longer == Append(versions, new)
<1>1. /\ DOMAIN longer = DOMAIN versions \cup {Len(versions) + 1}
      /\ \A i \in DOMAIN versions : longer[i] = versions[i]
      /\ longer[Len(versions) + 1] = new
  OBVIOUS
<1>2. new # baseline
  BY NoVersionAssumption
<1>. HIDE DEF longer
<1>3. Ahead(longer, baseline, payload)
  BY <1>1, <1>2 DEF Ahead
<1>. QED
  BY <1>3 DEF longer

(* The last version is ahead of every baseline.                            *)
LEMMA LastIsAhead ==
  ASSUME NEW versions \in Seq(Payload), versions # <<>>, NEW baseline
  PROVE  Ahead(versions, baseline, versions[Len(versions)])
<1>1. Len(versions) \in DOMAIN versions /\ \A m \in DOMAIN versions : m <= Len(versions)
  OBVIOUS
<1>. QED
  BY <1>1 DEF Ahead

(* Publish takes a fresh commit id, Serve gives one from wire to published. *)
LEMMA CommitsDifferInductive ==
  TypeInv /\ Provenance /\ CommitsDiffer /\ [Next]_vars => CommitsDiffer'
<1>. SUFFICES ASSUME TypeInv, Provenance, CommitsDiffer, [Next]_vars
              PROVE  CommitsDiffer'
  OBVIOUS
<1>0. /\ published \in Seq(Payload) /\ lastCommit \in Nat
      /\ \A put \in wire : /\ put.payload \in Payload /\ put.payload.commit \in Nat
                           /\ put.payload.commit <= lastCommit
      /\ \A i \in DOMAIN published : published[i].commit \in Nat
  <2>1. \A payload \in Payload : payload.commit \in Nat
    BY DEF Payload, Commit
  <2>2. wire \subseteq Put /\ published \in Seq(Payload) /\ lastCommit \in Nat
    BY DEF TypeInv, TypeOK
  <2>3. \A put \in wire : put.payload \in Payload
    BY <2>2 DEF Put
  <2>. QED  BY <2>1, <2>2, <2>3 DEF Provenance, PutsAreCounted
<1>1. ASSUME NEW d \in Device, Publish(d)
      PROVE  CommitsDiffer'
  <2>1. PICK put : /\ put.payload.commit = lastCommit + 1
                   /\ wire' = wire \cup {put}
                   /\ lastCommit' = lastCommit + 1
                   /\ published' = published
    <3>. DEFINE put == [from |-> d, payload |-> NextPayload(d, pass[d], lastCommit + 1),
                        etag |-> pass[d].etag]
    <3>1. put.payload.commit = lastCommit + 1
      BY DEF NextPayload
    <3>. QED  BY <1>1, <3>1 DEF Publish
  <2>. QED  BY <1>0, <2>1 DEF CommitsDiffer
<1>2. ASSUME NEW put \in wire, Serve(put)
      PROVE  CommitsDiffer'
  <2>1. /\ wire' = wire \ {put} /\ lastCommit' = lastCommit
        /\ published' \in {published, Append(published, put.payload)}
    BY <1>2 DEF Serve
  <2>2. put.payload \in Payload
    BY <1>0
  <2>3. \A i \in DOMAIN published' :
          \/ i \in DOMAIN published /\ published'[i] = published[i]
          \/ published'[i] = put.payload
    BY <1>0, <2>1, <2>2
  <2>4. \A r \in wire' : r \in wire /\ r.payload.commit # put.payload.commit
    BY <2>1 DEF CommitsDiffer
  <2>. QED  BY <1>0, <2>1, <2>3, <2>4 DEF CommitsDiffer
<1>3. CASE UNCHANGED <<wire, published, lastCommit>>
  BY <1>3 DEF CommitsDiffer
<1>4. ASSUME NEW d \in Device, LocalWrite(d)
      PROVE  UNCHANGED <<wire, published, lastCommit>>
  <2>1. PICK id \in Id : \E e, c : Write(d, id, e, c)
    BY <1>4, LocalWriteIsWrite
  <2>. QED  BY <2>1 DEF Write
<1>. QED
  BY <1>1, <1>2, <1>3, <1>4
     DEF Next, PassStep, StartPass, Fetch, AskETag, ReadReply, Verify, CommitPass, Abort, vars

(* The tag comes with the body, and the payload names its version.         *)
LEMMA TagIsParentInductive == TypeInv /\ TagIsParent /\ [Next]_vars => TagIsParent'
<1>. SUFFICES ASSUME TypeInv, TagIsParent, [Next]_vars, StrongETags
              PROVE  /\ \A d \in Device :
                          /\ pass'[d].phase # "fetched"
                          /\ pass'[d].phase = "planned" =>
                               pass'[d].etag = CommitOf(pass'[d].file)
                     /\ \A put \in wire' : put.etag = put.payload.parent
  BY DEF TagIsParent
<1>. DEFINE Fit(p) == p.phase # "fetched" /\ (p.phase = "planned" => p.etag = CommitOf(p.file))
<1>0. /\ pass \in [Device -> Pass]
      /\ \A d \in Device : Fit(pass[d])
      /\ \A put \in wire : put.etag = put.payload.parent
  BY DEF TypeInv, TypeOK, TagIsParent
<1>. SUFFICES /\ \A d \in Device : Fit(pass'[d])
              /\ \A put \in wire' : put.etag = put.payload.parent
  OBVIOUS
<1>1. ASSUME NEW d \in Device, LocalWrite(d)
      PROVE  UNCHANGED <<pass, wire>>
  <2>1. PICK id \in Id : \E e, c : Write(d, id, e, c)
    BY <1>1, LocalWriteIsWrite
  <2>. QED  BY <2>1 DEF Write
<1>2. ASSUME NEW d \in Device, Publish(d)
      PROVE  /\ \A e \in Device : Fit(pass'[e])
             /\ \A put \in wire' : put.etag = put.payload.parent
  <2>. DEFINE put == [from |-> d, payload |-> NextPayload(d, pass[d], lastCommit + 1),
                      etag |-> pass[d].etag]
  <2>1. put.etag = put.payload.parent
    BY <1>0, <1>2 DEF Publish, NextPayload
  <2>2. wire' = wire \cup {put}
    BY <1>2 DEF Publish
  <2>3. pass' = [pass EXCEPT ![d] = [pass[d] EXCEPT !.phase = "waiting",
                                                    !.commit = lastCommit + 1]]
    BY <1>2 DEF Publish
  <2>. HIDE DEF put
  <2>. QED  BY <1>0, <2>1, <2>2, <2>3 DEF Pass
<1>3. ASSUME NEW d \in Device,
             StartPass(d) \/ Fetch(d) \/ ReadReply(d) \/ Verify(d) \/ CommitPass(d) \/ Abort(d)
      PROVE  \A e \in Device : Fit(pass'[e])
  <2>0. pass[d] \in Pass
    BY <1>0
  <2>1. CASE Fetch(d)
    <3>1. pass' = [pass EXCEPT ![d] =
                     [pass[d] EXCEPT !.file  = File,
                                     !.etag  = IF StrongETags THEN CommitOf(File) ELSE None,
                                     !.phase = IF StrongETags \/ File = None
                                               THEN "planned" ELSE "fetched"]]
      BY <2>1 DEF Fetch
    <3>2. Fit(pass'[d]) /\ \A e \in Device \ {d} : pass'[e] = pass[e]
      BY <1>0, <2>0, <3>1 DEF Pass
    <3>. QED  BY <1>0, <3>2
  <2>2. CASE ReadReply(d) \/ Verify(d)
    <3>1. PICK q \in Pass : /\ pass' = [pass EXCEPT ![d] = q]
                            /\ q.phase \in {"idle", "started", "verify", "ready"}
      BY <2>2, PassMoves
    <3>. QED  BY <1>0, <3>1
  <2>3. CASE StartPass(d)
    BY <1>0, <2>3 DEF StartPass, Idle
  <2>4. CASE CommitPass(d) \/ Abort(d)
    BY <1>0, <2>4 DEF CommitPass, Abort, Idle
  <2>. QED  BY <1>3, <2>1, <2>2, <2>3, <2>4
<1>4. ASSUME NEW d \in Device,
             StartPass(d) \/ Fetch(d) \/ ReadReply(d) \/ Verify(d) \/ CommitPass(d) \/ Abort(d)
      PROVE  wire' = wire
  BY <1>4 DEF StartPass, Fetch, ReadReply, Verify, CommitPass, Abort
<1>5. ASSUME NEW put \in wire, Serve(put)
      PROVE  wire' \subseteq wire /\ pass' = pass
  BY <1>5 DEF Serve
<1>6. ASSUME NEW d \in Device
      PROVE  ~AskETag(d)
  BY <1>0 DEF AskETag
<1>7. CASE UNCHANGED vars
  BY <1>0, <1>7 DEF vars
<1>. HIDE DEF Fit
<1>. QED
  BY <1>0, <1>1, <1>2, <1>3, <1>4, <1>5, <1>6, <1>7 DEF Next, PassStep

(* What MovesForward says of one device.                                   *)
Forward(versions, x, p, answer, d) ==
  /\ p.file # None => Ahead(versions, x.baseline, p.file)
  /\ answer = "stored" \/ p.phase \in {"verify", "ready"}
       => Ahead(versions, x.baseline, NextPayload(d, p, p.commit))

(* A published version leaves no device ahead of what it was ahead of.     *)
LEMMA ServeForward ==
  ASSUME TypeInv, Provenance, CommitsDiffer, MovesForward, NEW put \in wire, Serve(put)
  PROVE  MovesForward'
<1>0. /\ published \in Seq(Payload) /\ put.payload \in Payload /\ put.from \in Device
      /\ reply \in [Device -> {"stored", "rejected", None}]
      /\ put.etag = CommitOf(File) \/ reply'[put.from] # "stored" \/ reply' = reply
  BY NoVersionAssumption DEF TypeInv, TypeOK, Put, Serve
<1>1. UNCHANGED <<db, pass>>
  BY DEF Serve
<1>2. CASE put.etag # CommitOf(File)
  <2>1. published' = published
    BY <1>2 DEF Serve
  <2>2. \A u \in Device : reply'[u] = "stored" => reply[u] = "stored"
    BY <1>0, <1>2, NoVersionAssumption DEF Serve
  <2>. QED  BY <1>1, <2>1, <2>2 DEF MovesForward
<1>3. CASE put.etag = CommitOf(File)
  <2>1. published' = Append(published, put.payload)
    BY <1>3 DEF Serve
  <2>2. SUFFICES ASSUME NEW u \in Device
                 PROVE  Forward(published', db'[u], pass'[u], reply'[u], u)
    BY DEF MovesForward, Forward
  <2>3. db[u].baseline # None => \E i \in DOMAIN published : published[i] = db[u].baseline
    BY DEF Provenance, ReadIsPublished, IsPublished
  <2>4. \A i \in DOMAIN published : published[i].commit # put.payload.commit
    BY DEF CommitsDiffer
  <2>5. \A payload : Ahead(published, db[u].baseline, payload)
                       => Ahead(published', db[u].baseline, payload)
    BY <1>0, <2>1, <2>3, <2>4, AheadStays
  <2>6. CASE reply'[u] = "stored" /\ reply[u] # "stored"
    <3>1. u = put.from /\ StillWaiting(put)
      BY <1>0, <2>6 DEF Serve
    <3>2. put.payload = NextPayload(u, pass[u], pass[u].commit)
      BY <3>1 DEF Provenance, PutsAreNext, StillWaiting
    <3>3. /\ published' \in Seq(Payload) /\ published' # <<>>
          /\ published'[Len(published')] = put.payload
      BY <1>0, <2>1
    <3>4. Ahead(published', db[u].baseline, put.payload)
      BY <3>3, LastIsAhead
    <3>. QED  BY <1>1, <2>5, <3>2, <3>4 DEF MovesForward, Forward
  <2>7. CASE ~(reply'[u] = "stored" /\ reply[u] # "stored")
    BY <1>1, <2>5, <2>7 DEF MovesForward, Forward
  <2>. QED  BY <2>6, <2>7
<1>. QED
  BY <1>2, <1>3

(* A step that publishes nothing, of a device d whose pass goes on with    *)
(* what it read, or reads the file, or has nothing yet.                    *)
LEMMA PassForward ==
  ASSUME TypeInv, Provenance, MovesForward, NEW d \in Device,
         PassStep(d) \/ Abort(d)
  PROVE  MovesForward'
<1>0. /\ pass \in [Device -> Pass] /\ db \in [Device -> Database]
      /\ reply \in [Device -> {"stored", "rejected", None}]
      /\ published \in Seq(Payload) /\ None # "stored"
  BY NoVersionAssumption DEF TypeInv, TypeOK
<1>1. /\ published' = published
      /\ \A u \in Device \ {d} : db'[u] = db[u] /\ pass'[u] = pass[u] /\ reply'[u] = reply[u]
      /\ reply'[d] = reply[d] \/ reply'[d] = None
  BY <1>0 DEF PassStep, StartPass, Fetch, AskETag, Publish, ReadReply, Verify, CommitPass, Abort
<1>. SUFFICES Forward(published, db'[d], pass'[d], reply'[d], d)
  BY <1>1 DEF MovesForward, Forward
<1>2. CASE CommitPass(d) \/ Abort(d)
  <2>1. pass'[d] = Idle
    BY <1>0, <1>2 DEF CommitPass, Abort
  <2>2. reply'[d] # "stored"
    BY <1>0, <1>1, <1>2 DEF CommitPass, Abort, Provenance, AnswerIsAwaited
  <2>. QED  BY <2>1, <2>2 DEF Forward, Idle
<1>3. CASE StartPass(d)
  <2>1. pass'[d].file = None /\ pass'[d].phase = "started"
    BY <1>0, <1>3 DEF StartPass, Idle
  <2>2. reply'[d] # "stored"
    BY <1>0, <1>3 DEF StartPass, Provenance, AnswerIsAwaited
  <2>. QED  BY <2>1, <2>2 DEF Forward
<1>4. CASE Fetch(d) \/ AskETag(d)
  <2>0. pass[d] \in Pass
    BY <1>0
  <2>1. /\ pass'[d].file \in {File, pass[d].file} /\ pass'[d].phase \in {"planned", "fetched"}
        /\ db' = db
    <3>1. CASE Fetch(d)
      BY <1>0, <2>0, <3>1 DEF Fetch, Pass
    <3>2. CASE AskETag(d)
      BY <1>0, <2>0, <3>2 DEF AskETag, Pass
    <3>. QED  BY <1>4, <3>1, <3>2
  <2>2. reply'[d] # "stored"
    BY <1>0, <1>4 DEF Fetch, AskETag, Provenance, AnswerIsAwaited
  <2>3. File # None => Ahead(published, db[d].baseline, File)
    BY <1>0, LastIsAhead DEF File
  <2>. QED  BY <2>1, <2>2, <2>3 DEF Forward, MovesForward
<1>5. CASE Publish(d)
  <2>0. pass[d] \in Pass
    BY <1>0
  <2>1. /\ pass'[d].phase = "waiting" /\ pass'[d].file = pass[d].file
        /\ db'[d].baseline = db[d].baseline
    BY <1>0, <2>0, <1>5 DEF Publish, Pass, Database
  <2>2. reply'[d] # "stored"
    BY <1>0, <1>5 DEF Publish, Provenance, AnswerIsAwaited
  <2>. QED  BY <2>1, <2>2 DEF Forward, MovesForward
<1>6. CASE ReadReply(d) \/ Verify(d)
  <2>1. PICK q \in Pass :
           /\ pass' = [pass EXCEPT ![d] = q]
           /\ \/ q.file = None /\ q.phase \in {"idle", "started"}
              \/ /\ q.snap = pass[d].snap /\ q.file = pass[d].file /\ q.commit = pass[d].commit
                 /\ q.phase \in {"verify", "ready"}
                 /\ reply[d] = "stored" \/ pass[d].phase = "verify"
    BY <1>6, PassMoves
  <2>2. pass'[d] = q /\ db' = db
    BY <1>0, <1>6, <2>1 DEF ReadReply, Verify
  <2>3. reply'[d] # "stored"
    BY <1>0, <1>6 DEF ReadReply, Verify, Provenance, AnswerIsAwaited
  <2>4. CASE q.file = None /\ q.phase \in {"idle", "started"}
    BY <2>2, <2>3, <2>4 DEF Forward
  <2>5. CASE /\ q.snap = pass[d].snap /\ q.file = pass[d].file /\ q.commit = pass[d].commit
             /\ reply[d] = "stored" \/ pass[d].phase = "verify"
    <3>1. NextPayload(d, q, q.commit) = NextPayload(d, pass[d], pass[d].commit)
      BY <2>5, PayloadOfInputs
    <3>. QED  BY <2>2, <2>3, <2>5, <3>1 DEF Forward, MovesForward
  <2>. QED  BY <2>1, <2>4, <2>5
<1>. QED
  BY <1>2, <1>3, <1>4, <1>5, <1>6 DEF PassStep

(* Local writes leave passes, answers, versions and baselines alone.       *)
LEMMA ForwardInductive ==
  TypeInv /\ Provenance /\ CommitsDiffer /\ MovesForward /\ [Next]_vars => MovesForward'
<1>. SUFFICES ASSUME TypeInv, Provenance, CommitsDiffer, MovesForward, [Next]_vars
              PROVE  MovesForward'
  OBVIOUS
<1>1. ASSUME NEW d \in Device, LocalWrite(d)
      PROVE  MovesForward'
  <2>1. PICK id \in Id : \E e, c : Write(d, id, e, c)
    BY <1>1, LocalWriteIsWrite
  <2>2. /\ UNCHANGED <<pass, reply, published>>
        /\ \A u \in Device : db'[u].baseline = db[u].baseline
    BY <2>1 DEF Write, Written, TypeInv, TypeOK
  <2>. QED  BY <2>2 DEF MovesForward
<1>2. CASE UNCHANGED vars
  BY <1>2 DEF vars, MovesForward
<1>. QED
  BY <1>1, <1>2, PassForward, ServeForward DEF Next

-----------------------------------------------------------------------------
(* The invariant of the refinement holds at first and at every step.       *)
LEMMA ChainInvInit == Init => ChainInv
<1>. SUFFICES ASSUME Init PROVE ChainInv
  OBVIOUS
<1>1. TypeInv
  BY TypeInvInit
<1>2. /\ published = <<>> /\ wire = {} /\ None # "stored"
      /\ \A d \in Device : /\ pass[d].phase = "idle" /\ pass[d].file = None
                           /\ reply[d] = None /\ db[d].baseline = None
  BY NoVersionAssumption DEF Init, Idle, EmptyDb
<1>. QED
  BY <1>1, <1>2 DEF ChainInv, Provenance, PutsAreCounted, PutsAreNext, ReadIsPublished,
                    AnswerIsAwaited, StoredIsPublished, CommitsDiffer, MovesForward, TagIsParent

(* Each part of it is preserved given those before it.                     *)
LEMMA ChainInvInductive == ChainInv /\ [Next]_vars => ChainInv'
BY TypeInvInductive, ProvenanceInductive, CommitsDifferInductive, ForwardInductive,
   TagIsParentInductive DEF ChainInv

(* The PUT of a device is a publication of the abstract chain.             *)
LEMMA ServeRefines ==
  ASSUME ChainInv, StrongETags, NEW put \in wire, Serve(put)
  PROVE  Chain!Publish \/ UNCHANGED Chain!vars
<1>1. published \in Seq(Payload) /\ put.payload \in Payload /\ db' = db
  BY DEF ChainInv, TypeInv, TypeOK, Put, Serve
<1>2. CASE put.etag # CommitOf(File)
  BY <1>1, <1>2 DEF Serve, Chain!vars
<1>3. CASE put.etag = CommitOf(File)
  <2>1. published' = Append(published, put.payload)
    BY <1>3 DEF Serve
  <2>2. /\ Len(published) + 1 \in DOMAIN published'
        /\ published'[Len(published) + 1] = put.payload
    BY <1>1, <2>1
  <2>3. put.payload.parent = Chain!Head0
    <3>1. put.payload.parent = CommitOf(File)
      BY <1>3 DEF ChainInv, TagIsParent
    <3>2. published # <<>> => published[Len(published)] # None
      BY <1>1, NoVersionAssumption
    <3>. QED  BY <3>1, <3>2 DEF File, CommitOf, Chain!Head0
  <2>4. \A j \in DOMAIN published : published[j].commit # put.payload.commit
    BY DEF ChainInv, CommitsDiffer
  <2>. QED  BY <1>1, <2>1, <2>2, <2>3, <2>4 DEF Chain!Publish
<1>. QED
  BY <1>2, <1>3

(* The commit of a pass adopts a version of the abstract chain.            *)
LEMMA CommitRefines ==
  ASSUME ChainInv, NEW d \in Device, CommitPass(d)
  PROVE  Chain!Confirm(d)
<1>. DEFINE p == pass[d]
<1>0. db \in [Device -> Database] /\ published' = published
  BY DEF ChainInv, TypeInv, TypeOK, CommitPass
<1>1. Ahead(published, db[d].baseline, Confirmed(d, p))
  BY DEF ChainInv, MovesForward, CommitPass, Confirmed, MustPublish
<1>2. [u \in Device |-> db'[u].baseline]
        = [[u \in Device |-> db[u].baseline] EXCEPT ![d] = Confirmed(d, p)]
  <2>1. db'[d].baseline = Confirmed(d, p) /\ \A u \in Device \ {d} : db'[u] = db[u]
    BY <1>0 DEF CommitPass, Committed
  <2>. QED  BY <2>1
<1>. QED
  BY <1>0, <1>1, <1>2 DEF Ahead, Chain!Confirm

(* No other step is visible in the chain.                                  *)
LEMMA OthersStutter ==
  ASSUME TypeInv, [Next]_vars, \A d \in Device : ~CommitPass(d),
         \A put \in wire : ~Serve(put)
  PROVE  UNCHANGED Chain!vars
<1>1. published' = published /\ \A u \in Device : db'[u].baseline = db[u].baseline
  <2>1. ASSUME NEW d \in Device, LocalWrite(d)
        PROVE  published' = published /\ \A u \in Device : db'[u].baseline = db[u].baseline
    <3>1. PICK id \in Id : \E e, c : Write(d, id, e, c)
      BY <2>1, LocalWriteIsWrite
    <3>. QED  BY <3>1 DEF Write, Written, TypeInv, TypeOK
  <2>2. ASSUME NEW d \in Device, PassStep(d) \/ Abort(d)
        PROVE  published' = published /\ \A u \in Device : db'[u].baseline = db[u].baseline
    <3>1. CASE StartPass(d) \/ Abort(d)
      BY <3>1 DEF StartPass, Abort
    <3>2. CASE Fetch(d) \/ AskETag(d) \/ Publish(d) \/ ReadReply(d) \/ Verify(d)
      <4>1. published' = published
        BY <3>2 DEF Fetch, AskETag, Publish, ReadReply, Verify
      <4>. QED  BY <3>2, <4>1, PassKeepsSnapshot
    <3>. QED  BY <2>2, <3>1, <3>2 DEF PassStep
  <2>. QED  BY <2>1, <2>2 DEF Next, vars
<1>. QED
  BY <1>1 DEF Chain!vars

(* With strong entity tags the protocol implements the chain of versions:  *)
(* whatever is lost, late or interrupted, no publication overwrites one it *)
(* did not read, and a baseline is always a version, never an older one.   *)
THEOREM ChainImplemented == StrongETags => (Spec => ImplementsCommitChain)
<1>. SUFFICES ASSUME StrongETags PROVE Spec => ImplementsCommitChain
  OBVIOUS
<1>1. Init => Chain!Init
  BY DEF Init, EmptyDb, Chain!Init
<1>2. ChainInv /\ [Next]_vars => [Chain!Next]_(Chain!vars)
  BY ServeRefines, CommitRefines, OthersStutter DEF Chain!Next, ChainInv
<1>. QED
  BY <1>1, <1>2, ChainInvInit, ChainInvInductive, PTL DEF Spec, ImplementsCommitChain, Chain!Spec

(* The same for the file alone: each version names the one it replaced.    *)
LEMMA ParentsInductive ==
  TypeInv /\ TagIsParent /\ StrongETags /\ VersionsFormAChain /\ [Next]_vars => VersionsFormAChain'
<1>. SUFFICES ASSUME TypeInv, TagIsParent, StrongETags, VersionsFormAChain, [Next]_vars
              PROVE  VersionsFormAChain'
  OBVIOUS
<1>1. ASSUME NEW put \in wire, Serve(put)
      PROVE  VersionsFormAChain'
  <2>1. published \in Seq(Payload) /\ put.payload \in Payload
    BY DEF TypeInv, TypeOK, Put
  <2>2. CASE put.etag # CommitOf(File)
    BY <1>1, <2>2 DEF Serve, VersionsFormAChain
  <2>3. CASE put.etag = CommitOf(File)
    <3>1. published' = Append(published, put.payload) /\ put.payload.parent = CommitOf(File)
      BY <1>1, <2>3 DEF Serve, TagIsParent
    <3>2. put.payload.parent = IF Len(published) = 0 THEN None
                               ELSE published[Len(published)].commit
      BY <2>1, <3>1, NoVersionAssumption DEF File, CommitOf
    <3>. QED  BY <2>1, <3>1, <3>2 DEF VersionsFormAChain
  <2>. QED  BY <2>2, <2>3
<1>2. CASE \A put \in wire : ~Serve(put)
  <2>1. CASE \A d \in Device : ~CommitPass(d)
    <3>1. UNCHANGED Chain!vars
      BY <1>2, <2>1, OthersStutter
    <3>. QED  BY <3>1 DEF Chain!vars, VersionsFormAChain
  <2>2. CASE \E d \in Device : CommitPass(d)
    BY <2>2 DEF CommitPass, VersionsFormAChain
  <2>. QED  BY <2>1, <2>2
<1>. QED
  BY <1>1, <1>2

(* What fails without strong tags (a version then may name another parent  *)
(* than the version it replaced) holds with them.                          *)
THEOREM ParentsAreReplaced == StrongETags => (Spec => []VersionsFormAChain)
<1>. SUFFICES ASSUME StrongETags PROVE Spec => []VersionsFormAChain
  OBVIOUS
<1>1. Init => VersionsFormAChain
  BY DEF Init, VersionsFormAChain
<1>2. ChainInv => TypeInv /\ TagIsParent
  BY DEF ChainInv
<1>. QED
  BY <1>1, <1>2, ChainInvInit, ChainInvInductive, ParentsInductive, PTL DEF Spec
-----------------------------------------------------------------------------
(*                     Publications and the publish intent                 *)

(* The staged entries are not ahead of the generation, and there is one    *)
(* for a record that the user wrote over the baseline.                     *)
Accounted(x, id) ==
  /\ x.staging[id] # None => x.staging[id].last <= x.gen
  /\ x.conflicts[id] = None /\ ~IsLocked(x.side[id])
       /\ x.side[id].rec \notin {None, BaselineSide(x)[id].rec}
     => x.staging[id] # None

WritesAreStaged == \A d \in Device, id \in Id : Accounted(db[d], id)

(* A write stages its record, and a commit leaves no record over the       *)
(* baseline but those it reports and the locked ones.                      *)
LEMMA StagedInductive == TypeInv /\ WritesAreStaged /\ [Next]_vars => WritesAreStaged'
<1>. SUFFICES ASSUME TypeInv, WritesAreStaged, [Next]_vars, NEW u \in Device, NEW id \in Id
              PROVE  Accounted(db'[u], id)
  BY DEF WritesAreStaged
<1>0. /\ db \in [Device -> Database] /\ db[u] \in Database /\ db[u].gen \in Nat
      /\ db[u].staging[id] # None => db[u].staging[id].last \in Nat
      /\ Accounted(db[u], id)
  BY DEF TypeInv, TypeOK, Database, Staged, WritesAreStaged
<1>1. CASE LocalWrite(u)
  <2>0. PICK w \in Id : \E e \in Definite :
          \E c \in {db[u].conflicts, [db[u].conflicts EXCEPT ![w] = None]} : Write(u, w, e, c)
    BY <1>1, LocalWriteWrites DEF Writes
  <2>1. PICK e \in Definite, c \in {db[u].conflicts, [db[u].conflicts EXCEPT ![w] = None]} :
          Write(u, w, e, c)
    BY <2>0
  <2>2. db'[u] = Written(db[u], w, e, c)
    BY <1>0, <2>1 DEF Write
  <2>3. /\ db'[u].gen = db[u].gen + 1 /\ db'[u].baseline = db[u].baseline
        /\ db'[u].conflicts = c
        /\ db'[u].side = [db[u].side EXCEPT ![w] = e]
        /\ db'[u].staging = [db[u].staging EXCEPT
                              ![w] = Stage(db[u], w, e.rec # None, db[u].gen + 1)]
    BY <2>2 DEF Written
  <2>4. /\ db[u].side \in [Id -> Entity] /\ db[u].staging \in [Id -> Staged \cup {None}]
        /\ db[u].conflicts \in [Id -> Conflict \cup {None}]
    BY <1>0 DEF Database, Side
  <2>5. CASE w = id
    <3>1. /\ db'[u].side[id] = e
          /\ db'[u].staging[id] = Stage(db[u], id, e.rec # None, db[u].gen + 1)
      BY <2>3, <2>4, <2>5
    <3>2. Stage(db[u], id, e.rec # None, db[u].gen + 1) # None =>
            Stage(db[u], id, e.rec # None, db[u].gen + 1).last = db[u].gen + 1
      BY DEF Stage
    <3>3. e.rec # None => Stage(db[u], id, e.rec # None, db[u].gen + 1).last = db[u].gen + 1
                            /\ Stage(db[u], id, e.rec # None, db[u].gen + 1) # None
      <4>1. ASSUME e.rec # None
            PROVE  Stage(db[u], id, e.rec # None, db[u].gen + 1) \in Staged
        <5>. DEFINE old == db[u].staging[id]
                    based == IF old # None THEN old.based
                             ELSE db[u].baseline # None /\ db[u].baseline.side[id].rec # None
        <5>1. based \in BOOLEAN
          BY <2>4 DEF Staged
        <5>2. Stage(db[u], id, e.rec # None, db[u].gen + 1)
                = [based |-> based, last |-> db[u].gen + 1]
          BY <4>1 DEF Stage
        <5>. HIDE DEF based
        <5>. QED  BY <1>0, <5>1, <5>2 DEF Staged
      <4>. QED  BY <3>2, <4>1, NoEntryAssumption
    <3>. QED  BY <1>0, <2>3, <3>1, <3>2, <3>3 DEF Accounted
  <2>6. CASE w # id
    <3>1. /\ db'[u].side[id] = db[u].side[id] /\ db'[u].staging[id] = db[u].staging[id]
          /\ db'[u].conflicts[id] = db[u].conflicts[id]
      BY <2>1, <2>3, <2>4, <2>6
    <3>. QED  BY <1>0, <2>3, <3>1 DEF Accounted, BaselineSide
  <2>. QED  BY <2>5, <2>6
<1>2. CASE CommitPass(u)
  <2>. DEFINE m == Merged(u, pass[u])[id]
  <2>1. /\ m.conflict = None => m.local = m.remote
        /\ db'[u].conflicts[id] = m.conflict
        /\ db'[u].side[id].rec = IF IsLocked(db[u].side[id]) THEN db[u].side[id].rec
                                 ELSE m.local.rec
        /\ BaselineSide(db'[u])[id] = m.remote
    BY <1>2, CommitOutcome DEF BaselineSide, Faithful
  <2>2. db'[u] = Committed(db[u], Merged(u, pass[u]), Confirmed(u, pass[u]), pass[u].snap.gen)
    BY <1>0, <1>2 DEF CommitPass
  <2>3. /\ db'[u].gen \in {db[u].gen, db[u].gen + 1}
        /\ db'[u].staging[id] \in {None, db[u].staging[id]}
    BY <2>2 DEF Committed, StagedAfter
  <2>. QED  BY <1>0, <2>1, <2>3 DEF Accounted, IsLocked
<1>3. CASE ~LocalWrite(u) /\ ~CommitPass(u)
  BY <1>0, <1>3, OtherStepsKeepDb DEF Accounted, BaselineSide
<1>. QED
  BY <1>1, <1>2, <1>3

(* A pass that has read the cloud found a file if the device has a         *)
(* baseline: the file of the baseline, or a later one.                     *)
FileWasThere ==
  \A d \in Device : pass[d].phase \notin {"idle", "started"} /\ db[d].baseline # None
                      => pass[d].file # None

(* No two versions have one commit id.                                     *)
CommitsAreUnique ==
  \A i, j \in DOMAIN published : published[i].commit = published[j].commit => i = j

(* With strong tags an id that the file mentions stays in the file.        *)
Mentions(old, new) == \A id \in Id : old.side[id] # Absent => new.side[id] # Absent

MentionsStay ==
  StrongETags =>
    /\ \A i, j \in DOMAIN published : i <= j => Mentions(published[i], published[j])
    /\ \A put \in wire : put.payload.parent # None =>
         \E i \in DOMAIN published : /\ published[i].commit = put.payload.parent
                                     /\ Mentions(published[i], put.payload)

MentionInv == ChainInv /\ FileWasThere /\ CommitsAreUnique /\ MentionsStay

(* A device with a baseline finds a file, since nothing deletes it.        *)
LEMMA FileInductive ==
  TypeInv /\ Provenance /\ FileWasThere /\ [Next]_vars => FileWasThere'
<1>. SUFFICES ASSUME TypeInv, Provenance, FileWasThere, [Next]_vars, NEW u \in Device,
                     pass'[u].phase \notin {"idle", "started"}, db'[u].baseline # None
              PROVE  pass'[u].file # None
  BY DEF FileWasThere
<1>0. /\ pass \in [Device -> Pass] /\ db \in [Device -> Database]
      /\ published \in Seq(Payload) /\ pass[u] \in Pass
      /\ pass[u].phase \notin {"idle", "started"} /\ db[u].baseline # None => pass[u].file # None
  BY DEF TypeInv, TypeOK, FileWasThere
<1>1. ASSUME NEW d \in Device, LocalWrite(d)
      PROVE  pass' = pass /\ db'[u].baseline = db[u].baseline
  <2>1. PICK id \in Id : \E e, c : Write(d, id, e, c)
    BY <1>1, LocalWriteIsWrite
  <2>. QED  BY <1>0, <2>1 DEF Write, Written
<1>2. CASE Fetch(u)
  <2>1. File # None
    <3>1. db[u].baseline # None
      BY <1>2 DEF Fetch
    <3>2. published # <<>>
      BY <1>0, <3>1 DEF Provenance, ReadIsPublished, IsPublished
    <3>3. published[Len(published)] \in Payload
      BY <1>0, <3>2
    <3>. QED  BY <3>2, <3>3, NoVersionAssumption DEF File
  <2>. QED  BY <1>0, <1>2, <2>1 DEF Fetch, Pass
<1>3. CASE AskETag(u) \/ Publish(u)
  <2>1. /\ pass[u].phase \in {"fetched", "planned"}
        /\ pass'[u].file = pass[u].file
    BY <1>0, <1>3 DEF AskETag, Publish, Pass
  <2>2. db'[u].baseline = db[u].baseline
    BY <1>3, PassKeepsSnapshot
  <2>. QED  BY <1>0, <2>1, <2>2
<1>4. CASE ReadReply(u) \/ Verify(u)
  <2>1. /\ pass'[u].file = pass[u].file
    BY <1>0, <1>4, PassMoves
  <2>2. db'[u].baseline = db[u].baseline /\ pass[u].phase \in {"waiting", "verify"}
    BY <1>4, PassKeepsSnapshot DEF ReadReply, Verify
  <2>. QED  BY <1>0, <2>1, <2>2
<1>5. CASE StartPass(u) \/ CommitPass(u) \/ Abort(u)
  <2>1. StartPass(u) => pass'[u].phase = "started"
    BY <1>0 DEF StartPass, Idle
  <2>2. CommitPass(u) \/ Abort(u) => pass'[u].phase = "idle"
    BY <1>0 DEF CommitPass, Abort, Idle
  <2>. QED  BY <1>5, <2>1, <2>2
<1>6. ASSUME NEW d \in Device, d # u, PassStep(d) \/ Abort(d)
      PROVE  pass'[u] = pass[u] /\ db'[u].baseline = db[u].baseline
  BY <1>0, <1>6 DEF PassStep, StartPass, Fetch, AskETag, Publish, ReadReply, Verify, CommitPass, Abort
<1>7. ASSUME NEW put \in wire, Serve(put)
      PROVE  UNCHANGED <<pass, db>>
  BY <1>7 DEF Serve
<1>8. CASE UNCHANGED vars
  BY <1>0, <1>8 DEF vars
<1>9. pass'[u] = pass[u] /\ db'[u].baseline = db[u].baseline => pass'[u].file # None
  BY <1>0
<1>. QED
  BY <1>1, <1>2, <1>3, <1>4, <1>5, <1>6, <1>7, <1>8, <1>9 DEF Next, PassStep

(* Only the server publishes, and what it appends has an id of its own.    *)
LEMMA UniqueInductive ==
  TypeInv /\ CommitsDiffer /\ CommitsAreUnique /\ [Next]_vars => CommitsAreUnique'
<1>. SUFFICES ASSUME TypeInv, CommitsDiffer, CommitsAreUnique, [Next]_vars
              PROVE  CommitsAreUnique'
  OBVIOUS
<1>1. ASSUME NEW put \in wire, Serve(put)
      PROVE  CommitsAreUnique'
  <2>1. published \in Seq(Payload) /\ put.payload \in Payload
    BY DEF TypeInv, TypeOK, Put
  <2>2. published' = published \/ published' = Append(published, put.payload)
    BY <1>1 DEF Serve
  <2>3. CASE published' = Append(published, put.payload)
    <3>1. /\ DOMAIN published' = DOMAIN published \cup {Len(published) + 1}
          /\ published'[Len(published) + 1] = put.payload
          /\ \A i \in DOMAIN published : published'[i] = published[i]
      BY <2>1, <2>3
    <3>. QED  BY <3>1 DEF CommitsDiffer, CommitsAreUnique
  <2>. QED  BY <2>2, <2>3 DEF CommitsAreUnique
<1>2. CASE \A put \in wire : ~Serve(put)
  <2>1. published' = published
    <3>1. ASSUME NEW d \in Device, LocalWrite(d)
          PROVE  published' = published
      <4>1. PICK id \in Id : \E e, c : Write(d, id, e, c)
        BY <3>1, LocalWriteIsWrite
      <4>. QED  BY <4>1 DEF Write
    <3>. QED  BY <1>2, <3>1 DEF Next, PassStep, StartPass, Fetch, AskETag, Publish, ReadReply,
                               Verify, CommitPass, Abort, vars
  <2>. QED  BY <2>1 DEF CommitsAreUnique
<1>. QED
  BY <1>1, <1>2

(* What a pass publishes mentions every id that its file mentions.         *)
LEMMA NextMentions ==
  ASSUME NEW d \in Device, NEW p \in Pass, p.snap \in Database, p.file # None, NEW commit
  PROVE  Mentions(p.file, NextPayload(d, p, commit))
<1>. SUFFICES ASSUME NEW id \in Id, p.file.side[id] # Absent
              PROVE  NextPayload(d, p, commit).side[id] # Absent
  BY DEF Mentions
<1>1. /\ BaseSide(d, p)[id] \in Entity /\ p.snap.side[id] \in Entity
      /\ FileSide(p)[id] \in Entity /\ FileSide(p)[id] # Absent
  BY MergedType DEF Database, Side, FileSide
<1>2. NextPayload(d, p, commit).side[id] = Merged(d, p)[id].remote
  BY DEF NextPayload, MergedRemote
<1>. QED
  BY <1>1, <1>2, MentionSurvives DEF Merged

(* With strong tags every version mentions what the one before it does.    *)
LEMMA MentionsInductive ==
  ChainInv /\ CommitsAreUnique /\ MentionsStay /\ [Next]_vars => MentionsStay'
<1>. SUFFICES ASSUME ChainInv, CommitsAreUnique, MentionsStay, [Next]_vars, StrongETags
              PROVE  MentionsStay'
  BY DEF MentionsStay
<1>0. /\ published \in Seq(Payload) /\ wire \subseteq Put
      /\ pass \in [Device -> Pass]
      /\ \A i, j \in DOMAIN published : i <= j => Mentions(published[i], published[j])
      /\ \A put \in wire : put.payload.parent # None =>
           \E i \in DOMAIN published : /\ published[i].commit = put.payload.parent
                                       /\ Mentions(published[i], put.payload)
  BY DEF ChainInv, TypeInv, TypeOK, MentionsStay
<1>1. ASSUME NEW put \in wire, Serve(put)
      PROVE  MentionsStay'
  <2>1. put.payload \in Payload /\ wire' \subseteq wire
    BY <1>0, <1>1 DEF Put, Serve
  <2>2. CASE put.etag # CommitOf(File)
    BY <1>0, <1>1, <2>1, <2>2 DEF Serve, MentionsStay
  <2>3. CASE put.etag = CommitOf(File)
    <3>1. published' = Append(published, put.payload) /\ put.payload.parent = CommitOf(File)
      BY <1>1, <2>3 DEF Serve, ChainInv, TagIsParent
    <3>2. /\ DOMAIN published' = DOMAIN published \cup {Len(published) + 1}
          /\ published'[Len(published) + 1] = put.payload
          /\ \A i \in DOMAIN published : published'[i] = published[i] /\ i <= Len(published)
      BY <1>0, <2>1, <3>1
    <3>3. published # <<>> => /\ Len(published) \in DOMAIN published
                              /\ File = published[Len(published)] /\ File \in Payload
      BY <1>0 DEF File
    <3>4. published # <<>> => Mentions(published[Len(published)], put.payload)
      <4>1. published # <<>> => put.payload.parent = published[Len(published)].commit
                                  /\ put.payload.parent # None
        BY <3>1, <3>3, NoVersionAssumption, NoneAssumption DEF CommitOf, Payload, Commit
      <4>. QED  BY <1>0, <3>3, <4>1 DEF CommitsAreUnique
    <3>5. \A i \in DOMAIN published : Mentions(published[i], put.payload)
      BY <1>0, <3>2, <3>3, <3>4 DEF Mentions
    <3>6. Mentions(put.payload, put.payload)
      BY DEF Mentions
    <3>7. \A i, j \in DOMAIN published' : i <= j => Mentions(published'[i], published'[j])
      <4>. SUFFICES ASSUME NEW i \in DOMAIN published', NEW j \in DOMAIN published', i <= j
                    PROVE  Mentions(published'[i], published'[j])
        OBVIOUS
      <4>1. CASE i \in DOMAIN published
        BY <1>0, <3>2, <3>5, <4>1
      <4>2. CASE i = Len(published) + 1
        BY <1>0, <3>2, <3>6, <4>2
      <4>. QED  BY <3>2, <4>1, <4>2
    <3>8. \A r \in wire' : r.payload.parent # None =>
            \E i \in DOMAIN published' : /\ published'[i].commit = r.payload.parent
                                         /\ Mentions(published'[i], r.payload)
      BY <1>0, <2>1, <3>2
    <3>. QED  BY <3>7, <3>8 DEF MentionsStay
  <2>. QED  BY <2>2, <2>3
<1>2. ASSUME NEW d \in Device, Publish(d)
      PROVE  MentionsStay'
  <2>. DEFINE p == pass[d]
              put == [from |-> d, payload |-> NextPayload(d, p, lastCommit + 1), etag |-> p.etag]
  <2>1. published' = published /\ wire' = wire \cup {put}
    BY <1>2 DEF Publish
  <2>2. put.payload.parent # None =>
          \E i \in DOMAIN published : /\ published[i].commit = put.payload.parent
                                      /\ Mentions(published[i], put.payload)
    <3>1. put.payload.parent = CommitOf(p.file) /\ put.payload = NextPayload(d, p, lastCommit + 1)
      BY DEF NextPayload
    <3>2. p \in Pass /\ p.snap \in Database
      BY <1>0, <1>2 DEF ChainInv, TypeInv, PassComplete, Publish
    <3>3. p.file # None => Mentions(p.file, put.payload)
      BY <3>1, <3>2, NextMentions
    <3>4. p.file # None => IsPublished(p.file)
      BY DEF ChainInv, Provenance, ReadIsPublished
    <3>. HIDE DEF put, p
    <3>. QED  BY <3>1, <3>3, <3>4 DEF CommitOf, IsPublished
  <2>. HIDE DEF put
  <2>. QED  BY <1>0, <2>1, <2>2 DEF MentionsStay
<1>3. CASE UNCHANGED <<wire, published>>
  BY <1>3 DEF MentionsStay
<1>4. ASSUME NEW d \in Device, LocalWrite(d)
      PROVE  UNCHANGED <<wire, published>>
  <2>1. PICK id \in Id : \E e, c : Write(d, id, e, c)
    BY <1>4, LocalWriteIsWrite
  <2>. QED  BY <2>1 DEF Write
<1>. QED
  BY <1>1, <1>2, <1>3, <1>4
     DEF Next, PassStep, StartPass, Fetch, AskETag, ReadReply, Verify, CommitPass, Abort, vars

(* The invariant of the mentions holds at first and at every step.         *)
LEMMA MentionInvInductive ==
  /\ Init => MentionInv
  /\ MentionInv /\ [Next]_vars => MentionInv'
<1>1. Init => FileWasThere /\ CommitsAreUnique /\ MentionsStay
  BY DEF Init, FileWasThere, CommitsAreUnique, MentionsStay, Idle
<1>2. MentionInv /\ [Next]_vars => FileWasThere' /\ CommitsAreUnique' /\ MentionsStay'
  BY FileInductive, UniqueInductive, MentionsInductive DEF MentionInv, ChainInv
<1>. QED
  BY <1>1, <1>2, ChainInvInit, ChainInvInductive DEF MentionInv
(* What IntentCoversPublication says of the records that were not locked   *)
(* when the pass read them.                                                *)
IntentCoversTheUnlocked ==
  \A d \in Device : pass[d].phase = "waiting" =>
     LET p   == pass[d]
         new == NextPayload(d, p, p.commit).side
     IN  \A id \in Id :
           new[id].rec \notin {None, FileSide(p)[id].rec}
             /\ p.snap.conflicts[id] = None /\ ~IsLocked(p.snap.side[id])
           => db[d].intent.included[id] # None

(* A record that a pass adds or changes in the file is staged.             *)
LEMMA PublishIsStaged ==
  ASSUME MentionInv, SnapshotIsCertified, WritesAreStaged, StrongETags,
         NEW d \in Device, Publish(d), NEW id \in Id, NEW commit,
         NextPayload(d, pass[d], commit).side[id].rec
           \notin {None, FileSide(pass[d])[id].rec},
         pass[d].snap.conflicts[id] = None, ~IsLocked(pass[d].snap.side[id])
  PROVE  db[d].staging[id] # None /\ db[d].staging[id].last <= pass[d].snap.gen
<1>. DEFINE p == pass[d]
<1>0. /\ p \in Pass /\ p.snap \in Database /\ p.phase = "planned"
      /\ db[d] \in Database /\ published \in Seq(Payload)
  BY DEF MentionInv, ChainInv, TypeInv, TypeOK, PassComplete, Publish
<1>1. /\ p.snap.side = db[d].side /\ p.snap.conflicts = db[d].conflicts
      /\ p.snap.baseline = db[d].baseline /\ p.snap.gen = db[d].gen
  BY <1>0 DEF Publish, SnapshotIsCertified, Active
<1>2. /\ BaseSide(d, p)[id] \in Entity /\ p.snap.side[id] \in Entity
      /\ FileSide(p)[id] \in Entity
  BY <1>0, MergedType DEF Database, Side
<1>3. FileSide(p)[id] # Absent \/ BaseSide(d, p)[id] = Absent
  <2>1. CASE p.snap.baseline = None
    BY <2>1 DEF BaseSide, FileSide, EmptySide
  <2>2. CASE p.snap.baseline # None
    <3>1. p.file # None
      BY <1>0, <1>1, <2>2 DEF MentionInv, FileWasThere
    <3>2. PICK n \in DOMAIN published :
            /\ published[n] = p.file
            /\ \A m \in DOMAIN published : published[m] = db[d].baseline => m <= n
      BY <3>1 DEF MentionInv, ChainInv, MovesForward, Ahead
    <3>3. PICK m \in DOMAIN published : published[m] = db[d].baseline
      BY <1>1, <2>2 DEF MentionInv, ChainInv, Provenance, ReadIsPublished, IsPublished
    <3>4. Mentions(db[d].baseline, p.file)
      BY <3>2, <3>3 DEF MentionInv, MentionsStay
    <3>. QED  BY <1>1, <2>2, <3>1, <3>4 DEF Mentions, BaseSide, FileSide
  <2>. QED  BY <2>1, <2>2
<1>4. /\ ActiveConflict(d, p, id) = None
      /\ NextPayload(d, p, commit).side[id] = Merged(d, p)[id].remote
      /\ Merged(d, p)[id] = MergeEntity(BaseSide(d, p)[id], p.snap.side[id],
                                        FileSide(p)[id], None, d)
  BY DEF ActiveConflict, NextPayload, MergedRemote, Merged
<1>5. p.snap.side[id].rec \notin {None, BaseSide(d, p)[id].rec}
  BY <1>2, <1>3, <1>4, PublishedIsWritten
<1>6. db[d].side[id].rec \notin {None, BaselineSide(db[d])[id].rec}
  BY <1>1, <1>5 DEF BaselineSide, BaseSide, EmptySide, Absent
<1>. QED
  BY <1>1, <1>6 DEF WritesAreStaged, Accounted

(* The intent is prepared with the publication and kept while it waits.    *)
LEMMA IntentInductive ==
  MentionInv /\ SnapshotIsCertified /\ WritesAreStaged /\ StrongETags
      /\ IntentCoversTheUnlocked /\ [Next]_vars
    => IntentCoversTheUnlocked'
<1>. DEFINE Covered(p, x, u) ==
       LET new == NextPayload(u, p, p.commit).side
       IN  \A id \in Id :
             new[id].rec \notin {None, FileSide(p)[id].rec}
               /\ p.snap.conflicts[id] = None /\ ~IsLocked(p.snap.side[id])
             => x.intent.included[id] # None
<1>. SUFFICES ASSUME MentionInv, SnapshotIsCertified, WritesAreStaged, StrongETags,
                     IntentCoversTheUnlocked, [Next]_vars, NEW u \in Device,
                     pass'[u].phase = "waiting"
              PROVE  Covered(pass'[u], db'[u], u)
  BY DEF IntentCoversTheUnlocked
<1>0. /\ TypeInv /\ pass \in [Device -> Pass] /\ db \in [Device -> Database]
      /\ pass[u].phase = "waiting" => Covered(pass[u], db[u], u)
  BY DEF MentionInv, ChainInv, TypeInv, TypeOK, IntentCoversTheUnlocked
<1>. HIDE DEF Covered
<1>1. ASSUME pass'[u] = pass[u], db'[u].intent = db[u].intent
      PROVE  Covered(pass'[u], db'[u], u)
  BY <1>0, <1>1 DEF Covered
<1>2. ASSUME NEW d \in Device, LocalWrite(d)
      PROVE  pass'[u] = pass[u] /\ db'[u].intent = db[u].intent
  <2>1. PICK id \in Id : \E e, c : Write(d, id, e, c)
    BY <1>2, LocalWriteIsWrite
  <2>. QED  BY <1>0, <2>1 DEF Write, Written
<1>3. ASSUME NEW d \in Device, d # u, PassStep(d) \/ Abort(d)
      PROVE  pass'[u] = pass[u] /\ db'[u].intent = db[u].intent
  BY <1>0, <1>3 DEF PassStep, StartPass, Fetch, AskETag, Publish, ReadReply, Verify, CommitPass, Abort
<1>4. CASE Publish(u)
  <2>. DEFINE p == pass[u]
              q == pass'[u]
  <2>1. /\ p \in Pass /\ db[u] \in Database /\ p.snap \in Database
    BY <1>0, <1>4 DEF TypeInv, PassComplete, Publish
  <2>2. /\ q = [p EXCEPT !.phase = "waiting", !.commit = lastCommit + 1]
        /\ db'[u] = [db[u] EXCEPT !.intent = IntentOf(db[u], p.snap.gen, lastCommit + 1)]
    BY <1>0, <1>4 DEF Publish
  <2>3. /\ q.snap = p.snap /\ q.file = p.file
        /\ db'[u].intent = IntentOf(db[u], p.snap.gen, lastCommit + 1)
    BY <2>1, <2>2 DEF Pass, Database
  <2>4. NextPayload(u, q, q.commit) = NextPayload(u, p, q.commit) /\ FileSide(q) = FileSide(p)
    BY <2>3, PayloadOfInputs DEF FileSide
  <2>5. ASSUME NEW id \in Id,
               NextPayload(u, q, q.commit).side[id].rec \notin {None, FileSide(q)[id].rec},
               q.snap.conflicts[id] = None, ~IsLocked(q.snap.side[id])
        PROVE  db'[u].intent.included[id] # None
    <3>1. db[u].staging[id] # None /\ db[u].staging[id].last <= p.snap.gen
      BY <1>4, <2>3, <2>4, <2>5, PublishIsStaged
    <3>2. db'[u].intent.included[id] = db[u].staging[id].last
      BY <2>3, <3>1 DEF IntentOf
    <3>3. db[u].staging[id].last \in Nat
      BY <2>1, <3>1 DEF Database, Staged
    <3>. QED  BY <3>2, <3>3, NoneAssumption
  <2>. QED  BY <2>5 DEF Covered
<1>5. ASSUME StartPass(u) \/ Fetch(u) \/ AskETag(u) \/ ReadReply(u) \/ Verify(u)
               \/ CommitPass(u) \/ Abort(u)
      PROVE  FALSE
  <2>1. pass[u] \in Pass
    BY <1>0
  <2>2. CASE StartPass(u)
    BY <1>0, <2>2 DEF StartPass, Idle
  <2>3. CASE CommitPass(u) \/ Abort(u)
    BY <1>0, <2>3 DEF CommitPass, Abort, Idle
  <2>4. CASE ReadReply(u) \/ Verify(u)
    BY <1>0, <2>4, PassMoves
  <2>5. CASE Fetch(u)
    BY <1>0, <2>1, <2>5 DEF Fetch, Pass
  <2>6. CASE AskETag(u)
    BY <1>0, <2>1, <2>6 DEF AskETag, Pass
  <2>. QED  BY <1>5, <2>2, <2>3, <2>4, <2>5, <2>6
<1>6. ASSUME NEW put \in wire, Serve(put)
      PROVE  UNCHANGED <<pass, db>>
  BY <1>6 DEF Serve
<1>7. CASE UNCHANGED vars
  BY <1>1, <1>7 DEF vars
<1>. QED
  BY <1>1, <1>2, <1>3, <1>4, <1>5, <1>6, <1>7 DEF Next, PassStep

(* With strong tags a publication is accounted for, record by record, in   *)
(* what the user staged, whatever the user locks: a pass puts nothing of   *)
(* its own making into the cloud (sync_staging.rs, prepare_publish_intent). *)
THEOREM UnlockedAreIntended == StrongETags => (Spec => []IntentCoversTheUnlocked)
<1>. SUFFICES ASSUME StrongETags PROVE Spec => []IntentCoversTheUnlocked
  OBVIOUS
<1>1. Init => SnapshotIsCertified /\ WritesAreStaged /\ IntentCoversTheUnlocked
  BY EmptyTypes DEF Init, SnapshotIsCertified, Active, Idle, WritesAreStaged, Accounted, EmptyDb,
     EmptySide, Absent, BaselineSide, IntentCoversTheUnlocked
<1>2. MentionInv => TypeInv
  BY DEF MentionInv, ChainInv
<1>. QED
  BY <1>1, <1>2, MentionInvInductive, SnapshotInductive, StagedInductive, IntentInductive, PTL
     DEF Spec
(* Users who never lock a record never meet a locked one.                  *)
Unlocked(side) == \A id \in Id : ~IsLocked(side[id])

UnlockedDb(x) ==
  /\ Unlocked(x.side) /\ Unlocked(BaselineSide(x))
  /\ \A id \in Id : x.conflicts[id] # None =>
       \A r \in {x.conflicts[id].local, x.conflicts[id].remote} : r # None => ~r.locked

UnlockedPass(p) == p.phase # "idle" => UnlockedDb(p.snap) /\ Unlocked(FileSide(p))

NothingLocked ==
  /\ \A d \in Device : UnlockedDb(db[d]) /\ UnlockedPass(pass[d])
  /\ \A put \in wire : Unlocked(put.payload.side)
  /\ \A i \in DOMAIN published : Unlocked(published[i].side)

(* The merge of unlocked sides is unlocked.                                *)
LEMMA MergedUnlocked ==
  ASSUME NEW d \in Device, NEW p \in Pass, p.snap \in Database, UnlockedDb(p.snap),
         Unlocked(FileSide(p)), NEW id \in Id
  PROVE  ~IsLocked(Merged(d, p)[id].local) /\ ~IsLocked(Merged(d, p)[id].remote)
<1>1. /\ BaseSide(d, p)[id] \in Entity /\ p.snap.side[id] \in Entity
      /\ FileSide(p)[id] \in Entity
  BY MergedType DEF Database, Side
<1>2. ~IsLocked(BaseSide(d, p)[id]) /\ ~IsLocked(p.snap.side[id]) /\ ~IsLocked(FileSide(p)[id])
  BY DEF UnlockedDb, Unlocked, BaselineSide, BaseSide, FileSide, EmptySide, Absent, IsLocked
<1>. QED
  BY <1>1, <1>2, MergeIsUnlocked DEF Merged

(* Only setting a lock makes one.                                          *)
LEMMA UnlockedInductive ==
  ASSUME ~Locking, TypeInv, NothingLocked, [Next]_vars
  PROVE  NothingLocked'
<1>0. /\ pass \in [Device -> Pass] /\ db \in [Device -> Database]
      /\ published \in Seq(Payload) /\ wire \subseteq Put
      /\ \A d \in Device : UnlockedDb(db[d]) /\ UnlockedPass(pass[d])
      /\ \A put \in wire : Unlocked(put.payload.side)
      /\ \A i \in DOMAIN published : Unlocked(published[i].side)
  BY DEF TypeInv, TypeOK, NothingLocked
<1>1. ASSUME NEW d \in Device, LocalWrite(d)
      PROVE  NothingLocked'
  <2>1. PICK w \in Id, e \in Definite :
          /\ IsLocked(e) => MayBeLocked(d, w)
          /\ \E c \in {db[d].conflicts, [db[d].conflicts EXCEPT ![w] = None]} : Write(d, w, e, c)
    BY <1>1, LocalWriteWrites DEF Writes
  <2>2. PICK c \in {db[d].conflicts, [db[d].conflicts EXCEPT ![w] = None]} : Write(d, w, e, c)
    BY <2>1
  <2>3. ~IsLocked(e)
    BY <1>0, <2>1 DEF MayBeLocked, UnlockedDb, Unlocked
  <2>4. /\ db'[d] = Written(db[d], w, e, c) /\ \A u \in Device \ {d} : db'[u] = db[u]
        /\ UNCHANGED <<pass, wire, published>>
    BY <1>0, <2>2 DEF Write
  <2>5. UnlockedDb(db'[d])
    <3>1. /\ db'[d].side = [db[d].side EXCEPT ![w] = e] /\ db'[d].conflicts = c
          /\ db'[d].baseline = db[d].baseline
      BY <2>4 DEF Written
    <3>2. /\ db[d].side \in [Id -> Entity] /\ db[d].conflicts \in [Id -> Conflict \cup {None}]
      BY <1>0 DEF Database, Side
    <3>3. Unlocked(db'[d].side)
      BY <1>0, <2>3, <3>1, <3>2 DEF UnlockedDb, Unlocked
    <3>4. \A id \in Id : c[id] # None => c[id] = db[d].conflicts[id]
      BY <3>2
    <3>. QED  BY <1>0, <3>1, <3>3, <3>4 DEF UnlockedDb, BaselineSide
  <2>. QED  BY <1>0, <2>4, <2>5 DEF NothingLocked
<1>2. ASSUME NEW d \in Device, StartPass(d)
      PROVE  NothingLocked'
  <2>1. /\ pass' = [pass EXCEPT ![d] = [Idle EXCEPT !.phase = "started", !.snap = db[d]]]
        /\ UNCHANGED <<db, wire, published>>
    BY <1>2 DEF StartPass
  <2>2. UnlockedPass(pass'[d])
    BY <1>0, <2>1 DEF UnlockedPass, Idle, FileSide, Unlocked, EmptySide, Absent, IsLocked
  <2>. QED  BY <1>0, <2>1, <2>2 DEF NothingLocked
<1>3. ASSUME NEW d \in Device, Fetch(d) \/ AskETag(d) \/ Publish(d) \/ ReadReply(d) \/ Verify(d)
      PROVE  \A u \in Device : UnlockedDb(db'[u]) /\ UnlockedPass(pass'[u])
  <2>1. \A u \in Device : UnlockedDb(db'[u])
    BY <1>0, <1>3, PassKeepsSnapshot DEF UnlockedDb, BaselineSide
  <2>2. /\ pass[d].phase # "idle"
        /\ pass'[d].phase # "idle" => pass'[d].snap = pass[d].snap
        /\ \A u \in Device \ {d} : pass'[u] = pass[u]
    BY <1>3, PassKeepsSnapshot
  <2>3. pass'[d].file \in {None, pass[d].file, File}
    <3>1. CASE Fetch(d) \/ AskETag(d) \/ Publish(d)
      <4>1. pass[d] \in Pass
        BY <1>0
      <4>. QED  BY <1>0, <3>1, <4>1 DEF Fetch, AskETag, Publish, Pass
    <3>2. CASE ReadReply(d) \/ Verify(d)
      BY <1>0, <3>2, PassMoves
    <3>. QED  BY <1>3, <3>1, <3>2
  <2>4. Unlocked(FileSide(pass'[d]))
    <3>1. File # None => Unlocked(File.side)
      BY <1>0 DEF File
    <3>. QED  BY <1>0, <2>2, <2>3, <3>1
              DEF UnlockedPass, FileSide, Unlocked, EmptySide, Absent, IsLocked
  <2>. QED  BY <1>0, <2>1, <2>2, <2>4 DEF UnlockedPass
<1>4. ASSUME NEW d \in Device, Publish(d)
      PROVE  (\A put \in wire' : Unlocked(put.payload.side)) /\ published' = published
  <2>. DEFINE put == [from |-> d, payload |-> NextPayload(d, pass[d], lastCommit + 1),
                      etag |-> pass[d].etag]
  <2>1. wire' = wire \cup {put} /\ published' = published
    BY <1>4 DEF Publish
  <2>2. pass[d] \in Pass /\ pass[d].snap \in Database /\ UnlockedPass(pass[d])
          /\ pass[d].phase = "planned"
    BY <1>0, <1>4 DEF TypeInv, PassComplete, Publish
  <2>3. \A id \in Id : put.payload.side[id] = Merged(d, pass[d])[id].remote
    BY DEF NextPayload, MergedRemote
  <2>4. Unlocked(put.payload.side)
    BY <2>2, <2>3, MergedUnlocked DEF UnlockedPass, Unlocked
  <2>. HIDE DEF put
  <2>. QED  BY <1>0, <2>1, <2>4
<1>5. ASSUME NEW d \in Device, Fetch(d) \/ AskETag(d) \/ ReadReply(d) \/ Verify(d)
      PROVE  UNCHANGED <<wire, published>>
  BY <1>5 DEF Fetch, AskETag, ReadReply, Verify
<1>6. ASSUME NEW d \in Device, CommitPass(d)
      PROVE  NothingLocked'
  <2>1. /\ UNCHANGED <<wire, published>> /\ pass'[d].phase = "idle"
        /\ \A u \in Device \ {d} : pass'[u] = pass[u] /\ db'[u] = db[u]
    BY <1>0, <1>6 DEF CommitPass, Idle
  <2>2. pass[d] \in Pass /\ pass[d].snap \in Database /\ UnlockedDb(pass[d].snap)
          /\ Unlocked(FileSide(pass[d]))
    BY <1>0, <1>6 DEF TypeInv, PassComplete, CommitPass, UnlockedPass
  <2>3. ASSUME NEW id \in Id
        PROVE  /\ ~IsLocked(db'[d].side[id]) /\ ~IsLocked(BaselineSide(db'[d])[id])
               /\ db'[d].conflicts[id] # None =>
                    \A r \in {db'[d].conflicts[id].local, db'[d].conflicts[id].remote} :
                      r # None => ~r.locked
    <3>. DEFINE m == Merged(d, pass[d])[id]
    <3>1. ~IsLocked(m.local) /\ ~IsLocked(m.remote) /\ ~IsLocked(db[d].side[id])
      BY <1>0, <2>2, MergedUnlocked DEF UnlockedDb, Unlocked
    <3>2. /\ db'[d].conflicts[id] = m.conflict
          /\ db'[d].side[id].rec = m.local.rec
          /\ BaselineSide(db'[d])[id] = m.remote
          /\ m.conflict # None => m.conflict.local = m.local.rec /\ m.conflict.remote = m.remote.rec
      BY <1>6, <3>1, CommitOutcome DEF BaselineSide, Faithful
    <3>. QED  BY <3>1, <3>2 DEF IsLocked
  <2>4. UnlockedDb(db'[d])
    BY <2>3 DEF UnlockedDb, Unlocked
  <2>. QED  BY <1>0, <2>1, <2>4 DEF NothingLocked, UnlockedPass
<1>7. ASSUME NEW d \in Device, Abort(d)
      PROVE  NothingLocked'
  <2>1. /\ UNCHANGED <<db, wire, published>> /\ pass'[d].phase = "idle"
        /\ \A u \in Device \ {d} : pass'[u] = pass[u]
    BY <1>0, <1>7 DEF Abort, Idle
  <2>. QED  BY <1>0, <2>1 DEF NothingLocked, UnlockedPass
<1>8. ASSUME NEW put \in wire, Serve(put)
      PROVE  NothingLocked'
  <2>1. /\ UNCHANGED <<db, pass>> /\ wire' \subseteq wire /\ put.payload \in Payload
        /\ published' \in {published, Append(published, put.payload)}
    BY <1>0, <1>8 DEF Serve, Put
  <2>2. \A i \in DOMAIN published' :
          \/ i \in DOMAIN published /\ published'[i] = published[i]
          \/ published'[i] = put.payload
    BY <1>0, <2>1
  <2>. QED  BY <1>0, <2>1, <2>2 DEF NothingLocked
<1>9. CASE UNCHANGED vars
  BY <1>9 DEF vars, NothingLocked
<1>. QED
  BY <1>1, <1>2, <1>3, <1>4, <1>5, <1>6, <1>7, <1>8, <1>9 DEF Next, PassStep, NothingLocked

(* Where nobody locks, every record that a publication adds or changes is  *)
(* in its publish intent.  (A run shows how a lock that is taken back      *)
(* breaks it; without strong tags a version may lose an id that a baseline *)
(* has, and putting it back is nobody's write.)                            *)
THEOREM PublicationsAreIntended ==
  StrongETags /\ ~Locking => (Spec => []IntentCoversPublication)
<1>. SUFFICES ASSUME StrongETags, ~Locking PROVE Spec => []IntentCoversPublication
  OBVIOUS
<1>1. Init => NothingLocked
  BY DEF Init, NothingLocked, UnlockedDb, UnlockedPass, Unlocked, IsLocked, BaselineSide, EmptyDb,
         EmptySide, Absent, Idle
<1>2. NothingLocked /\ IntentCoversTheUnlocked => IntentCoversPublication
  BY DEF NothingLocked, UnlockedPass, UnlockedDb, Unlocked, IntentCoversTheUnlocked,
         IntentCoversPublication
<1>3. TypeInv /\ NothingLocked /\ [Next]_vars => NothingLocked'
  BY UnlockedInductive
<1>. QED
  BY <1>1, <1>2, <1>3, TypeCorrect, UnlockedAreIntended, PTL DEF Spec

-----------------------------------------------------------------------------
(***************************************************************************)
(*                             Recovery points                             *)
(*                                                                         *)
(* A copy may be put back in the middle of a pass, so that the generation  *)
(* no longer certifies the snapshot of that pass (SnapshotIsCertified      *)
(* fails, and so do the theorems that rest on it).  What a clean outbox    *)
(* promises does not rest on it, nor does the chain of versions.           *)
(***************************************************************************)
(* The copies are databases, whose baselines the server has stored.        *)
PointsTyped == points \in [Device -> Seq(Database)]

PointsArePublished ==
  \A d \in Device : \A i \in DOMAIN points[d] :
    points[d][i].baseline # None => IsPublished(points[d][i].baseline)

RecoveryInv == TypeInv /\ Provenance /\ PointsTyped /\ PointsArePublished

-----------------------------------------------------------------------------
(* A version that is published stays published.                            *)
LEMMA PublishedStays ==
  ASSUME TypeInv, [Next]_vars, NEW payload, IsPublished(payload)
  PROVE  \E i \in DOMAIN published' : published'[i] = payload
<1>1. ASSUME NEW d \in Device, LocalWrite(d)
      PROVE  published' = published
  <2>1. PICK id \in Id : \E e, c : Write(d, id, e, c)
    BY <1>1, LocalWriteIsWrite
  <2>. QED  BY <2>1 DEF Write
<1>2. ASSUME NEW d \in Device, PassStep(d) \/ Abort(d)
      PROVE  published' = published
  BY <1>2 DEF PassStep, StartPass, Fetch, AskETag, Publish, ReadReply, Verify, CommitPass, Abort
<1>3. ASSUME NEW put \in wire, Serve(put)
      PROVE  \A i \in DOMAIN published : i \in DOMAIN published' /\ published'[i] = published[i]
  BY <1>3, PublishedGrows
<1>4. CASE UNCHANGED vars
  BY <1>4 DEF vars, IsPublished
<1>. QED
  BY <1>1, <1>2, <1>3, <1>4 DEF Next, IsPublished

(* A step is one of the protocol, and at most copies databases, or it puts *)
(* one copy back.                                                          *)
Copies ==
  \E S \in SUBSET Device :
    points' = [d \in Device |-> IF d \in S THEN Saved(d, points[d]) ELSE points[d]]

Restores(d) == \E i \in DOMAIN points[d] : RestorePoint(d, i)

(* Every step is of one of the two kinds.                                  *)
LEMMA StepsOrRestores ==
  ASSUME PointsTyped, [RecoveryNext]_allVars
  PROVE  \/ [Next]_vars /\ Copies
         \/ \E d \in Device : Restores(d)
<1>0. points = [d \in Device |-> points[d]]
  BY DEF PointsTyped
<1>1. ASSUME UNCHANGED points
      PROVE  Copies
  <2>1. points' = [e \in Device |-> IF e \in {} THEN Saved(e, points[e]) ELSE points[e]]
    BY <1>0, <1>1
  <2>2. {} \in SUBSET Device
    OBVIOUS
  <2>. QED  BY <2>1, <2>2, Zenon DEF Copies
<1>2. ASSUME NEW d \in Device, points' = [points EXCEPT ![d] = Saved(d, @)]
      PROVE  Copies
  <2>1. points' = [e \in Device |-> IF e \in {d} THEN Saved(e, points[e]) ELSE points[e]]
    BY <1>0, <1>2
  <2>. QED  BY <2>1 DEF Copies
<1>3. ASSUME NEW d \in Device, CreatePoint(d)
      PROVE  [Next]_vars /\ Copies
  BY <1>2, <1>3 DEF CreatePoint
<1>4. ASSUME NEW d \in Device, CommitWithPoint(d)
      PROVE  [Next]_vars /\ Copies
  <2>1. Next
    BY <1>4 DEF CommitWithPoint, Next, PassStep
  <2>2. points' = points \/ points' = [points EXCEPT ![d] = Saved(d, @)]
    BY <1>4 DEF CommitWithPoint
  <2>. QED  BY <1>1, <1>2, <2>1, <2>2
<1>5. ASSUME NEW d \in Device, UNCHANGED points,
             \/ LocalWrite(d) \/ StartPass(d) \/ Fetch(d) \/ AskETag(d) \/ Publish(d)
             \/ ReadReply(d) \/ Verify(d) \/ Abort(d)
      PROVE  [Next]_vars /\ Copies
  BY <1>1, <1>5 DEF Next, PassStep
<1>6. ASSUME NEW put \in wire, Serve(put), UNCHANGED points
      PROVE  [Next]_vars /\ Copies
  BY <1>1, <1>6 DEF Next
<1>7. CASE UNCHANGED allVars
  BY <1>1, <1>7 DEF allVars
<1>. QED
  BY <1>3, <1>4, <1>5, <1>6, <1>7 DEF RecoveryNext, Restores

(* create_raw and rotate: what a list of copies has after a copy was made. *)
LEMMA SavedIsACopy ==
  ASSUME NEW d \in Device, db[d] \in Database, NEW seq \in Seq(Database)
  PROVE  /\ Saved(d, seq) \in Seq(Database)
         /\ \A j \in DOMAIN Saved(d, seq) :
              \/ Saved(d, seq)[j] = db[d]
              \/ \E i \in DOMAIN seq : Saved(d, seq)[j] = seq[i]
<1>. DEFINE all == Append(seq, db[d])
<1>1. /\ all \in Seq(Database) /\ all # <<>>
      /\ \A j \in DOMAIN all : all[j] = db[d] \/ \E i \in DOMAIN seq : all[j] = seq[i]
  OBVIOUS
<1>. HIDE DEF all
<1>2. /\ Tail(all) \in Seq(Database)
      /\ \A j \in DOMAIN Tail(all) : j + 1 \in DOMAIN all /\ Tail(all)[j] = all[j + 1]
  BY <1>1
<1>3. Saved(d, seq) \in {all, Tail(all)}
  BY DEF Saved, all
<1>. QED
  BY <1>1, <1>2, <1>3

(* Making copies keeps them typed and their baselines published.           *)
LEMMA CopiesKept ==
  ASSUME TypeInv, Provenance, PointsTyped, PointsArePublished, [Next]_vars, Copies
  PROVE  PointsTyped' /\ PointsArePublished'
<1>0. \A d \in Device : db[d] \in Database /\ points[d] \in Seq(Database)
  BY DEF TypeInv, TypeOK, PointsTyped
<1>1. PICK S \in SUBSET Device :
        points' = [d \in Device |-> IF d \in S THEN Saved(d, points[d]) ELSE points[d]]
  BY DEF Copies
<1>2. ASSUME NEW d \in Device
      PROVE  /\ points'[d] \in Seq(Database)
             /\ \A j \in DOMAIN points'[d] :
                  \/ points'[d][j] = db[d]
                  \/ \E i \in DOMAIN points[d] : points'[d][j] = points[d][i]
  <2>1. points'[d] \in {points[d], Saved(d, points[d])}
    BY <1>1
  <2>. QED  BY <1>0, <2>1, SavedIsACopy
<1>3. PointsTyped'
  BY <1>1, <1>2 DEF PointsTyped
<1>4. ASSUME NEW d \in Device, NEW j \in DOMAIN points'[d], points'[d][j].baseline # None
      PROVE  IsPublished(points'[d][j].baseline)
  BY <1>2, <1>4 DEF Provenance, ReadIsPublished, PointsArePublished
<1>5. PointsArePublished'
  BY <1>4, PublishedStays DEF PointsArePublished, IsPublished
<1>. QED
  BY <1>3, <1>5

(* A copy put back: the database is the copy, one generation on and        *)
(* pending; nothing else of the protocol moves.                            *)
LEMMA RestoreKept ==
  ASSUME RecoveryInv, NEW d \in Device, Restores(d)
  PROVE  RecoveryInv' /\ (CleanMeansPublished => CleanMeansPublished')
<1>1. PICK i \in DOMAIN points[d] : RestorePoint(d, i)
  BY DEF Restores
<1>. DEFINE x == Requeued(points[d][i])
<1>2. /\ db \in [Device -> Database] /\ points \in [Device -> Seq(Database)]
      /\ points[d] \in Seq(Database) /\ points[d][i] \in Database
  BY DEF RecoveryInv, TypeInv, TypeOK, PointsTyped
<1>3. x \in Database /\ x.pending /\ x.baseline = points[d][i].baseline
  <2>. DEFINE y == points[d][i]
  <2>1. y \in Database /\ y.gen \in Nat /\ y.gen + 1 \in Nat
    BY <1>2 DEF Database
  <2>2. x = [y EXCEPT !.gen = y.gen + 1, !.pending = TRUE, !.dirty = y.gen + 1]
    BY DEF Requeued
  <2>. HIDE DEF x, y
  <2>3. x \in Database /\ x.pending /\ x.baseline = y.baseline
    BY <2>1, <2>2 DEF Database
  <2>. QED  BY <2>3 DEF y
<1>4. /\ db' = [db EXCEPT ![d] = x] /\ points' = [points EXCEPT ![d] = Saved(d, @)]
      /\ UNCHANGED <<pass, wire, reply, published, lastCommit>>
  BY <1>1 DEF RestorePoint
<1>. HIDE DEF x
<1>5. /\ db' \in [Device -> Database] /\ db'[d] = x
      /\ \A u \in Device \ {d} : db'[u] = db[u]
  BY <1>2, <1>3, <1>4
<1>6. TypeInv'
  BY <1>4, <1>5 DEF RecoveryInv, TypeInv, TypeOK, PassComplete
<1>7. x.baseline # None => IsPublished(x.baseline)
  BY <1>3 DEF RecoveryInv, PointsArePublished
<1>8. Provenance'
  <2>1. ReadIsPublished'
    BY <1>4, <1>5, <1>7 DEF RecoveryInv, Provenance, ReadIsPublished, IsPublished
  <2>2. (PutsAreCounted /\ PutsAreNext /\ AnswerIsAwaited /\ StoredIsPublished)'
    BY <1>4 DEF RecoveryInv, Provenance, PutsAreCounted, PutsAreNext, AnswerIsAwaited,
                StoredIsPublished, IsPublished, StillWaiting
  <2>. QED  BY <2>1, <2>2 DEF Provenance
<1>9. PointsTyped' /\ PointsArePublished'
  <2>1. /\ Saved(d, points[d]) \in Seq(Database)
        /\ \A j \in DOMAIN Saved(d, points[d]) :
             \/ Saved(d, points[d])[j] = db[d]
             \/ \E k \in DOMAIN points[d] : Saved(d, points[d])[j] = points[d][k]
    BY <1>2, SavedIsACopy
  <2>2. PointsTyped'
    BY <1>2, <1>4, <2>1 DEF PointsTyped
  <2>3. /\ points'[d] = Saved(d, points[d])
        /\ \A u \in Device \ {d} : points'[u] = points[u]
    BY <1>2, <1>4
  <2>4. PointsArePublished'
    BY <1>4, <2>1, <2>3 DEF RecoveryInv, Provenance, ReadIsPublished, PointsArePublished,
                            IsPublished
  <2>. QED  BY <2>2, <2>4
<1>10. ASSUME CleanMeansPublished PROVE CleanMeansPublished'
  BY <1>3, <1>4, <1>5, <1>10 DEF CleanMeansPublished, BaselineSide
<1>. QED
  BY <1>6, <1>8, <1>9, <1>10 DEF RecoveryInv

(* The invariant of the protocol with recovery points, and the promise.    *)
LEMMA RecoveryInductive ==
  RecoveryInv /\ CleanMeansPublished /\ [RecoveryNext]_allVars
    => RecoveryInv' /\ CleanMeansPublished'
<1>. SUFFICES ASSUME RecoveryInv, CleanMeansPublished, [RecoveryNext]_allVars
              PROVE  RecoveryInv' /\ CleanMeansPublished'
  OBVIOUS
<1>1. CASE [Next]_vars /\ Copies
  <2>1. TypeInv' /\ Provenance'
    BY <1>1, TypeInvInductive, ProvenanceInductive DEF RecoveryInv
  <2>2. CleanMeansPublished'
    BY <1>1, <2>1, CleanInductive DEF RecoveryInv
  <2>3. PointsTyped' /\ PointsArePublished'
    BY <1>1, CopiesKept DEF RecoveryInv
  <2>. QED  BY <2>1, <2>2, <2>3 DEF RecoveryInv
<1>2. CASE \E d \in Device : Restores(d)
  BY <1>2, RestoreKept
<1>. QED
  BY <1>1, <1>2, StepsOrRestores DEF RecoveryInv

(* It holds at first.                                                      *)
LEMMA RecoveryInvInit == RecoveryInit => RecoveryInv /\ CleanMeansPublished
<1>. SUFFICES ASSUME RecoveryInit PROVE RecoveryInv /\ CleanMeansPublished
  OBVIOUS
<1>1. TypeInv /\ Provenance /\ CleanMeansPublished
  BY TypeInvInit, CleanInit DEF RecoveryInit
<1>2. PointsTyped /\ PointsArePublished
  BY DEF RecoveryInit, PointsTyped, PointsArePublished
<1>. QED
  BY <1>1, <1>2 DEF RecoveryInv

(* Restoring an old database, at any moment and however often, never makes *)
(* a device believe that something is published which is not: a restored   *)
(* library is queued, and the outbox is clean again only after a commit    *)
(* (recovery_points.rs, restore; sync_state.rs, commit).                   *)
THEOREM RestoredIsPublished == RecoverySpec => []CleanMeansPublished
BY RecoveryInvInit, RecoveryInductive, PTL DEF RecoverySpec

(* Nor does it fork the history of the cloud file: with strong entity tags *)
(* each version still names the one it replaced.                           *)
THEOREM RestoredKeepsTheChain == StrongETags => (RecoverySpec => []VersionsFormAChain)
<1>. SUFFICES ASSUME StrongETags PROVE RecoverySpec => []VersionsFormAChain
  OBVIOUS
<1>. DEFINE Inv == RecoveryInv /\ CleanMeansPublished /\ TagIsParent /\ VersionsFormAChain
<1>1. RecoveryInit => Inv
  BY RecoveryInvInit, ChainInvInit DEF RecoveryInit, ChainInv, Init, VersionsFormAChain
<1>2. Inv /\ [RecoveryNext]_allVars => Inv'
  <2>. SUFFICES ASSUME Inv, [RecoveryNext]_allVars PROVE Inv'
    OBVIOUS
  <2>1. RecoveryInv' /\ CleanMeansPublished'
    BY RecoveryInductive
  <2>2. CASE [Next]_vars
    BY <2>1, <2>2, TagIsParentInductive, ParentsInductive DEF RecoveryInv
  <2>3. ASSUME NEW d \in Device, Restores(d)
        PROVE  TagIsParent' /\ VersionsFormAChain'
    BY <2>3 DEF Restores, RestorePoint, TagIsParent, VersionsFormAChain
  <2>. QED  BY <2>1, <2>2, <2>3, StepsOrRestores DEF RecoveryInv
<1>3. Inv => VersionsFormAChain
  OBVIOUS
<1>. HIDE DEF Inv
<1>. QED
  BY <1>1, <1>2, <1>3, PTL DEF RecoverySpec

(* With recovery points too, every reachable state is well typed.          *)
COROLLARY RecoveryTypeCorrect == RecoverySpec => [](TypeOK /\ PointsTyped)
<1>1. RecoveryInv => TypeOK /\ PointsTyped
  BY DEF RecoveryInv, TypeInv
<1>. QED
  BY <1>1, RecoveryInvInit, RecoveryInductive, PTL DEF RecoverySpec
=============================================================================
