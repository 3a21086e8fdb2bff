----------------------------- MODULE WatchSync -----------------------------
(***************************************************************************)
(* The synchronisation protocol of WatchTracker: several devices, each     *)
(* with a SQLite database, share one library through a file on a WebDAV    *)
(* server, records-v3.json, which they replace with conditional PUTs.      *)
(*                                                                         *)
(*   - the local writes of src-tauri/src/db_atomic_*.rs and the conflict   *)
(*     centre's resolve_conflict, each one transaction;                    *)
(*   - the sync pass of syncService.ts: snapshot, GET, merge, publish      *)
(*     intent, conditional PUT, verification, commit.  The user edits the  *)
(*     library between any two of its steps, the other devices run theirs, *)
(*     the network loses requests and answers, the process dies;           *)
(*   - the server, which applies the PUTs it receives one by one.          *)
(*                                                                         *)
(* A device runs one pass at a time (useSyncCoordinator.ts:79-85).  One    *)
(* sync target is active throughout.                                       *)
(***************************************************************************)
EXTENDS SyncMerge, Sequences

CONSTANTS Id,           \* record ids
          Locking,      \* the users lock and unlock records
          StrongETags,  \* the server gives strong entity tags (RFC 9110)
          MaxAttempts,  \* MAX_PRECONDITION_RETRIES, 3 in the code
          MaxGen,       \* bound: no local write at generation MaxGen or above
          MaxCommits    \* bound: no publication once MaxCommits ids are used

ASSUME FlagsAssumption       == StrongETags \in BOOLEAN /\ Locking \in BOOLEAN
ASSUME MaxAttemptsAssumption == MaxAttempts \in Nat \ {0}
ASSUME BoundsAssumption      == MaxGen \in Nat /\ MaxCommits \in Nat

VARIABLES
  db,         \* db[d]: the part of device d's database that sync relies on
  pass,       \* pass[d]: the sync pass device d is running, or Idle
  wire,       \* PUT requests the server has not handled yet
  reply,      \* reply[d]: answer to d's PUT that d has not read yet, or None
  published,  \* every version of records-v3.json, oldest first
  lastCommit  \* number of commit ids handed out (they are UUIDs in the code)

vars == <<db, pass, wire, reply, published, lastCommit>>

Commit  == Nat \ {0}
Side    == [Id -> Entity]
Payload == [side     : Side,
            revision : Nat,
            commit   : Commit,
            parent   : Commit \cup {None},
            writer   : Device]

(* None stands for no version and for no answer.                           *)
ASSUME NoVersionAssumption == None \notin Payload /\ None \notin {"stored", "rejected"}

(* A staged entry, without the value: it only matters whether the baseline *)
(* had the record and at which generation the record was last written.     *)
Staged == [based : BOOLEAN, last : Nat]
ASSUME NoEntryAssumption == None \notin Staged

Intent == [commit : Commit, included : [Id -> Nat \cup {None}]]

Database ==
  [side      : Side,                          \* records and sync_tombstones
   gen       : Nat,                           \* records_generation
   pending   : BOOLEAN,                       \* outbox_v1.pending
   dirty     : Nat,                           \* outbox_v1.dirtyGeneration
   staging   : [Id -> Staged \cup {None}],    \* staging_v1
   intent    : Intent \cup {None},            \* publish_intent_v1
   baseline  : Payload \cup {None},           \* baseline_v3
   conflicts : [Id -> Conflict \cup {None}]]  \* conflicts_v3

Phase == {"idle",     \* no pass
          "started",  \* snapshot taken, about to GET
          "fetched",  \* body read, its entity tag still to be asked for
          "planned",  \* body and entity tag known
          "waiting",  \* PUT sent
          "verify",   \* PUT succeeded, without a strong entity tag
          "ready"}    \* the published version is known to be on the server

Pass == [phase   : Phase,
         snap    : Database \cup {None},   \* get_sync_snapshot
         file    : Payload \cup {None},    \* the version read, None for 404
         etag    : Commit \cup {None},     \* the version the PUT is conditional on
         commit  : Commit \cup {None},     \* the id of the version it publishes
         attempt : 0 .. MaxAttempts]

Idle == [phase |-> "idle", snap |-> None, file |-> None, etag |-> None,
         commit |-> None, attempt |-> 0]

(* A PUT: If-Match or the DAV If header names a version, If-None-Match: *  *)
(* (etag = None) asks for no version at all.                               *)
Put == [from : Device, payload : Payload, etag : Commit \cup {None}]

EmptySide  == [id \in Id |-> Absent]
EmptyDb == [side |-> EmptySide, gen |-> 0, pending |-> FALSE, dirty |-> 0,
            staging |-> [id \in Id |-> None], intent |-> None, baseline |-> None,
            conflicts |-> [id \in Id |-> None]]

(* records-v3.json, and the version its entity tag stands for.             *)
File == IF published = <<>> THEN None ELSE published[Len(published)]
CommitOf(payload) == IF payload = None THEN None ELSE payload.commit

Init ==
  /\ db = [d \in Device |-> EmptyDb]
  /\ pass = [d \in Device |-> Idle]
  /\ wire = {}
  /\ reply = [d \in Device |-> None]
  /\ published = <<>>
  /\ lastCommit = 0

-----------------------------------------------------------------------------
(*                              Local writes                               *)

(* stage_value: an entry keeps the base it was created with; a record that *)
(* neither the base nor the library has needs no entry.                    *)
Stage(x, id, present, gen) ==
  LET old   == x.staging[id]
      based == IF old # None THEN old.based
               ELSE x.baseline # None /\ x.baseline.side[id].rec # None
  IN  IF ~based /\ ~present THEN None ELSE [based |-> based, last |-> gen]

(* Deviation: the transaction forgets mark_local_records_mutated.          *)
WrittenUnmarked(x, id, entity, conflicts) ==
  [x EXCEPT !.side[id] = entity, !.conflicts = conflicts]

(* The transaction every local write of one record ends in: the entry of   *)
(* the id, mark_local_records_mutated, and the staged entry.               *)
Written(x, id, entity, conflicts) ==
  [side      |-> [x.side EXCEPT ![id] = entity],
   gen       |-> x.gen + 1,
   pending   |-> TRUE,
   dirty     |-> x.gen + 1,
   staging   |-> [x.staging EXCEPT ![id] = Stage(x, id, entity.rec # None, x.gen + 1)],
   intent    |-> x.intent,
   baseline  |-> x.baseline,
   conflicts |-> conflicts]

Write(d, id, entity, conflicts) ==
  /\ db[d].gen < MaxGen
  /\ db' = [db EXCEPT ![d] = Written(db[d], id, entity, conflicts)]
  /\ UNCHANGED <<pass, wire, reply, published, lastCommit>>

(* insert_record_atomic is an upsert: it restarts at the revision of the   *)
(* row it replaces and drops the tombstone.                                *)
InsertRecord(d, id, f) ==
  LET r == [f |-> f, locked |-> FALSE, rev |-> RevOf(db[d].side[id].rec) + 1, actor |-> d]
  IN  Write(d, id, RecordEntity(r), db[d].conflicts)

UpdateRecord(d, id, f, locked) ==
  LET r == [f |-> f, locked |-> locked, rev |-> db[d].side[id].rec.rev + 1, actor |-> d]
  IN  /\ db[d].side[id].rec # None
      /\ Write(d, id, RecordEntity(r), db[d].conflicts)

(* The two updates the user interface issues: one field, or the lock.      *)
EditField(d, id, x, v) ==
  LET r == db[d].side[id].rec
  IN  /\ r # None
      /\ r.f[x] # v
      /\ UpdateRecord(d, id, [r.f EXCEPT ![x] = v], r.locked)

ToggleLock(d, id) ==
  LET r == db[d].side[id].rec
  IN  /\ Locking
      /\ r # None
      /\ UpdateRecord(d, id, r.f, ~r.locked)

DeleteRecord(d, id) ==
  LET t == [rev |-> db[d].side[id].rec.rev + 1, actor |-> d]
  IN  /\ db[d].side[id].rec # None
      /\ Write(d, id, TombEntity(t), db[d].conflicts)

(* The conflict centre: the versions offered are those stored with the     *)
(* conflict, and the choice is written as it is, at its old revision.      *)
Resolution == {"local", "remote", "keep", "delete"}

(* Deviation: "keep" stores the conflict in place of a record.             *)
ChosenWhole(c, resolution) == IF resolution = "keep" THEN c ELSE c.local

Chosen(c, resolution) ==
  CASE resolution = "local"  -> c.local
    [] resolution = "remote" -> c.remote
    [] resolution = "keep"   -> IF c.local # None THEN c.local ELSE c.remote
    [] resolution = "delete" -> None

ResolveConflict(d, id, resolution) ==
  LET r == Chosen(db[d].conflicts[id], resolution)
      e == IF r # None THEN RecordEntity(r) ELSE TombEntity([rev |-> 0, actor |-> d])
  IN  /\ db[d].conflicts[id] # None
      /\ Write(d, id, e, [db[d].conflicts EXCEPT ![id] = None])

-----------------------------------------------------------------------------
(*                       What a pass computes                              *)

FileSide(p) == IF p.file = None THEN EmptySide ELSE p.file.side

(* Without a baseline the file itself is the base when this device wrote   *)
(* it: its publish intent says so, or the file's writer.                   *)
BaseSide(d, p) ==
  IF p.snap.baseline # None THEN p.snap.baseline.side
  ELSE IF /\ p.file # None
          /\ \/ p.snap.intent # None /\ p.snap.intent.commit = p.file.commit
             \/ p.file.writer = d
  THEN p.file.side
  ELSE EmptySide

(* activeConflicts: a stored conflict without a base is dropped when it is *)
(* with an older revision of this device's own record.                     *)
ActiveConflict(d, p, id) ==
  LET c == p.snap.conflicts[id]
      own == /\ ~c.based /\ p.file # None /\ p.file.writer = d
             /\ c.local # None /\ c.remote # None
             /\ c.local.actor = d /\ c.local.rev > c.remote.rev
             /\ p.file.side[id].rec = c.remote
  IN  IF c = None THEN None ELSE IF own THEN None ELSE c

Merged(d, p) ==
  [id \in Id |-> MergeEntity(BaseSide(d, p)[id], p.snap.side[id], FileSide(p)[id],
                             ActiveConflict(d, p, id), d)]

MergedRemote(d, p) == [id \in Id |-> Merged(d, p)[id].remote]

(* Deviation: only a missing file is written.                              *)
MustPublishOnce(d, p) == p.file = None

(* "creating || remoteChanged": the file lacks something the merge has.    *)
MustPublish(d, p) == p.file # None => MergedRemote(d, p) # p.file.side

(* buildSyncPayload                                                        *)
NextPayload(d, p, commit) ==
  [side     |-> MergedRemote(d, p),
   revision |-> IF p.file = None THEN 1 ELSE p.file.revision + 1,
   commit   |-> commit,
   parent   |-> CommitOf(p.file),
   writer   |-> d]

(* Deviation: off by one, the latest write is not in the intent.           *)
IntentOfEarlier(x, gen, commit) ==
  [commit   |-> commit,
   included |-> [id \in Id |-> IF x.staging[id] # None /\ x.staging[id].last < gen
                               THEN x.staging[id].last ELSE None]]

(* prepare_publish_intent, given that the generation is still the snapshot's *)
IntentOf(x, gen, commit) ==
  [commit   |-> commit,
   included |-> [id \in Id |-> IF x.staging[id] # None /\ x.staging[id].last <= gen
                               THEN x.staging[id].last ELSE None]]

(* finish_publish: what stays staged after a commit of version "commit".   *)
StagedAfter(x, commit, gen) ==
  [id \in Id |->
     LET s    == x.staging[id]
         mine == x.intent # None /\ x.intent.commit = commit
         upTo == IF mine THEN x.intent.included[id] ELSE gen
     IN  IF s # None /\ upTo # None /\ s.last <= upTo THEN None ELSE s]

(* sync_state::commit of the merge, confirmed is the new baseline.  Locked *)
(* records are passed over, the tombstones are replaced as a whole; the    *)
(* generation moves only if records or tombstones did.                     *)
CommittedSide(x, merged) ==
  [id \in Id |-> [rec  |-> IF IsLocked(x.side[id]) THEN x.side[id].rec ELSE merged[id].local.rec,
                  tomb |-> merged[id].local.tomb]]

Committed(x, merged, confirmed, expected) ==
  LET side == CommittedSide(x, merged)
      gen  == IF side # x.side THEN x.gen + 1 ELSE x.gen
  IN  [side      |-> side,
       gen       |-> gen,
       pending   |-> x.pending /\ x.dirty > expected,
       dirty     |-> gen,
       staging   |-> StagedAfter(x, confirmed.commit, expected),
       intent    |-> None,
       baseline  |-> confirmed,
       conflicts |-> [id \in Id |-> merged[id].conflict]]

-----------------------------------------------------------------------------
(*                            The sync pass                                *)

StartPass(d) ==
  /\ pass[d].phase = "idle"
  /\ pass' = [pass EXCEPT ![d] = [Idle EXCEPT !.phase = "started", !.snap = db[d]]]
  /\ UNCHANGED <<db, wire, reply, published, lastCommit>>

(* GET records-v3.json.  A strong tag comes with the body.                 *)
Fetch(d) ==
  /\ pass[d].phase = "started"
  /\ pass' = [pass EXCEPT ![d] =
               [@ EXCEPT !.file  = File,
                         !.etag  = IF StrongETags THEN CommitOf(File) ELSE None,
                         !.phase = IF StrongETags \/ File = None THEN "planned" ELSE "fetched"]]
  /\ UNCHANGED <<db, wire, reply, published, lastCommit>>

(* conditionalValidatorForResource without a strong tag: a PROPFIND of its *)
(* own asks for the entity tag, of the file as it is by then.              *)
AskETag(d) ==
  /\ pass[d].phase = "fetched"
  /\ pass' = [pass EXCEPT ![d] = [@ EXCEPT !.etag = CommitOf(File), !.phase = "planned"]]
  /\ UNCHANGED <<db, wire, reply, published, lastCommit>>

(* Deviation: the tag is that of the file by now, not of the version read. *)
PublishFreshTag(d) ==
  LET p == pass[d]
      commit == lastCommit + 1
      put == [from |-> d, payload |-> NextPayload(d, p, commit), etag |-> CommitOf(File)]
  IN  /\ p.phase = "planned"
      /\ MustPublish(d, p)
      /\ db[d].gen = p.snap.gen
      /\ lastCommit < MaxCommits
      /\ db' = [db EXCEPT ![d] = [@ EXCEPT !.intent = IntentOf(db[d], p.snap.gen, commit)]]
      /\ pass' = [pass EXCEPT ![d] = [@ EXCEPT !.phase = "waiting", !.commit = commit]]
      /\ wire' = wire \cup {put}
      /\ lastCommit' = commit
      /\ UNCHANGED <<reply, published>>

(* The merge, the publish intent and the PUT.                              *)
Publish(d) ==
  LET p == pass[d]
      commit == lastCommit + 1
      put == [from |-> d, payload |-> NextPayload(d, p, commit), etag |-> p.etag]
  IN  /\ p.phase = "planned"
      /\ MustPublish(d, p)
      /\ db[d].gen = p.snap.gen
      /\ lastCommit < MaxCommits
      /\ db' = [db EXCEPT ![d] = [@ EXCEPT !.intent = IntentOf(db[d], p.snap.gen, commit)]]
      /\ pass' = [pass EXCEPT ![d] = [@ EXCEPT !.phase = "waiting", !.commit = commit]]
      /\ wire' = wire \cup {put}
      /\ lastCommit' = commit
      /\ UNCHANGED <<reply, published>>

(* 412, or another version found by the verification: read again.  The     *)
(* snapshot is kept.  After the last attempt the pass ends "remote_busy".  *)
NextAttempt(p) ==
  IF p.attempt + 1 < MaxAttempts
  THEN [Idle EXCEPT !.phase = "started", !.snap = p.snap, !.attempt = p.attempt + 1]
  ELSE Idle

ReadReply(d) ==
  /\ pass[d].phase = "waiting"
  /\ reply[d] # None
  /\ reply' = [reply EXCEPT ![d] = None]
  /\ \/ /\ reply[d] = "rejected"
        /\ pass' = [pass EXCEPT ![d] = NextAttempt(@)]
     \/ /\ reply[d] = "stored"
        /\ StrongETags
        /\ pass' = [pass EXCEPT ![d] = [@ EXCEPT !.phase = "ready"]]
     \/ /\ reply[d] = "stored"      \* no strong tag in the answer to the PUT
        /\ pass' = [pass EXCEPT ![d] = [@ EXCEPT !.phase = "verify"]]
  /\ UNCHANGED <<db, wire, published, lastCommit>>

Verify(d) ==
  /\ pass[d].phase = "verify"
  /\ pass' = [pass EXCEPT ![d] = IF CommitOf(File) = @.commit THEN [@ EXCEPT !.phase = "ready"]
                                 ELSE NextAttempt(@)]
  /\ UNCHANGED <<db, wire, reply, published, lastCommit>>

Confirmed(d, p) == IF p.phase = "ready" THEN NextPayload(d, p, p.commit) ELSE p.file

CommitPass(d) ==
  LET p == pass[d]
  IN  /\ p.phase = "ready" \/ (p.phase = "planned" /\ ~MustPublish(d, p))
      /\ db[d].gen = p.snap.gen
      /\ db' = [db EXCEPT ![d] = Committed(@, Merged(d, p), Confirmed(d, p), p.snap.gen)]
      /\ pass' = [pass EXCEPT ![d] = Idle]
      /\ UNCHANGED <<wire, reply, published, lastCommit>>

(* The pass ends without a commit: a request fails or times out, its       *)
(* answer is lost, the generation moved ("stale_local_snapshot"), or the   *)
(* process dies.  The database keeps what was committed to it.             *)
Abort(d) ==
  /\ pass[d].phase # "idle"
  /\ pass' = [pass EXCEPT ![d] = Idle]
  /\ reply' = [reply EXCEPT ![d] = None]
  /\ UNCHANGED <<db, wire, published, lastCommit>>

-----------------------------------------------------------------------------
(*                              The server                                 *)

StillWaiting(put) == /\ pass[put.from].phase = "waiting"
                     /\ pass[put.from].commit = put.payload.commit

(* The server handles a PUT, at once or long after the client gave up.     *)
Serve(put) ==
  /\ put \in wire
  /\ wire' = wire \ {put}
  /\ LET holds == put.etag = CommitOf(File)
     IN  /\ published' = IF holds THEN Append(published, put.payload) ELSE published
         /\ reply' = [reply EXCEPT ![put.from] =
                        IF ~StillWaiting(put) THEN @
                        ELSE IF holds THEN "stored" ELSE "rejected"]
  /\ UNCHANGED <<db, pass, lastCommit>>

-----------------------------------------------------------------------------
(* What the user does to the library.  A record is only inserted under an  *)
(* id that no record of the library has: the interface draws new ids.      *)
LocalWrite(d) ==
  \E id \in Id :
    \/ \E f \in [Field -> Value] : db[d].side[id].rec = None /\ InsertRecord(d, id, f)
    \/ \E x \in Field, v \in Value : EditField(d, id, x, v)
    \/ ToggleLock(d, id)
    \/ DeleteRecord(d, id)
    \/ \E resolution \in Resolution : ResolveConflict(d, id, resolution)

PassStep(d) ==
  \/ StartPass(d) \/ Fetch(d) \/ AskETag(d) \/ Publish(d)
  \/ ReadReply(d) \/ Verify(d) \/ CommitPass(d)

Next ==
  \/ \E d \in Device : LocalWrite(d) \/ PassStep(d) \/ Abort(d)
  \/ \E put \in wire : Serve(put)

Spec == Init /\ [][Next]_vars

-----------------------------------------------------------------------------
(*                              Properties                                 *)

TypeOK ==
  /\ db \in [Device -> Database]
  /\ pass \in [Device -> Pass]
  /\ wire \subseteq Put
  /\ reply \in [Device -> {"stored", "rejected", None}]
  /\ published \in Seq(Payload)
  /\ lastCommit \in Nat

Active(d) == pass[d].phase # "idle"

(* The generation certifies the snapshot: as long as it has not moved, the *)
(* library, the stored conflicts and the baseline are those the running    *)
(* pass read, so that committing its merge overwrites nothing it did not   *)
(* see (PROJECT_PLAN.md:159, expectedGeneration).                          *)
SnapshotIsCertified ==
  \A d \in Device : Active(d) =>
     /\ pass[d].snap.gen <= db[d].gen
     /\ pass[d].snap.gen = db[d].gen =>
          /\ pass[d].snap.side = db[d].side
          /\ pass[d].snap.conflicts = db[d].conflicts
          /\ pass[d].snap.baseline = db[d].baseline

BaselineSide(x) == IF x.baseline = None THEN EmptySide ELSE x.baseline.side

(* An outbox that is not pending promises that nothing is left to publish: *)
(* the device's library is, record by record, a version that the server    *)
(* has stored, but for the records the user has locked and those in the    *)
(* conflict centre (sync_staging.rs:518-554, db_atomic_helpers.rs:137-153).*)
CleanMeansPublished ==
  \A d \in Device : ~db[d].pending =>
     /\ db[d].baseline # None => \E i \in DOMAIN published : published[i] = db[d].baseline
     /\ \A id \in Id : \/ db[d].conflicts[id] # None
                       \/ IsLocked(db[d].side[id])
                       \/ db[d].side[id] = BaselineSide(db[d])[id]

(* The conflict centre of a device with nothing to publish shows the       *)
(* versions as they are: its own record and the one of the cloud file.     *)
ConflictShowsBothSides ==
  \A d \in Device, id \in Id :
     ~db[d].pending /\ db[d].conflicts[id] # None =>
       /\ db[d].conflicts[id].local  = db[d].side[id].rec
       /\ db[d].conflicts[id].remote = BaselineSide(db[d])[id].rec

(* A publication never touches what the user of the device did not write:  *)
(* every record that the new version adds or changes over the one it       *)
(* replaces is staged, and the publish intent accounts for it, unless the  *)
(* record was in the conflict centre and ActiveConflict dropped it.        *)
IntentCoversPublication ==
  \A d \in Device : pass[d].phase = "waiting" =>
     LET p   == pass[d]
         new == NextPayload(d, p, p.commit).side
     IN  \A id \in Id : new[id].rec \notin {None, FileSide(p)[id].rec} /\ p.snap.conflicts[id] = None
                          => db[d].intent.included[id] # None

(* No write of the user is lost in a commit: what the library has over the *)
(* baseline when the merge is committed is still there afterwards, field   *)
(* by field, unless a conflict is recorded; a deletion stays a deletion.   *)
Keeps(base, old, new) ==
  IF old.rec = None THEN new.rec = None
  ELSE /\ new.rec # None
       /\ \A x \in Field : (base.rec = None \/ old.rec.f[x] # base.rec.f[x])
                              => new.rec.f[x] = old.rec.f[x]
NoWriteLost ==
  [][\A d \in Device, id \in Id :
       ( /\ db'[d].baseline # db[d].baseline
         /\ db[d].side[id] # BaselineSide(db[d])[id]
         /\ db'[d].conflicts[id] = None )
       => Keeps(BaselineSide(db[d])[id], db[d].side[id], db'[d].side[id])]_vars

(* A device comes into conflict with others, never with itself: while it   *)
(* is the only one that published, its conflict centre is empty.           *)
ConflictNeedsTwo ==
  \A d \in Device, id \in Id :
     db[d].conflicts[id] # None => \E i \in DOMAIN published : published[i].writer # d

(* A locked record that is not the cloud file's is in the conflict centre, *)
(* unless it is still to be published: PROJECT_PLAN.md:656 has a remote    *)
(* update of a locked record keep the local one "and prompt".              *)
LockedUpdateIsReported ==
  \A d \in Device, id \in Id :
     ( /\ ~db[d].pending
       /\ IsLocked(db[d].side[id])
       /\ db[d].conflicts[id] = None )
     => LET there == BaselineSide(db[d])[id].rec
        IN  there # None /\ SameBusiness(there, db[d].side[id].rec)

(* A record whose two versions are in the conflict centre is frozen         *)
(* (PROJECT_PLAN.md:322), so that choosing this device's version leaves    *)
(* the library's record as it is.                                          *)
ChoosingOwnChangesNothing ==
  [][\A d \in Device, id \in Id :
       LET c == db[d].conflicts[id]
       IN  c # None /\ ResolveConflict(d, id, "local") /\ c.local # None /\ c.remote # None
             => db'[d].side[id].rec = db[d].side[id].rec]_vars

(* Each version of the file was derived from the version it replaced.      *)
VersionsFormAChain ==
  \A i \in DOMAIN published :
     published[i].parent = IF i = 1 THEN None ELSE published[i - 1].commit

(* The protocol implements the abstract chain of versions.                 *)
Chain == INSTANCE CommitChain WITH chain <- published,
                                   seen  <- [d \in Device |-> db[d].baseline]
ImplementsCommitChain == Chain!Spec
=============================================================================
