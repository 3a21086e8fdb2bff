---------------------------- MODULE LegacyImport ---------------------------
(* The two imports from the cloud: the differences of the old records.json  *)
(* taken into the conflict centre, and the cloud file put in place of the   *)
(* library; beside the passes of one device and the publications of         *)
(* another.  A pass is one step here; WatchSync has its steps.              *)
EXTENDS SyncMerge, FiniteSets

CONSTANTS Id, Me, Other,
          MaxRevision,  \* bound on revisions
          MaxGen,       \* bound: what the user changes or decides comes below this generation
          InStepOnly    \* whether the import is started only right after a pass

LegacyImportAssumption ==
  /\ {Me, Other} \subseteq Device /\ Me # Other /\ MaxRevision \in Nat /\ MaxGen \in Nat /\ InStepOnly \in BOOLEAN
  /\ Value # {}

VARIABLES
  lib,        \* records and tombstones of this device
  gen,        \* recordsGeneration
  baseline, conflicts,
  cloud,      \* records-v3.json
  legacy,     \* records.json
  import,     \* the import under way: its snapshot's generation and records, and v3
  edited,     \* ids this user has changed, or decided on, and not published
  deleted,    \* ids whose deletion this user asked for
  offered,    \* the version of records.json an import put into an open conflict
  copy        \* the records of the cloud file, downloaded to replace the library

vars == <<lib, gen, baseline, conflicts, cloud, legacy, import, edited, deleted, offered, copy>>

Side == [Id -> Entity]
TypeOK ==
  /\ {lib, baseline, cloud, legacy} \subseteq Side /\ gen \in Nat
  /\ conflicts \in [Id -> Conflict \cup {None}] /\ edited \subseteq Id /\ deleted \subseteq Id
  /\ \A i \in Id : conflicts[i] = None => offered[i] = None
  /\ copy = None \/ copy \in Side

First(by) == RecordEntity([f |-> [x \in Field |-> CHOOSE v \in Value : TRUE], locked |-> FALSE, rev |-> 1, actor |-> by])

Init ==
  /\ lib = [i \in Id |-> First(Me)] /\ cloud = lib /\ baseline = lib
  /\ legacy \in {lib, [i \in Id |-> Absent]}
  /\ deleted = {} /\ copy = None
  /\ conflicts = [i \in Id |-> None] /\ offered = [i \in Id |-> None]
  /\ gen = 0 /\ import = None /\ edited = {}

\* Another value for a field, a deletion, or a creation, at the next revision.
Changed(e, by) ==
  LET r == e.rec IN
  IF r = None THEN {RecordEntity([First(by).rec EXCEPT !.rev = RevOf(e.tomb) + 1])}
  ELSE {RecordEntity([r EXCEPT !.f[p[1]] = p[2], !.rev = @ + 1, !.actor = by]) :
          p \in {q \in Field \X Value : r.f[q[1]] # q[2]}}
         \cup {TombEntity([rev |-> r.rev + 1, actor |-> by])}
Locked(e) == IF e.rec = None THEN {} ELSE {RecordEntity([e.rec EXCEPT !.locked = ~@, !.rev = @ + 1, !.actor = Me])}
May(e) == RevOf(e.rec) < MaxRevision /\ RevOf(e.tomb) < MaxRevision

EditHere(i) ==
  /\ May(lib[i]) /\ gen < MaxGen
  /\ \E e \in Changed(lib[i], Me) \cup Locked(lib[i]) :
       /\ lib' = [lib EXCEPT ![i] = e]
       /\ deleted' = IF e.rec = None THEN deleted \cup {i} ELSE deleted \ {i}
  /\ gen' = gen + 1 /\ edited' = edited \cup {i}
  /\ UNCHANGED <<baseline, conflicts, cloud, legacy, import, offered, copy>>

EditThere(i) ==
  /\ May(cloud[i])
  /\ \E e \in Changed(cloud[i], Other) : cloud' = [cloud EXCEPT ![i] = e]
  /\ UNCHANGED <<lib, gen, baseline, conflicts, legacy, import, edited, deleted, offered, copy>>

EditLegacy(i) ==
  /\ May(legacy[i])
  /\ \E e \in Changed(legacy[i], Other) : legacy' = [legacy EXCEPT ![i] = e]
  /\ UNCHANGED <<lib, gen, baseline, conflicts, cloud, import, edited, deleted, offered, copy>>

Merged(i) == MergeEntity(baseline[i], lib[i], cloud[i], conflicts[i], Me)

Sync ==
  /\ lib' = [i \in Id |-> Merged(i).local]
  /\ cloud' = [i \in Id |-> Merged(i).remote]
  /\ baseline' = cloud'
  /\ conflicts' = [i \in Id |-> Merged(i).conflict]
  /\ edited' = {i \in edited : conflicts'[i] # None}
  /\ offered' = [i \in Id |-> IF conflicts'[i] = None THEN None ELSE offered[i]]
  /\ deleted' = {i \in deleted : lib'[i].rec = None}
  /\ gen' = IF lib' = lib THEN gen ELSE gen + 1
  /\ UNCHANGED <<legacy, import, copy>>

\* importWithDependencies up to its commit: the snapshot, then both files
ImportReads ==
  /\ import = None
  /\ InStepOnly => lib = cloud /\ edited = {}
  /\ import' = [gen |-> gen, snap |-> lib, base |-> baseline, v3 |-> cloud, old |-> legacy]
  /\ UNCHANGED <<lib, gen, baseline, conflicts, cloud, legacy, edited, deleted, offered, copy>>

Difference(i) ==
  IF import.old[i].rec # None
  THEN import.v3[i].rec # import.old[i].rec
  ELSE import.old[i].tomb # None /\ (import.snap[i].rec # None \/ import.v3[i].rec # None)

ImportedConflict(i) ==
  [kind |-> IF IsLocked(import.snap[i]) THEN "locked" ELSE IF import.old[i].rec # None THEN "edit-edit" ELSE "delete-edit",
   based |-> import.base[i].rec # None, local |-> import.snap[i].rec, remote |-> import.old[i].rec]

(* Deviation: the file that was imported becomes the baseline *)
ImportCommitsLegacy ==
  /\ import # None /\ import' = None
  /\ IF gen = import.gen
     THEN /\ baseline' = import.old
          /\ conflicts' = [i \in Id |-> IF Difference(i) THEN ImportedConflict(i) ELSE conflicts[i]]
          /\ offered' = [i \in Id |-> IF Difference(i) THEN import.old[i] ELSE offered[i]]
     ELSE UNCHANGED <<baseline, conflicts, offered>>
  /\ UNCHANGED <<lib, gen, cloud, legacy, edited, deleted, copy>>

\* commitSyncResult refuses when the library has moved since the snapshot.
ImportCommits ==
  /\ import # None /\ import' = None
  /\ IF gen = import.gen
     THEN /\ baseline' = import.v3
          /\ conflicts' = [i \in Id |-> IF Difference(i) THEN ImportedConflict(i) ELSE conflicts[i]]
          /\ offered' = [i \in Id |-> IF Difference(i) THEN import.old[i] ELSE offered[i]]
     ELSE UNCHANGED <<baseline, conflicts, offered>>
  /\ UNCHANGED <<lib, gen, cloud, legacy, edited, deleted, copy>>

Resolve(i, choice) ==
  LET r == IF choice = "local" THEN conflicts[i].local ELSE conflicts[i].remote IN
  /\ conflicts[i] # None /\ gen < MaxGen
  /\ lib' = [lib EXCEPT ![i] = IF r # None THEN RecordEntity(r) ELSE TombEntity([rev |-> 0, actor |-> Me])]
  /\ conflicts' = [conflicts EXCEPT ![i] = None] /\ offered' = [offered EXCEPT ![i] = None]
  /\ gen' = gen + 1 /\ edited' = edited \cup {i}
  /\ deleted' = IF r = None THEN deleted \cup {i} ELSE deleted \ {i}
  /\ UNCHANGED <<baseline, cloud, legacy, import, copy>>

\* loadFromWebDAV: the records of the file, without its tombstones
Download ==
  /\ copy = None /\ copy' = [i \in Id |-> [rec |-> cloud[i].rec, tomb |-> None]]
  /\ UNCHANGED <<lib, gen, baseline, conflicts, cloud, legacy, import, edited, deleted, offered>>

\* replaceRecords: unlocked records make room for those of the file; tombstones stay.
Replace ==
  /\ copy # None /\ gen < MaxGen /\ copy' = None
  /\ lib' = [i \in Id |-> IF IsLocked(lib[i]) THEN lib[i] ELSE [rec |-> copy[i].rec, tomb |-> lib[i].tomb]]
  /\ edited' = edited \cup {i \in Id : lib'[i] # lib[i]}
  /\ gen' = gen + 1
  /\ UNCHANGED <<baseline, conflicts, cloud, legacy, import, deleted, offered>>

Next ==
  \/ \E i \in Id : EditHere(i) \/ EditThere(i) \/ EditLegacy(i)
  \/ \E i \in Id, choice \in {"local", "remote"} : Resolve(i, choice)
  \/ Sync \/ ImportReads \/ ImportCommits \/ Download \/ Replace

Spec == Init /\ [][Next]_vars

-----------------------------------------------------------------------------
(* A pass publishes what this user changed or decided, and nothing else: a  *)
(* record that was left alone here keeps the version others published.      *)
PublishesOnlyEditsStep ==
  Sync => \A i \in Id : cloud'[i] # cloud[i] => i \in edited
PublishesOnlyEdits == [][PublishesOnlyEditsStep]_vars

(* Replacing the library by the cloud file leaves no tombstones: a pass     *)
(* deletes a record from the cloud only when this user has deleted it, not  *)
(* because it was missing from the file that was downloaded.                *)
DeletesOnlyWhatWasDeletedStep ==
  Sync => \A i \in Id : cloud[i].rec # None /\ cloud'[i].rec = None => i \in deleted
DeletesOnlyWhatWasDeleted == [][DeletesOnlyWhatWasDeletedStep]_vars

(* Until the user decides, a pass leaves both sides of an open conflict as  *)
(* they are, with imports in between (activeConflicts, mergeSyncStates).    *)
OpenConflictIsHeldStep ==
  Sync => \A i \in Id : conflicts[i] # None =>
    cloud'[i] = cloud[i] /\ (lib[i] # Absent => lib'[i].rec = lib[i].rec)
OpenConflictIsHeld == [][OpenConflictIsHeldStep]_vars

(* The version of records.json that an import found different is the one    *)
(* offered in the conflict centre until the user decides.                   *)
LegacyVersionStaysOffered ==
  \A i \in Id : offered[i] # None => conflicts[i].remote = offered[i].rec
=============================================================================
