------------------------------- MODULE Imports -------------------------------
(* What replaces a library: imports and exports of both platforms           *)
(* (LocalImport, extended here), the download of a legacy cloud library,    *)
(* the files of the recovery points, and a restore beside a sync pass. They *)
(* share no state, so one of them runs, whichever the initial state says,   *)
(* and every property is about that one.                                    *)
EXTENDS LocalImport

CONSTANTS
  DeskRec, DeskVersion,                       \* the records of the desktop
  Me, Other, Device, LegacyId, Field, Value, MaxRevision, MaxLegacyGen,  \* LegacyImport
  Content, Size, MaxAutomatic, Capacity,      \* RecoveryPoints
  AnyFault, MaxMade,                          \* ... where the program does not die
  Refusals, Setback, MaxTroubled,             \* ... and where it does
  RestoreDevice, RestoreId, RestoreField, RestoreValue,
  MaxAttempts, MaxGen, MaxCommits, MaxCopies  \* WatchSyncRecovery

VARIABLES
  part,   \* the component that runs
  records, gen, baseline, conflicts, cloud, legacy, import, edited,
  tombed, offered, copy,   \* LegacyImport
  library, files, made, behind, shown, busy, status,   \* RecoveryPoints
  db, pass, wire, reply, published, lastCommit, points   \* WatchSyncRecovery

OnDesktop == INSTANCE LocalImport WITH
  Rec <- DeskRec, Version <- DeskVersion, Desktop <- TRUE
Legacy    == INSTANCE LegacyImport WITH
  Id <- LegacyId, MaxGen <- MaxLegacyGen, InStepOnly <- TRUE, lib <- records,
  deleted <- tombed
Files     == INSTANCE RecoveryPoints WITH
  MaxPoints <- MaxAutomatic, Faults <- AnyFault, Crashing <- FALSE, Setback <- 0,
  db <- library
Troubled  == INSTANCE RecoveryPoints WITH
  MaxPoints <- MaxAutomatic, Faults <- Refusals, Crashing <- TRUE,
  MaxMade <- MaxTroubled, db <- library
Restore   == INSTANCE WatchSyncRecovery WITH
  Device <- RestoreDevice, Id <- RestoreId, Field <- RestoreField, Value <- RestoreValue,
  Locking <- FALSE, StrongETags <- TRUE, MaxPoints <- MaxCopies

\* After the rotation at its end has failed, a restore stays and is reported
\* as failed: "Troubled" is the rest.
ASSUME ImportsAssumption ==
  /\ OnDesktop!LocalImportAssumption
  /\ Legacy!NoneAssumption /\ Legacy!LegacyImportAssumption
  /\ Files!RecoveryPointsAssumption /\ Troubled!RecoveryPointsAssumption
  /\ "rotate" \notin Refusals
  /\ Restore!NoneAssumption /\ Restore!FlagsAssumption /\ Restore!MaxAttemptsAssumption
  /\ Restore!BoundsAssumption /\ Restore!NoVersionAssumption /\ Restore!NoEntryAssumption
  /\ Restore!MaxPointsAssumption

LegacyVars == <<records, gen, baseline, conflicts, cloud, legacy, import, edited,
  tombed, offered, copy>>
PointsVars == <<library, files, made, behind, shown, busy, status>>
RestoreVars == <<db, pass, wire, reply, published, lastCommit, points>>

\* A component that does not run has no state.
NoLegacy == records = None /\ gen = None /\ baseline = None /\ conflicts = None /\
  cloud = None /\ legacy = None /\ import = None /\ edited = None /\ tombed = None /\
  offered = None /\ copy = None
NoPoints == library = None /\ files = None /\ made = None /\ behind = None /\
  shown = None /\ busy = None /\ status = None
NoRestore == db = None /\ pass = None /\ wire = None /\ reply = None /\
  published = None /\ lastCommit = None /\ points = None

AllInit ==
  \/ part = "android" /\ Init /\ NoLegacy /\ NoPoints /\ NoRestore
  \/ part = "desktop" /\ OnDesktop!Init /\ NoLegacy /\ NoPoints /\ NoRestore
  \/ part = "legacy"  /\ Legacy!Init /\ lib = Empty /\ Init /\ NoPoints /\ NoRestore
  \/ part = "files"   /\ Files!Init /\ lib = Empty /\ Init /\ NoLegacy /\ NoRestore
  \/ part = "crashes" /\ Troubled!Init /\ lib = Empty /\ Init /\ NoLegacy /\ NoRestore
  \/ part = "restore" /\ Restore!RecoveryInit /\ lib = Empty /\ Init /\ NoLegacy /\ NoPoints

AllNext ==
  \/ part = "android" /\ Next /\ UNCHANGED <<part, LegacyVars, PointsVars, RestoreVars>>
  \/ part = "desktop" /\ OnDesktop!Next /\ UNCHANGED <<part, LegacyVars, PointsVars, RestoreVars>>
  \/ part = "legacy"  /\ Legacy!Next /\ UNCHANGED <<part, vars, PointsVars, RestoreVars>>
  \/ part = "files"   /\ Files!Next /\ UNCHANGED <<part, vars, LegacyVars, RestoreVars>>
  \/ part = "crashes" /\ Troubled!Next /\ UNCHANGED <<part, vars, LegacyVars, RestoreVars>>
  \/ part = "restore" /\ Restore!RecoveryNext /\ UNCHANGED <<part, vars, LegacyVars, PointsVars>>

allVars == <<part, vars, LegacyVars, PointsVars, RestoreVars>>
AllSpec == AllInit /\ [][AllNext]_allVars
------------------------------------------------------------------------------
\* A clean library is published, with restores beside the passes
\* (syncService.ts; recovery_points.rs, restore).
RestoredMeansPublished == part = "restore" => Restore!CleanMeansPublished

\* After an import of the legacy cloud file a pass publishes only what this
\* user changed or decided, and deletes from the cloud only what this user has
\* deleted (legacyImportService.ts; db_atomic_crud.rs, replace_all).
PassKeepsToTheUsersWork ==
  [][part = "legacy" => Legacy!PublishesOnlyEditsStep /\ Legacy!DeletesOnlyWhatWasDeletedStep]_allVars

\* What replaces the library leaves a point to restore it from, and a point
\* disappears only as a surplus or when the user deletes it (recovery_points.rs, rotate).
PointsAreKept == [][part = "files" => Files!LeavesAPoint /\ Files!RotatesSurplus]_allVars

\* A restore reported as failed has changed nothing, after crashes and with a
\* clock set back (recovery_points.rs, restore).
RefusedRestoreChangesNothing == [][part = "crashes" => Troubled!RefusalKeepsAll]_allVars
==============================================================================
