# WatchTracker in TLA+

Specifications, model-checking runs and machine-checked proofs for WatchTracker
Android (`src/`): a film and series library kept in SQLite on each device and
synchronised between devices through one file on a WebDAV server. What this
program must never do is lose what a user wrote. The project follows an edit on its
whole way: from the screens that make it, through the commands and tables that store
it and the timers that announce it, to the protocol that carries it to other
devices; and the operations beside that way which replace or complete the library:
imports, recovery points, collections, batches of metadata.

All paths below are relative to the repository; `PROJECT.json` names the lines
each definition stands for.

## 1. Inventory

| Part | Where | State it keeps | Operations | Talks to |
|---|---|---|---|---|
| Local record writes | `src-tauri/src/db_atomic_*.rs` | table `records`, tombstones (a setting), `records_generation` | insert, update, delete, replace all; each one transaction | sync state (outbox, staging) in the same transaction |
| Sync state | `sync_state.rs`, `sync_staging.rs` | per target: baseline, conflicts, outbox, staging, publish intent, entity tag, scheduler state | snapshot, prepare intent, commit, resolve conflict, pause, record failure | called by the sync pass through commands |
| Sync pass | `features/sync/services/syncService.ts`, `syncPayload.ts`, `conditionalWebdav.ts` | one promise: snapshot, file read, validator, attempt | GET, merge, intent, conditional PUT, verify, commit | server, sync state |
| Three-way merge | `shared/lib/syncMerge.ts`, `collectionSync.ts` | none (pure) | mergeSyncStates, mergeEpisodeCompletions, mergeCollectionStates | sync pass |
| WebDAV server | external | `records-v3.json` | GET, PUT with If-Match / If-None-Match, PROPFIND | all devices |
| Sync coordinator | `useSyncCoordinator.ts`, `syncScheduling.ts` | timers, in-flight promise, rerun flag, copy of the runtime state | queue, debounce, run, retry, pause, resume | sync pass, sync state |
| Sync targets | `sync_targets.rs`, the sync settings pages | registry, epoch, per-target keys; the form and its probe | probe, activate, switch, disconnect, migrate | sync state, secret store, coordinator |
| Recovery points | `recovery_points.rs`, `useRecoveryPoints.ts` | copies of the database, manifests; the list on the panel | create, rotate, retain, delete, restore | the whole database |
| Local import/export | `local_import.rs`, `local_export.rs`, `useImportExport.ts`, `MobileSyncSettingsPage.tsx` | staged file and its fingerprint; page and preview | export, stage, preview, commit, discard, clean up | records, episodes, collections, recovery points |
| Legacy cloud import | `legacyImportService.ts` | one promise: snapshot and two files | take differences into the conflict centre, replace the library | sync state, cloud files |
| Episode history | `episode_history.rs`, `mobileEpisodeTracking.ts` | `episode_completions`, `nextEpisode` | enable, complete, skip, go back, finish | records, with `expectedRev` |
| Collections | `collections.rs`, `CollectionCenter.tsx`, `useCollections.ts`, `features/collections/lib` | collections, ordered members, tombstones; one copy of them in React; suggestions, dismissals, dialogs | create, edit, order, delete, discover, complete a series or a movie collection | staging, outbox, TMDB, records |
| Record screens | `App.tsx`, `MobileApp.tsx`, `features/watchlist` | the records React holds, forms, pages, the history of the web view | add, edit, lock, delete, navigate | commands |
| Views of the list | `watchlistQuery.ts`, `savedViews.ts`, `useSavedWatchlistViews.ts` | conditions, saved views, the startup view | filter, save, apply, delete | two settings |
| Batch metadata | `batchMetadata.ts`, `useBatchMetadata.ts`, `metadata_identity.rs` | analysis, plan, what TMDB does not have | analyse, choose, apply, cancel, forget | TMDB, records |
| Secret store | `secret_store.rs`, `AndroidSecretStore.kt` | sealed secrets | save, read, clear, migrate | targets |

What is hard here:

- *Interleaving.* A pass runs for seconds over the network while the user goes
  on editing, resolving conflicts and restoring copies. There is no lock over
  the pass; one number, `records_generation`, decides at the end whether the
  merge may still be committed.
- *Several writers.* The server only knows conditional PUTs. Between GET and PUT
  any other device may publish; without strong entity tags the condition is
  taken from a second request.
- *Failure.* Answers get lost, PUTs arrive after the client gave up, the process
  dies between PUT and commit or between two files of a recovery point; the publish
  intent, the staging area and what is on the disk are what is left.
- *Long histories.* Edit, delete, re-create, lock, resolve, restore on several
  devices in any order: each merge depends on a base made by earlier merges.
- *Awaits.* Every operation of the interface is a sequence of awaited calls that
  closes over what was rendered when it began. By the time an answer comes the page,
  the selection, the target or the record may be another one, and a pass may have
  rewritten the tables: revisions, fingerprints, epochs and generations are there to
  notice, and the question is always whether they notice enough.
- *Progress.* Whether an edit is ever published depends on a chain of timers, flags
  and early returns in one hook.

What makes each part correct:

- merge: no edit and no deletion of either side disappears without a conflict;
  a conflict leaves both sides as they are; merging again changes nothing;
- sync pass: a commit overwrites nothing the pass did not read; a publication
  contains what the user wrote and nothing else;
- sync state: an outbox that is not pending means that everything is published;
  a stored conflict shows the two versions there are;
- cloud file: its versions form one chain, each derived from the one before;
- recovery points: what an operation replaces can be restored; what is restored is
  what the user sees and, later, publishes;
- coordinator: what is pending always has something that will lead to an attempt, and
  is eventually attempted, one pass at a time;
- targets: nothing of one target ever counts as known to another; only what was
  probed is activated;
- imports: what happens is what the preview showed; locked records stay;
- episode history: no completion and no known time is lost on any device;
- collections: devices come to the same collections, a command changes what the page
  showed, a completion creates nothing twice and nothing in the wrong place;
- screens: they end on what the database has, drop no draft unasked, and write over
  nothing but what the user saw;
- views: nothing saved is lost, a stored view never shows more than it did;
- batches: only what is missing is written, no identity is given twice.

## 2. Modules

| Module | What it is |
|---|---|
| `SyncMerge` | the merge of one entity: operators only |
| `MergeOnce` | every triple of base, local and remote entry, merged and merged again |
| `WatchSync` | the protocol: devices, local writes, passes, server |
| `CommitChain` | abstract: one chain of versions, devices that adopt versions of it |
| `WatchSyncRecovery` | `WatchSync` with recovery points |
| `SyncCoordinator` | when a device synchronises: timers, runs, passes, failures |
| `SyncTargets` | several targets, their settings pages, and a pass that runs meanwhile |
| `LocalImport` | backups: export, staged import, desktop import |
| `LegacyImport` | the two imports from the cloud, beside passes and other devices |
| `EpisodeHistory` | the history of one series on two devices and in the file |
| `CollectionSync` | collections and members on several devices |
| `CollectionCenter` | the collection centre and the form over one copy of the collections |
| `CollectionScan` | discovery of collections, decisions and dismissals |
| `SeriesCompletion`, `MovieCompletion` | completing a series or a movie collection |
| `RecordEditing` | the record screens and the commands they send |
| `MobileNavigation` | the mobile pages over the history of the web view |
| `SavedViews`, `WatchlistQuery` | the saved views, and the conditions themselves |
| `BatchMetadata` | metadata completed in batches |
| `RecoveryPoints` | the files of the recovery points and their panel |
| `Merging`, `Imports`, `Screens`, `Centre`, `Targets` | several components side by side, of which one runs (section 4) |
| `SyncMergeProofs`, `MergingProofs` | theorems about the merge of one entity; about merges of records, histories and collections |
| `WatchSyncProofs` | theorems about the protocol: types and the certificate of the generation; the clean outbox, the conflict centre and the kept writes; the refinement of `CommitChain`; publications and their intent; recovery points |
| `SyncCoordinatorProofs`, `SyncTargetsProofs` | theorems about the coordinator and about the targets |
| `ImportsProofs`, `ScreensProofs`, `CentreProofs` | theorems about the components of these compositions |

An `MC` module gives the constants of the module it EXTENDS the sets its configuration
uses; `MCProgress` also puts two components side by side. `WatchSync`, `EpisodeHistory`
and `LegacyImport` EXTEND `SyncMerge` (they merge with its operators),
`WatchSyncRecovery` EXTENDS `WatchSync` (its steps stay, two are added, the commit takes
a copy first). `WatchSync` is shown to implement `CommitChain` (`INSTANCE CommitChain
WITH chain <- published, seen <- the baselines`). A proof module EXTENDS the module it is
about, so that its theorems are about the very definitions the runs check. Definitions
whose comment begins with "Deviation:" are not part of the model: each is a plausible
slip in one definition, used to see that the property named in `PROJECT.json` notices it.

How the modules share the system: a pass has all its steps in `WatchSync`, those that
depend on the target in `SyncTargets`, a snapshot, a publication and a commit in
`CollectionSync`; it is an outcome in `SyncCoordinator`, one step in `EpisodeHistory`
and `LegacyImport`, and elsewhere a commit that changes the tables from outside
(`RecordEditing`, `MobileNavigation`, `CollectionCenter`, `BatchMetadata`). What such
a commit may do to records there (bring, change, lock, remove) is what `WatchSync`
lets it do.

## 3. How the model corresponds to the code

### SyncMerge, MergeOnce

`MergeEntity(b, l, r, frozen, device)` is the body of the loop of
`mergeSyncStates` (`src/src/shared/lib/syncMerge.ts:173-268`), which treats each
id independently. A record is its business fields, `isLocked` (a business field
that the merge also tests), `rev` and `revActor`. Abstracted: `createdAt` and
`updatedAt` never decide a merge, and one `(rev, actor)` pair stands for one
write, so that equality of two entities is equality of their JSON, as in the code.
`MergeOnce` adds one step, `Adopt`: a sync that runs undisturbed, after which the
remote side is the next base.

### WatchSync

| Variable | In the program |
|---|---|
| `db[d]` | device `d`'s SQLite file: `side` = table `records` and the tombstones, `gen` = `records_generation`, `pending`/`dirty` = `outbox_v1`, `staging` = `staging_v1`, `intent` = `publish_intent_v1`, `baseline` = `baseline_v3`, `conflicts` = `conflicts_v3` |
| `pass[d]` | the local variables of `syncWithDependencies` (`syncService.ts`): snapshot, file read, validator, attempt; lost when the process dies |
| `wire`, `reply` | conditional PUTs under way, answers under way |
| `published` | all versions `records-v3.json` ever had; the last is the file |
| `lastCommit` | commit ids are UUIDs; they are numbered in the order they are drawn |

| Action | In the program |
|---|---|
| `InsertRecord`, `EditField`, `ToggleLock`, `DeleteRecord` | the commands of `db_atomic_crud.rs`, `db_atomic_update.rs`: one transaction each, which writes the record, moves the generation, marks the outbox and stages the id |
| `ResolveConflict` | `sync_state::resolve_conflict` |
| `StartPass` | `get_sync_snapshot` |
| `Fetch`, `AskETag` | GET; without a strong tag a PROPFIND afterwards |
| `Publish` | the merge, `prepare_publish_intent`, the PUT is sent |
| `ReadReply`, `Verify` | 2xx or 412; without a strong tag in the answer the file is read again; 412 leads to the next attempt with the same snapshot |
| `CommitPass` | `sync_state::commit`, refused when the generation has moved |
| `Abort` | any failure, time-out, refusal or crash: the pass is forgotten, the database stays |
| `Serve` | the server handles a PUT, at any time after it was sent or never |

Between any two of these steps every other device and the user may act. A PUT
that is never served is a lost request; one that is served after `Abort` is a late
one; an answer dropped by `Abort` is a lost answer; `Abort` followed by
`StartPass` is a restart.

What is put into one step and why: the publish intent and the sending of the PUT
(a crash between them leaves an intent of a version nobody ever sees; the model
has the same state when the PUT is never served), and all statements of one SQLite
transaction. Left out because it changes no modelled state: MKCOL, the GET of the
old `records.json` when a V3 file exists, the entity tag stored in `remote_etag`
(no pass reads it). A missing `outbox_v1` is the same as a clean one. The
commands do not check the lock of the record they change, only the interface does
on a copy read earlier (`useMobileRecordRepository.ts:29-40`), so the model lets
users edit locked records.

Left out: the import of a V2 file by the first sync, the question before a
schema upgrade, a cloud file that somebody deletes. Collections, episode
completions and further targets have their own modules.

### WatchSyncRecovery

`points[d]` are the automatic recovery points of `recovery_points.rs`, whole copies
of the database, so that generation, baseline and outbox go back with the
library. `RestorePoint` saves the current database, puts the copy in its place
and queues it. Nothing in the code prevents a restore while a pass is in flight.

### SyncCoordinator

`store` is what the database keeps for the active target (outbox, scheduler), `known`
the copy `runtimeRef` the hook made last; the two differ while somebody switches
targets. `wake`, `debounce`, `pass` and `rerun` are the refs of the hook, `run[r]` an
invocation of `runAutomatic`, of which several may overlap because it awaits the
runtime state (`RunRead`, reading) and the credentials before it decides
(`RunDecide`). `Events` are what users and windows do at any time (`LocalWrite`,
`SyncNow`, `TogglePause`, `Activate`, `Disconnect`, `Focus`, `Online`,
`AndroidResume`, `Crash`); `Timers` are `FireDebounce`, `FireWake`, `Tick` and
`BackoffEnds`; the other steps end at the next `await` of the hook. `Finish` is the
`finally` of `executeSync`, where the rerun flag is read. A pass ends in `Commit`,
`Stale` (refused, because target or generation moved) or `Fail`, whose failure is
recorded in a call of its own (`RecordFailure`, `CatchFailure`). `CollectionWrite` is
a write that marks the outbox and tells nobody. Time is reduced to what is due now,
due later or not due at all.

### SyncTargets

`registry`, `base`, `pending`, `ref` and `legacy` are settings (the keys of a target, and
those without a target from before there were any), `vault` is the system's secret
store, `form` and `page` are the settings page, `pass` is the pass under way with the
context (target, epoch) it captured. `Verified` is `verify_context`, which every request
and every commit passes through. `ActivateTarget`, `Disconnect` and `EnsureMigrated`
include the writes no transaction joins: each may stop between them. `RunProbe`,
`Probed`, `ActivateMobile` and `Told` are the Android page; `HandleSave`, `SaveProbed`
and `ActivateDesktop` the desktop tab. Contents are sets of items that only grow,
because the question is where content may end up and not how it is merged.

### LocalImport

A library is a version per record and the records that have a history. `stage[k]` is
the file staged under token `k`; a page holds at most one preview, and `left` are
operations of pages that were left whose answers still come. `Apply` is
`local_import::commit`: fingerprint, replacement around locked records, recovery point.
`ExportDesktop` reads the records and `ExportRead`, later, the histories; `ExportMobile`
is one command. `Sync` is a pass with nobody else about, so that the cloud equals the
baseline.

### LegacyImport

`ImportReads` is `importWithDependencies` up to its snapshot and files, `ImportCommits`
its commit with `baseline: v3`; `Download` and `Replace` are the desktop's import of the
cloud file. `edited` and `deleted` remember what the user asked for, `offered` the
version an import put into the conflict centre. A pass (`Sync`) is one step.

### EpisodeHistory

The record carries `total`, `next`, `status` and `enabled` as its fields, so that
`SyncMerge` merges them as it does others; `comps` are the rows of
`episode_completions`, a completion being the clock that timed it and its revision.
`Enable`, `SetNext` and `Edit` are the commands with their checks, `seen` the record a
page was rendered with (`expectedRev`), `Sync` a pass: merge, publication, and a commit
that `replace_completions_tx` may refuse after the publication.

### CollectionSync, CollectionCenter

In `CollectionSync` a collection or membership is absent, live or gone on each side, and
its `at` stands for revision, actor and time together. The commands (`Create`, `Update`,
`AddMember`, `RemoveMember`, `Reorder`, `Delete`) stamp what they touch; `Start` is a
pass up to its publication (every answer of the user to a conflict included), `Commit`
the transaction with its unique names and foreign keys; edits may come in between
(`dirty`). `author`, `written`, `disputed` and `unconfirmed` are history, the last one of
uploads that nobody confirmed: those given up, and those whose commit was refused.

In `CollectionCenter` there is one device: `db` are the tables, `shown` the copy in
`useCollections`, `ops` the commands called and not yet answered and shown. A command
runs when it is its turn, checks the revision the page had (`Refusal`), and only a
successful one is followed by `Read`. `Sync` is a commit of a pass that rewrites a
collection. `OpenCenter`, `EditRecord`, `SaveForm`, `SaveNext` and `CloseForm` are the
way between library, centre and form (`App.tsx`), where a save is a command per
collection.

### CollectionScan, SeriesCompletion, MovieCompletion

What TMDB knows is constant data (`Seeds`, `Parts`, `Listed`, `Belongs` ...); whether and
when it answers is open. `CollectionScan`: `StartScan` closes over records, collections
and dismissals, each worker takes an entry (`PickEntry`) and is answered
(`AnswerEntry`), `Publish` replaces the suggestions; meanwhile the user resolves
ambiguities, applies, dismisses and restores, each with the write of one setting.
`SeriesCompletion`: `Inspect` or `Identify` asks TMDB, `AnswerInspect` opens the dialog
over whatever is selected then, `Create` and `RunCreate` call
`create_records_with_members` with the joins to the series of a universe.
`MovieCompletion`: `AnswerMembers` binds the collection, `AnswerParts` classifies its
parts against the records, `RunComplete` is `complete_movie_collection` with its
refusals. In `MovieCompletion` one collection stays selected, and `seriesRecordKind`
goes with the kind of a record. The button behind `bindSelectedSeries` is never rendered
and has no action.

### RecordEditing, MobileNavigation

`RecordEditing`: `db` are the records, `screen` the list React holds, `calls` and
`answers` the commands on their way there and back. `surface`, which no step changes, is
the one the program was built for: the desktop (no check) or the mobile repository, which reads all records, compares the
revision and then writes. `SyncCommit` changes the table, `SyncReload` the screen.
A record has two fields of the form, its lock and its revision.

`MobileNavigation`: `stack` and `pos` are `window.history`, `page` the state of
`useMobileNavigation`; `history.back()` is asynchronous, so it is counted in `pops` and
carried out by `Traverse` (popstate). `Go` is `navigate`, `Push` opens a detail or a
form, `SaveAnswered` and `DeleteAnswered` close pages when their answers come, `LeaveGone`
is the effect that leaves the page of a removed record.

### SavedViews, WatchlistQuery

`SavedViews` has the two settings, the list the hook shows, and `calls`, the operations
not yet answered, each of which computed the whole list when it was called. `told` and
`wish` are what the user was told. `WatchlistQuery` has the library, the conditions,
what a stored view had set before it was normalised (`raw`) and what is typed. The
platforms stand for the three dimensions of texts and the year for the three ranges,
which the code treats alike.

### BatchMetadata

`Prepare`, `Analyse` and `Preview` are the analysis, `Choose` with `ChoiceRead` and
`ChoiceWritten` the choice among several matches, `BeginRow`, `WriteName` and
`WriteIdentity` one record of `handleApply` (the ordinary fields, then
`complete_missing_tmdb_identity`). The fields are reduced to one ordinary field and the
identity; a failing write of the settings is left out.

### RecoveryPoints

`files` are the copies with their manifests, `shown` the list on the panel, `behind` the
clock. `Guarded` is any operation that saves a point first (imports, commits, batches):
`create` and its rotation, then the new library or a refusal. `RestorePoint` takes the
five steps of `restore`; `Faults` says which may fail. `DieCreating` and `DieRetaining`
are the two moments at which the program may die between two files that belong
together; `Restart` removes temporary files. Two points with the same time are left out.

## 4. Runs

### Components side by side

`Merging`, `Imports`, `Screens`, `Centre`, `Targets` and `MCProgress` hold several
components, or one component with several settings of its constants. The variable `part`
is chosen initially and never changes; the component it names runs, the variables of the
others keep one value (`None`, or an initial state). Only one component ever takes steps,
so a behaviour of the composition is a behaviour of that one, and a property `part = "x"
=> P` says of it what `P` says of the component by itself; a property without `part` is
about the component that the module extends, and holds in the fixed state of an idle one.
The theorems of section 5 are about the compositions too, with the specifications and
properties the runs use. Nothing is claimed about an interaction of the parts: where
components do interact (passes and restores, the coordinator and switching targets), a
module of its own has them interact.

| Composition | Parts |
|---|---|
| `Merging` | `MergeOnce`; `EpisodeHistory` with conflicts resolved, without, and with locks; `CollectionSync` |
| `MCProgress` | `MobileNavigation`; `CollectionSync` with two collections |
| `Imports` | `LocalImport` on Android and on the desktop; `LegacyImport`; `RecoveryPoints` with every fault, and with crashes and a clock set back; `WatchSyncRecovery` |
| `Centre` | `CollectionCenter`; `CollectionScan`; `SeriesCompletion` with a hasty and with a patient user; `MovieCompletion` |
| `Screens` | `RecordEditing` on both surfaces; `MobileNavigation`; `SavedViews`; `WatchlistQuery`; `BatchMetadata` alone and beside other writers |
| `Targets` | `SyncTargets` on Android and on the desktop |

### What each run checks

| Run | Instance | Shows |
|---|---|---|
| `merging` | records: all triples with 2 fields, 2 values, 2 devices, revisions up to 2; history: 2 devices, one series of up to 2 episodes; collections: 2 devices, 1 collection, 1 record | no edit or deletion disappears without a conflict (`NoEditLost`, `NoSilentDeletion`, `LockedChangeStaysHere`, `SplitOrAgree`), both ends decide alike (`Mirror`), a second sync is silent (`SecondSyncIsSilent`); completions are kept and what a page shows of them is told by the revision (`HistoryIsKept`, `HistoryIsAsTold`); what one device alone edited stays, what was deleted stays deleted (`CollectionEditsAreKept`) |
| `first_sync` | 2 devices that start empty, strong tags, 1 record | `TypeOK`; `IntentCoversPublication`: only staged writes are published; `ImplementsCommitChain`: no version replaces one it was not derived from |
| `shared_library` | 2 devices that share a record, with locks, weak tags | `SnapshotIsCertified`, `CleanMeansPublished`, `ConflictShowsBothSides`, `NoWriteLost` |
| `wakeup` | Android, 1 automatic run, accounts switched, pauses, restarts | `OwedHasAWakeUp`: something to publish always has something that leads to an attempt |
| `attempt` | desktop, collections written unannounced, fairness | `OwedIsAttempted` |
| `progress` | history of depth 5, 4 forms, 2 records; 2 devices with a collection each | `GonePageIsLeft`; `Converges` |
| `targets` | 2 users of one server, 1 item; epochs up to 3 (Android), 2 (desktop, with a wrong password) | `Isolation`, `DifferenceIsQueued`, `DesktopActivatesProbed` |
| `imports` | 1 record in 2 versions, 2 tokens; 2 points of 2 sizes, all faults | `ImportAsPreviewed`, `PassKeepsToTheUsersWork`, `PointsAreKept`, `RefusedRestoreChangesNothing`, `RestoredMeansPublished` |
| `centre` | 2 collections, 2 records, 3 steps; 4 records of 2 shows; 2 shows, 3 records; 3 movies, 3 records | `SaveKeepsUntouched`, `SuggestionsAreSound`, `SeasonsGoToTheirSeries`, `CompletionAddsOnce`, and the types |
| `screens` | 2 records on the desktop, 1 on mobile, 2 commands under way; history of depth 5, 4 forms, 2 records; 3 views; 3 titles; 2 rows to complete | `ScreenIsCurrent`, `CardActionsSaw`, `PageIsTheEntry`, `AnswersAreKept`, `OptionsTellTheTruth`, `WritesWhatItChecked`, and the types |

Two runs are expected to find a counterexample, where the code does not do what its plan
says:

- `locked_revert`: the commit skips a locked record but its baseline holds the remote
  version, so the next pass takes the old locked version for an edit and publishes it
  over the other device's (`sync_state.rs:503`; `docs/PROJECT_PLAN.md:19`).
- `restore_in_flight`: a restore takes `records_generation` back, so a later value may
  equal the one a pass in flight expects (`recovery_points.rs:348`;
  `docs/PROJECT_PLAN.md:159`).

### Bounds

`MaxGen` (writes per device), `MaxCommits` (publications), `MaxAttempts`, `MaxPoints`,
`MaxEpoch`, `MaxAt`, `MaxRev`, `MaxSteps`, `MaxCalls`, `MaxRuns`, `MaxChanges`,
`MaxViews`, `MaxDepth`, `MaxForms`, `MaxMade` and `MaxLib` bound the instances; each is
a constant of its module and appears only in guards.

In `WatchSync` one record is enough for the state per id, because no step relates two
ids except through `MustPublish` (which asks whether any differs); two fields matter
only for merges without a conflict, which `merging` covers completely. Two devices are
the least that compete for the file. `MaxAttempts` is 2 where the code has 3: the third
attempt starts from the same state as the second but for the counter. From the shared
start (`SharedInit`: one version that both devices have, a state that `first_sync`
reaches) three generations are two writes or one write and a commit on a device, and
three commits two publications on top of the shared one: enough for two devices to
edit, to race for the file, for the loser to merge, and for a lost answer to be found
by a later pass.

Elsewhere the bounds leave room for two operations that overlap and one event from
outside (a pass, another operation, a death of the program) between any two of their
steps; three steps of the collection centre are two commands and a pass. The list of
saved views has room for two, so that it is full in the run; recovery points likewise.
Where a theorem exists (section 5) it has none of these bounds on its constants: they
may be any numbers.

### Deadlock

It is not checked in `imports`, `centre` and `screens`: there all bounds can be used up,
and a user who has nothing more to do is a state of rest. It is checked in the others.

### Fairness

`SyncCoordinator.FairSpec`: timers fire, awaited calls return, a pass that began ends,
and the tick of the desktop (`PeriodicPull`) comes. The code schedules each of these
with `setTimeout` or awaits a promise that every branch settles (requests have a time
limit). Users, windows, focus and network owe nothing. On Android there is no periodic
pull, and the code promises no attempt for what was not announced: there `OwedHasAWakeUp`
is checked for announced writes instead. `MobileNavigation`: the browser carries out a
`history.back()` (`Traverse`) and React runs the effect of `LeaveGone`.
`CollectionSync`: a pass is started again (the periodic check) and its transaction is
executed; nothing is assumed about edits, which `Converges` lets end.
`CollectionCenter` states that answers come. `WatchSync` has no fairness: whether a
pending outbox is tried again is the coordinator's affair.

### Further properties of the modules

Each module states more than the listed runs check. These were checked while it was
built, on instances of the component by itself, and hold there:
`SavedViews.LaunchShowsTheStartupView`, `CollectionScan.DismissalsAreKept` (while nothing
fails and the user waits), `CollectionCenter.ChangesWhatWasShown` and `ShownIsCurrent`,
`MovieCompletion.IdentityIsOnlyFilled`, `WatchlistQuery.AnyWithinAllAcross`,
`LegacyImport.OpenConflictIsHeld`, `LocalImport.LockedStay` and `PreviewHasItsFile`
(both proved), and the type invariants. `IntentCoversPublication` was checked with two
fields, `OwedHasAWakeUp` with two overlapping automatic runs.

### Where code and promise differ

The modules also state what comments, messages, tests and plan of the repository
promise and the code does not keep. TLC refutes each on a small instance. Besides the
two runs above:

| Property | Cause | Line |
|---|---|---|
| `WatchSync.LockedUpdateIsReported` | a remote update of a locked, locally unchanged record merges without a conflict and is skipped by the commit | `syncMerge.ts:232`, `sync_state.rs:503` |
| `WatchSync.ConflictNeedsTwo` | the publish intent is a base only while there is no baseline: after a lost answer one more edit makes a device conflict with itself | `syncService.ts:96` |
| `WatchSync.VersionsFormAChain`, weak tags | the validator may belong to a newer version than the body that was merged | `conditionalWebdav.ts:36` |
| `WatchSync.ChoosingOwnChangesNothing` | resolving writes the version stored with the conflict, over later edits | `sync_state.rs:694` |
| `WatchSyncRecovery.OnlyDeviceKeepsItsLibrary` | a restored library comes with its old baseline, so the next pass takes back what was restored | `recovery_points.rs:350` |
| `RecoveryPoints.ReplacedCanBeRestored`, clock set back | the newest point is rotated out as the oldest | `recovery_points.rs:207` |
| `RecoveryPoints.OnlySurplusIsRotated`, death in `write_manifest` | the manifest is removed before the new one is renamed | `recovery_points.rs:137` |
| `RecoveryPoints.RefusedRestoreChangesNothing`, failing rotation | the error of the rotation is reported for a restore that took place | `recovery_points.rs:361` |
| `SyncCoordinator.TransientIsRetried` | resuming clears the retry and keeps the error | `sync_state.rs:440`, `useSyncCoordinator.ts:143` |
| `SyncCoordinator.FailureStaysWithItsTarget` | the failure is recorded with the target of that moment | `useSyncCoordinator.ts:102` |
| `SyncCoordinator.OwedHasAWakeUp`, `UnnotedWrites` | collection commands schedule nothing | `useCollections.ts:27` |
| `SyncTargets.FirstSyncWasOfTheTarget` | `syncNow` returns the pass in flight for the old target | `useSyncCoordinator.ts:80` |
| `SyncTargets.OnlyProbedIsActivated`, Android | user and password may be typed on while the probe runs | `MobileSyncSettingsPage.tsx:150` |
| `SyncTargets.Isolation`, `Undecipherable` | old state goes to whatever target is entered | `sync_targets.rs:304` |
| `LocalImport.BackupIsSound`, desktop | the export reads records and histories at different times | `useImportExport.ts:19` |
| `LocalImport.SyncKeepsTheLibrary` | an import removes without tombstones, the next pass restores | `collections.rs:1601` |
| `LegacyImport.PublishesOnlyEdits` | the import commits a newer baseline with an older library | `legacyImportService.ts:139` |
| `LegacyImport.LegacyVersionStaysOffered` | the next pass replaces the remote side of the conflict | `syncMerge.ts:208` |
| `EpisodeHistory.MergedHistoryIsAccepted` | a lowered total merges with a later completion; every device then refuses the file | `episode_history.rs:102` |
| `EpisodeHistory.HistoryIsMonotonic` | a freshly locked series makes completions look deleted | `episode_history.rs:113` |
| `EpisodeHistory.RevisionShowsProgress`, resolving | a resolved version keeps its revision, two contents share one | `sync_state.rs:720` |
| `CollectionSync.CollectionsReachEveryDevice` | two collections of one name cannot be committed anywhere | `collections.rs:290` |
| `CollectionSync.KeptCollectionKeepsItsMembers` | members take their tombstones although the collection is kept | `collectionSync.ts:87` |
| `CollectionSync.PublishedEditIsOwn` | see `ConflictNeedsTwo`, for a field set back | `syncService.ts:96` |
| `CollectionSync.CleanCheckWritesNothing` | two orders of the same rows compare as different | `sync_state.rs:532` |
| `CollectionCenter.DeletesWhatItSaid` | merged-in members do not move the revision the page sends | `collectionSync.ts:43` |
| `CollectionCenter.SaveKeepsUntouched`, `OpenWhileBusy` | ticks are taken when the form opens, removals computed when it saves | `App.tsx:378` |
| `CollectionCenter.RetryCanWork` | a refused command does not read again | `useCollections.ts:57` |
| `CollectionScan.ConfirmedIsSuggested` | the end of a scan replaces what was added meanwhile | `CollectionCenter.tsx:448` |
| `CollectionScan.DismissedGroupStaysAway` | the local group of a dismissed source has another key | `CollectionCenter.tsx:397` |
| `CollectionScan.DismissalsAreKept`, failing read | an unread list counts as empty and is written | `CollectionCenter.tsx:142` |
| `CollectionScan.ActionableCanBeApplied` | a suggestion may have no target | `collections.rs:818` |
| `SeriesCompletion.SeasonsGoToTheirSeries`, hasty | the answer opens a dialog over another selection | `CollectionCenter.tsx:554` |
| `SeriesCompletion.NoSeasonTwice`, `SeasonOnceInLibrary` | only members of the selected collection are compared | `collections.rs:977`, `:918` |
| `SeriesCompletion.MissingIsOffered` | seasons present are counted over all shows | `CollectionCenter.tsx:553` |
| `MovieCompletion.OfferedIsAccepted` | one matching id is enough for the page, not for the command | `collections.rs:1151` |
| `MovieCompletion.BoundToTheOnlyOne` | a failed look-up drops out of the candidates | `CollectionCenter.tsx:655` |
| `RecordEditing.StaleDraftIsRefused` | an old draft is sent with the newest revision | `MobileLibraryPage.tsx:161` |
| `RecordEditing.LockedIsReadOnly` | the form opens for locked members of a collection | `App.tsx:339` |
| `RecordEditing.DuplicatesAreConfirmed` | a second submission sees the same list | `RecordForm.tsx:95` |
| `MobileNavigation.UnsavedIsAsked`, impatient | a late answer leaves whatever page is open | `MobileApp.tsx:51` |
| `MobileNavigation.NoTabUnderTheLibrary` | the library replaces a form above a tab | `navigation.ts:121` |
| `SavedViews.AnswersAreKept`, failing read or impatient | the list is computed from the last render | `useSavedWatchlistViews.ts:49`, `:56` |
| `WatchlistQuery.LoadingNeverBroadens` | unknown values are dropped from a stored view | `watchlistQuery.ts:104` |
| `WatchlistQuery.TypedYearIsKept` | each keystroke is clamped and swapped | `App.tsx:706` |
| `WatchlistQuery.CountsAreMatches`, spellings | options compare exactly, matching ignores case | `AdvancedFilterPanel.tsx:29` |
| `BatchMetadata.OnlyMissingIsWritten`, `IdentityFitsTheRecord` | the batch compares with a moment ago, or with itself | `useBatchMetadata.ts:39` |
| `BatchMetadata.NoDataStaysKnown` | two choices read and write one setting | `useBatchMetadata.ts:37` |

## 5. Proofs

The theorems hold for every value of the constants: any devices, ids, fields, values,
targets, collections, records, films and bounds, with and without locking where nothing
else is said. They rest on the named assumptions of the modules only, of three kinds:

- `None` (or the absent version) is none of the values it is distinguished from
  (`NoneAssumption`, `NoVersionAssumption`, `NoEntryAssumption`, `NoneIsNothing`);
- bounds are numbers, flags are Booleans, sets that the code counts are finite
  (`FlagsAssumption`, `MaxAttemptsAssumption`, `BoundsAssumption`, `BoundAssumption`,
  `TopRevAssumption`, `MaxPointsAssumption`, and parts of the others);
- constant data are of the shape the code reads: `SyncTargetsAssumption`,
  `LocalImportAssumption`, `LegacyImportAssumption`, `RecoveryPointsAssumption`,
  `EpisodeHistoryAssumption`, `CollectionAssumption`, `CenterAssumption`,
  `ScanAssumption`, `SeriesAssumption`, `MovieAssumption`, `RecordEditingAssumption`,
  `MobileNavigationAssumption`, `SavedViewsAssumption`, `WatchlistQueryAssumption`,
  `BatchAssumption`. Noteworthy are that no two movies share an IMDb id (`MovieAssumption`),
  and that the numbers a field of a series may have include the three statuses
  (`EpisodeHistoryAssumption`).

A component that only a composition instantiates states its assumption as a definition;
`MergingAssumption`, `ImportsAssumption`, `ScreensAssumption`, `CentreAssumption` and
`TargetsAssumption` assume it of the instance's constants. TLC evaluates each of them in
the runs.

### The merge (`SyncMergeProofs`, `MergingProofs`)

`MergeIsFaithful` is what every proof about a pass cites: without a conflict both sides
become one entity, with one both stay as they were. `SilentCases` lists the ways a merge
can be silent; `SidesSplitOrAgree`, `EditsAreKept`, `DeletionsAreNotSilent` and
`LockedStays` follow from it. `SecondSyncSilent` rests on the invariant `Settled` (what
a completed sync leaves behind), `MergesMirror` on an exchange of the sides case by case.

The other two components that merge, in the composition the run `merging` checks:

- `HistoryKept` (invariant `HistoryInv`): where no series is locked, what a device and the
  file last agreed on neither of them has lost. It is what makes a merge of histories
  monotonic: an episode that is missing on one side was never agreed on, so it is new on
  the other and not deleted here. A series that stays locked is left out of merges.
- `HistoryTold` (invariant `RevisionInv`): the revision a page sends tells the progress its
  user saw, because a page is behind its database, and what was agreed on is behind both
  sides, in the order of revisions, equal ones having equal content.
- `CollectionEditsKept` (invariant `CollectionInv`), about collections nobody was asked
  about: what nobody deleted is nowhere gone; what a device agreed on is in its library and
  in the file; a device that did not edit a field shows what was agreed on; and the file has
  what the sole editor of a field published last, unless the upload was not confirmed. The
  proof attempt found an omission of the model's history: also a pass whose commit is
  refused after its upload leaves an upload unconfirmed.

### The protocol (`WatchSyncProofs`)

- `TypeOKHolds`: `TypeOK` is not inductive, because what a step computes is typed only
  if the pass has a snapshot and, once published, a commit id; `TypeInv == TypeOK /\
  PassComplete` is.
- `SnapshotCertified`: inductive given `TypeInv`. Every step that changes library,
  conflicts or baseline either moves the generation or ends the pass.
- `CleanPublished`: the invariant is `Provenance`: a PUT whose sender still waits
  carries exactly the version the sender will take for its baseline; whoever is told
  "stored" has that version among the published ones; every file read and every
  baseline is a published version. Then a commit that leaves the outbox clean leaves
  on both sides of the merge the same entity or a conflict (`MergeIsFaithful`).
- `ConflictsShown`: the commit stores conflicts of its snapshot, which by
  `SnapshotIsCertified` is still the library.
- `WritesAreKept`, with the invariant `Tidy`: a library and a baseline say one thing of
  an id (but for the tombstone a locked record may carry), and a library is silent only
  about what its baseline lacks. By the certificate, the snapshot that a commit merges is
  the library; field by field, the merge keeps what differs from the baseline or
  reports it.
- `ChainImplemented` and `ParentsAreReplaced`, with `StrongETags`. `CommitsDiffer` (a
  commit id is published once), `MovesForward` (what a pass read or stored is no older
  than the baseline) and `TagIsParent` (a PUT is conditional on the version it was
  derived from) strengthen the invariant. Every step of `WatchSync` is a step of
  `CommitChain` or a stutter. Only `TagIsParent` needs strong tags; TLC refutes the
  chain with weak ones.
- `UnlockedAreIntended` and `PublicationsAreIntended`, with `StrongETags`. A pass may
  publish only what the user staged. The invariant has two halves: `WritesAreStaged` (where
  the library has another record than the baseline, the id is staged, locked or in a conflict),
  and `MentionsStay` (an id that the file or a baseline once had stays in every later
  version, if only as a tombstone). The second half needs the chain: with a weak tag a
  version can lose an id that a baseline still has, and adding it again is nobody's
  write. The second theorem also supposes that nobody locks (`NothingLocked`), and the
  run `locked_revert` shows that it must.
- `RestoredIsPublished`, `RestoredKeepsTheChain`, `RecoveryTypeCorrect` are about
  `WatchSyncRecovery`. `SnapshotIsCertified` fails there (run `restore_in_flight`), so
  nothing may rest on it. `RecoveryInv` keeps `TypeInv` and `Provenance` and adds
  `PointsTyped` and `PointsArePublished`: the baseline of
  a point is a published version, published versions never go away, and a restored
  database is queued, so it may come back at any time. `RestoredIsPublished` is what the run `imports` checks as
  `RestoredMeansPublished`.

### The coordinator (`SyncCoordinatorProofs`)

`OwedIsNeverForgotten`: while every write is announced, what the device owes has a
wake-up. `Inv` is `TypeOK`, `CopyIsCurrent` (the copy of the runtime state knows target
and pause of the database unless a change of target is just being told) and `OwedLeads`
(there is a pass, or a timer, run or request that will not find out that it has to stop;
a pass that failed for another target does not count). It holds for any number of overlapping
automatic runs, which TLC cannot exhaust.

### The targets (`SyncTargetsProofs`)

`DifferencesQueued` (invariant `Queued`: also before there are targets, what the unscoped
keys lack is pending), `TargetsAreIsolated` (invariant `Apart`, if old credentials can be
read: without that, TLC refutes it), and `DesktopActivatesOnlyProbed`: an action
property, by cases over the actions, since only `ActivateDesktop` changes the active
target there and it takes the form the probe was asked for. The run `targets` checks it
as `DesktopActivatesProbed`.

`DesktopProbes` is the same of the composition of both surfaces, as the run states it.

### Imports (`ImportsProofs`)

`Inv` is `Types`, `SoundLibrary` (every history has its record, every locked record
exists) and `PagesHaveTheirFiles` (a preview announces what its staged file gives; pages
that were left and still commit have their files; no two of them commit one file). From it
`ImportsAreAsPreviewed`, `PreviewsCanBeConfirmed`, `LockedRecordsStay` and, on Android,
`MobileBackupsAreSound`. The other components of the composition:

- `RestoredIsRequeued`: the theorem of `WatchSyncProofs`, instantiated for the restores of
  the composition.
- `PassesAreTheUsersWork` (invariant `LegacyInv`): what the user left alone, and has not to
  decide, is as it was last agreed on; a tombstone that the user did not ask for is an
  agreed one (`LeftAlone`). An import under way still holds what it read, and until the
  library moves, the library is the file's (`ReadInStep`); the file is silent about no
  record (`FileSpeaks`).
- `RefusalsChangeNothing`: by cases over the points at which a restore may be refused
  before its rotation.
- `PointsStay` (invariant `PointsInv`: the library is real, the clock goes forward, points
  are copies made one after the other). `Rotated` takes the fewest of the oldest points so
  that number and size fit. That a point which goes is surplus is shown over the ranks of
  the points: the last one taken did not fit, so neither did any that was taken before it.
  The sums of sizes (a fold over a set) obey three lemmas (a sum is a number, is
  monotonic, loses what is taken out), each proved by a smallest counterexample.

### The collection centre (`CentreProofs`)

- `SavesKeepUntouched`, while the form is not opened during a command. `FormInv` adds to the
  property: what a save has still to remove was meant (`SavingIsMeant`), outside the
  form nothing of it is under way (`FormIsOver`), and until the form is sent no command
  is under way at all, so that the copy its ticks were taken from stays as it is
  (`TicksAreCurrent`). An unfinished command breaks the last, which is how TLC refutes the
  property without the hypothesis.
- `SuggestionsStaySound` (invariant `ScanInv`). While TMDB is asked no record is in two groups,
  and one that is still to be asked about is only in the group of its IMDb id
  (`GroupsApart`); then what was found wants different records (`ItemsApart`); and a patient
  user's page has read the dismissals, which no scan outlives (`PageIsRead`).
- `SeasonsGoHome` (invariant `PatientInv`): the dialogs of a patient user are about the
  selected collection and a show it is a home of (`Selection`), and a collection stays a
  home of the shows it got seasons of (`MadeAtHome`): collections are bound once.
- `CompletionsAddOnce`: an action property of both completions. `HastyInv` and
  `PatientInv` give the types of a creation under way; `MoviesInv` says that no record of
  a completion under way is matched with a movie that is to be created.
- `CentreIsTyped`: the type invariant of the four of them. Beyond kinds it says that the form is
  on its page and nowhere else, that suggestions name known sources, each once, that no two
  collections are bound to one show, that a dialog has the offer it was opened for, and that
  a page does not look up and create at once. `CentreTyped` adds what a command says of itself
  by its kind (`Says`) and the library a command has read; `ScanTyped` the groups and items of a
  search; `SeriesTyped` is `SeriesTypes` with what the invariant of the run says of sources and
  dialogs; `Movies!TypeOK` is inductive as it stands. Positions stay numbers because the greatest
  of a finite set of them exists (`MaxIsGreatest`, by the smallest set without one).
  The proof found `CASE` alternatives of `Refusal`, `GroupKey` and `Eligibility` that
  overlapped, whose value TLA+ leaves open though TLC takes the first; they are exclusive now.
  It supposes what the page's constants are: finitely many records, and sources TMDB was
  asked about for every show and seed that a record names.

### The record screens (`ScreensProofs`)

- `EditingIsTyped`: `Types` adds to `TypeOK` that no more than `MaxCalls` commands are
  under way, so that a number for the next form is always free (`ANumberIsFree`, a
  pigeonhole argument), and that every call has the parts its command needs.
- `ScreensAreCurrent`: that the screen equals the table when nothing is under way is far
  from inductive, since answers change the screen one by one while the table moves on.
  `Caught` says it of every prefix of the pending answers: after the first `k` of them the
  screen will hold what the next command found (after all of them, the table), or a
  reading of all records is still to come.
- `QuickActionsSaw`, and `CardActionsWriteOverWhatTheySaw` of the composition: a card action
  that passed the check of the mobile repository writes
  over what the user saw. The check compares revisions, so the invariant
  `RevisionsTell` is that a revision tells the content: two copies of one record
  anywhere (table, screen, calls, answers) with one revision are equal, no copy is newer
  than the table, and what was deleted stays deleted.
- `PagesFollowTheHistory` (invariant `PagesInv`): the history is never empty, its position
  within it, and page and entry agree but for steps back that are under way.
- `ViewsAreKept` (invariant `ViewsInv`): one call at most is under way, and what it would store
  differs from what is stored in the view it names only, so that neither its success nor
  its failure takes back what the user was told of another one.
- `OptionsAreTrue` (invariant `QueryInv`): an option that is chosen selects, given the other
  conditions, the records that are counted beside it.
- `BatchWritesWhatIsMissing` (invariant `BatchInv`): a row of the queue is what the table
  has while nothing else writes (`QueueIsCurrent`), and what is about to be written fits
  the row it was computed for (`WrittenFits`).
- `ScreensAreTyped`: the type invariant of all of them together, which says more than kinds:
  lists of views have identifiers that were given out, and no more views than allowed
  (`ViewsTyped`); the conditions are normalised after every keystroke and every stored
  view (`QueryTyped`); the batch has rows with something to write, and remembers fields
  only of records that miss them (`BatchTyped`). The steps of the two batch instances are
  reduced to one, `AnyBatchStep`, first.

### What stays with TLC, and why

- Liveness (`OwedIsAttempted`, `Converges`, `GonePageIsLeft`): it needs ENABLED, which
  the prover does not treat.
- What the modules state beyond the runs (section 4), except `LockedStay` and
  `PreviewHasItsFile`.

Each invariant and action property of the passing runs is stated by a theorem; where one
needs a hypothesis that its run grants by the instance, it is named above.

Induction over data is not available (the library's induction theorems take an operator),
but where a proof needs it (sums and ranks of the recovery points) a smallest counterexample
does: subsets of a finite set, and numbers, are well-founded, so the set of
counterexamples has a minimal element, and none of the lemmas has one.

## 6. Plan

1. Proofs: `LegacyImport.OpenConflictIsHeld` and `CollectionScan.DismissalsAreKept`, which
   no run lists.
2. `WatchSyncRecovery`: `IntentCoversTheUnlocked` beside restores.
3. The rest of the pass: a file that disappears, the first sync from a V2 file, the
   question before a schema upgrade.
4. `parseSyncPayloadV3` and the validation of stored documents.
5. `SecretStore`: replacing a secret in two stores.

## 7. Not modelled

Rendering, notices, statistics and the orders of the list; look-ups of film metadata but for
what they answer; the poster cache; the text of files and of errors; cryptography and
the platform stores of secrets; SQL schema and migrations (run once, in one
transaction, before anything else); the calendar and the settings pages other than
those of sync, imports and recovery points. The reasons are with the components in
`PROJECT.json`.
