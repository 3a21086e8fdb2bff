------------------------------- MODULE Merging -------------------------------
(* What two devices merge: a record (MergeOnce, extended here), the history *)
(* of a series, and the collections. The three have no state in common, so  *)
(* one of them runs, whichever the initial state says, and every property   *)
(* is about that one.                                                       *)
EXTENDS MergeOnce, FiniteSets

CONSTANTS
  Tracker, MaxTotal, MaxRev0,   \* the devices and bounds of EpisodeHistory
  Phone, Cid, Rec, Name, NamesOf, Creator, Shared, Filed, MaxAt   \* CollectionSync

VARIABLES
  part,   \* the component that runs
  rec, comps, common, conflict, seen, refused, cloud,   \* EpisodeHistory
  lib, shared, file, pass, dirty, at, author, written, disputed,
  unconfirmed   \* CollectionSync

Tracked == {"total", "next", "status", "enabled"}
Numbers == 0..MaxTotal

History     == INSTANCE EpisodeHistory WITH
  Device <- Tracker, Field <- Tracked, Value <- Numbers,
  Locking <- FALSE, Resolving <- TRUE, base <- common
Revision    == INSTANCE EpisodeHistory WITH
  Device <- Tracker, Field <- Tracked, Value <- Numbers,
  Locking <- FALSE, Resolving <- FALSE, base <- common
Locked      == INSTANCE EpisodeHistory WITH
  Device <- Tracker, Field <- Tracked, Value <- Numbers,
  Locking <- TRUE, Resolving <- FALSE, base <- common
Collections == INSTANCE CollectionSync WITH
  Device <- Phone, base <- shared, cloud <- file

ASSUME MergingAssumption ==
  /\ History!NoneAssumption /\ History!EpisodeHistoryAssumption
  /\ Revision!EpisodeHistoryAssumption /\ Locked!EpisodeHistoryAssumption
  /\ Collections!CollectionAssumption

HistoryVars == <<rec, comps, common, conflict, seen, refused, cloud>>
CollectionVars == <<lib, shared, file, pass, dirty, at, author, written, disputed,
  unconfirmed>>

\* A component that does not run has no state.
NoMerge == base = Absent /\ local = Absent /\ remote = Absent /\
  device = (CHOOSE d \in Device : TRUE) /\ Init
NoHistory == rec = None /\ comps = None /\ common = None /\ conflict = None /\
  seen = None /\ refused = None /\ cloud = None
NoCollection == lib = None /\ shared = None /\ file = None /\ pass = None /\
  dirty = None /\ at = None /\ author = None /\ written = None /\ disputed = None /\
  unconfirmed = None

AllInit ==
  \/ part = "record"         /\ Init /\ NoHistory /\ NoCollection
  \/ part = "history"        /\ History!Init /\ NoMerge /\ NoCollection
  \/ part = "revision"       /\ Revision!Init /\ NoMerge /\ NoCollection
  \/ part = "locked history" /\ Locked!Init /\ NoMerge /\ NoCollection
  \/ part = "collections"    /\ Collections!Init /\ NoMerge /\ NoHistory

AllNext ==
  \/ part = "record"         /\ Next /\ UNCHANGED <<part, HistoryVars, CollectionVars>>
  \/ part = "history"        /\ History!Next /\ UNCHANGED <<part, vars, CollectionVars>>
  \/ part = "revision"       /\ Revision!Next /\ UNCHANGED <<part, vars, CollectionVars>>
  \/ part = "locked history" /\ Locked!Next /\ UNCHANGED <<part, vars, CollectionVars>>
  \/ part = "collections"    /\ Collections!Next /\ UNCHANGED <<part, vars, HistoryVars>>

allVars == <<part, vars, HistoryVars, CollectionVars>>
AllSpec == AllInit /\ [][AllNext]_allVars
------------------------------------------------------------------------------
\* A completed episode stays completed on every device and in the file, where
\* no series is locked; the history of a series that stays locked does not
\* change (syncMerge.ts, mergeEpisodeCompletions; episode_history.rs,
\* replace_completions_tx).
HistoryIsKept ==
  [][/\ part = "history" => History!KeepsHistory
     /\ part = "locked history" => Locked!LockedHistoryIsUntouchedStep]_allVars

\* What a device compares tells it truly whether it knows the history: in step
\* with the file it shows the history of the file (the commit and its
\* baseline), and a revision sent with progress identifies what the user saw
\* (episode_history.rs, validate_record), where no conflict is resolved.
HistoryIsAsTold ==
  /\ part = "history" => History!InStepMeansSameHistory
  /\ part = "revision" => Revision!RevisionShowsProgress

\* What one device alone edited stays there (collectionSync.ts, the merge of
\* fields), and a deleted collection comes back only when a user kept it.
CollectionEditsAreKept ==
  [][part = "collections" => Collections!SoleEditorKeepsTheEdit' /\ Collections!DeletedStaysDeletedStep]_allVars
==============================================================================
