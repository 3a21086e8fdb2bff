------------------------------- MODULE Screens -------------------------------
(* The screens side by side: the record screens of the two surfaces         *)
(* (RecordEditing, extended here), the pages of the mobile one, the saved   *)
(* views and the conditions of the desktop list, and the batch for missing  *)
(* fields.  They share no state, so one of them runs, whichever the initial *)
(* state says, and every property is about that one.                        *)
EXTENDS RecordEditing

CONSTANTS
  MobileId,                              \* bound: the records of the mobile screens
  PageId, Tabs, MaxDepth, MaxForms,      \* MobileNavigation
  ViewId, ViewName, Cond, All, MaxViews, MaxViewCalls,   \* SavedViews
  Media, FutureMedia, Code, BadCode, Key, Lower, Upper, Word, Pool,
  Digit, MaxLib,                         \* WatchlistQuery
  Listed, HitsOf, Titled, FirstRows, ChangeOf(_),        \* BatchMetadata
  MaxChanges, MaxRuns,                   \* its bounds when nothing interferes
  BusyChanges, BusyRuns                  \* and when something does

VARIABLES
  part,   \* the component that runs
  stack, pos, page, pops, entered, forms, saves, deletes, alive, asked,   \* MobileNavigation
  stored, storedStartup, views, startup, loaded, cond, active, writes,
  used, told, wish, edited,   \* SavedViews
  lib, query, raw, typed,   \* WatchlistQuery
  table, list, remembered, phase, todo, draft, plan, choosing, queue,
  writing, failed, reload, changes, runs   \* BatchMetadata

Pages  == INSTANCE MobileNavigation WITH
  Id <- PageId, Impatient <- FALSE, form <- entered
Views  == INSTANCE SavedViews WITH
  Id <- ViewId, Name <- ViewName, MaxCalls <- MaxViewCalls, Faults <- {"write"},
  Impatient <- FALSE, calls <- writes
\* Every text is spelled in one way.
Query  == INSTANCE WatchlistQuery WITH Spelling <- {1}
\* What a sync commit or a restored recovery point makes of the table comes
\* between the analysis and the writing, or at any moment.
Batch  == INSTANCE BatchMetadata WITH
  Rec <- Listed, Matches <- HitsOf, Stored <- FirstRows, Change <- ChangeOf,
  Patient <- TRUE, Quiet <- TRUE, db <- table, screen <- list
Busy   == INSTANCE BatchMetadata WITH
  Rec <- Listed, Matches <- HitsOf, Stored <- FirstRows, Change <- ChangeOf,
  Patient <- TRUE, Quiet <- FALSE, MaxChanges <- BusyChanges,
  MaxRuns <- BusyRuns, db <- table, screen <- list

ASSUME ScreensAssumption ==
  /\ Pages!MobileNavigationAssumption /\ Views!SavedViewsAssumption
  /\ Query!WatchlistQueryAssumption /\ Batch!BatchAssumption /\ Busy!BatchAssumption

PagesVars == <<stack, pos, page, pops, entered, forms, saves, deletes, alive, asked>>
ViewsVars == <<stored, storedStartup, views, startup, loaded, cond, active, writes,
  used, told, wish, edited>>
QueryVars == <<lib, query, raw, typed>>
BatchVars == <<table, list, remembered, phase, todo, draft, plan, choosing, queue,
  writing, failed, reload, changes, runs>>

\* A component that does not run has no state.
NoEditing == surface = None /\ calls = <<>> /\ answers = <<>> /\ merged = FALSE /\ db = None /\ screen = None /\
  gone = None /\ form = None /\ confirmed = None
NoPages == stack = None /\ pos = None /\ page = None /\ pops = None /\ entered = None /\
  forms = None /\ saves = None /\ deletes = None /\ alive = None /\ asked = None
NoViews == stored = None /\ storedStartup = None /\ views = None /\ startup = None /\
  loaded = None /\ cond = None /\ active = None /\ writes = None /\ used = None /\
  told = None /\ wish = None /\ edited = None
NoQuery == lib = None /\ query = None /\ raw = None /\ typed = None
NoBatch == table = None /\ list = None /\ remembered = None /\ phase = None /\
  todo = None /\ draft = None /\ plan = None /\ choosing = None /\ queue = None /\
  writing = None /\ failed = None /\ reload = None /\ changes = None /\ runs = None

\* The bound on the records of the mobile screens.
OnMobile == \A i \in Id \ MobileId : db[i] = None

AllInit ==
  \/ part = "desktop"    /\ Init /\ surface = "desktop" /\ NoPages /\ NoViews /\ NoQuery /\ NoBatch
  \/ part = "mobile"     /\ Init /\ surface = "mobile" /\ OnMobile /\ NoPages /\ NoViews /\ NoQuery /\ NoBatch
  \/ part = "pages"      /\ Pages!Init /\ NoEditing /\ NoViews /\ NoQuery /\ NoBatch
  \/ part = "views"      /\ Views!Init /\ NoEditing /\ NoPages /\ NoQuery /\ NoBatch
  \/ part = "query"      /\ Query!Init /\ NoEditing /\ NoPages /\ NoViews /\ NoBatch
  \/ part = "batch"      /\ Batch!Init /\ NoEditing /\ NoPages /\ NoViews /\ NoQuery
  \/ part = "busy batch" /\ Busy!Init /\ NoEditing /\ NoPages /\ NoViews /\ NoQuery

AllNext ==
  \/ part = "desktop"    /\ Next /\ UNCHANGED <<part, PagesVars, ViewsVars, QueryVars, BatchVars>>
  \/ part = "mobile"     /\ Next /\ OnMobile' /\ UNCHANGED <<part, PagesVars, ViewsVars, QueryVars, BatchVars>>
  \/ part = "pages"      /\ Pages!Next /\ UNCHANGED <<part, vars, ViewsVars, QueryVars, BatchVars>>
  \/ part = "views"      /\ Views!Next /\ UNCHANGED <<part, vars, PagesVars, QueryVars, BatchVars>>
  \/ part = "query"      /\ Query!Next /\ UNCHANGED <<part, vars, PagesVars, ViewsVars, BatchVars>>
  \/ part = "batch"      /\ Batch!Next /\ UNCHANGED <<part, vars, PagesVars, ViewsVars, QueryVars>>
  \/ part = "busy batch" /\ Busy!Next /\ UNCHANGED <<part, vars, PagesVars, ViewsVars, QueryVars>>

allVars == <<part, vars, PagesVars, ViewsVars, QueryVars, BatchVars>>
AllSpec == AllInit /\ [][AllNext]_allVars
------------------------------------------------------------------------------
\* Each component's state has its types.
StatesAreTyped ==
  /\ part \in {"desktop", "mobile"} => TypeOK
  /\ part = "pages" => Pages!TypeOK
  /\ part = "views" => Views!TypeOK
  /\ part = "query" => Query!TypeOK
  /\ part = "batch" => Batch!TypeOK
  /\ part = "busy batch" => Busy!TypeOK

\* The page is the entry of the history it claims to be, so that going back
\* goes where the user came from (useMobileNavigation: state and location are
\* written separately).
PageIsTheEntry == part = "pages" => Pages!PageIsTheEntry

\* What the user has been told of a saved view stays so, whatever writes fail
\* and however the answers overtake each other (useSavedWatchlistViews.ts, persist).
AnswersAreKept == part = "views" => Views!AnswersAreKept

\* The number beside an option is the number of records it selects, and a
\* selected region keeps the button that takes it back, also when no record
\* offers it any more (watchlistQuery.ts, aggregate; App.tsx, regionOptions).
OptionsTellTheTruth == part = "query" => Query!CountsAreMatches /\ Query!SelectedKeepsItsButton

\* A card action of the mobile surface writes over the content that was shown
\* (useMobileRecordRepository.ts).
CardActionsSaw == [][part = "mobile" => WritesOverWhatItSaw]_allVars

\* The batch, while nothing else writes, writes over missing fields of unlocked
\* records only; and whatever others write, it gives no entity to two records
\* (useBatchMetadata.ts, apply).
WritesWhatItChecked ==
  [][/\ part = "batch" => Batch!WritesMissing
     /\ part = "busy batch" => Busy!IdentityOnceStep]_allVars
==============================================================================
