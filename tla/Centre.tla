------------------------------- MODULE Centre --------------------------------
(* The collection centre: its commands and the memberships of the record    *)
(* form (CollectionCenter, extended here), the search for collections, and  *)
(* the completion of series and of movie collections. They share no state   *)
(* here, so one of them runs, whichever the initial state says, and every   *)
(* property is about that one.                                              *)
EXTENDS CollectionCenter

CONSTANTS
  Found, Datas, ImdbSeeds, SourceParts, Titles,   \* what TMDB knows, for CollectionScan
  Workers, MaxDecisions,
  TvShows, AllSeasons, AiredSeasons, SeriesRec,     \* SeriesCompletion
  SeriesKinds, MaxChanges,
  Movie, Belonging, ImdbIds, Out, MovieRec,       \* MovieCompletion
  Identities, MaxEdits

VARIABLES
  part,   \* the component that runs
  coll, stored, dismissals, loaded, suggestions, ambiguities, scan,
  writes, declined, confirmed, decisions,   \* CollectionScan
  seasons, groups, group, completing, inspecting, choices, detail,
  chosen, creating, made, offered, changes,   \* SeriesCompletion
  movies, recs, rev, source, binding, looking, candidates, picked,
  filing, filed, clean, outcome, edits   \* MovieCompletion

\* Nothing is under way in the centre while another component runs.
NoCenter == ops = <<>> /\ db = None /\ used = None /\ shown = None /\ page = None /\ selected = None /\ form = None /\ back = None /\
  busy = None /\ saving = None /\ notice = None /\ outside = None /\ steps = None

Scan   == INSTANCE CollectionScan WITH
  Rec <- Found, Data <- Datas, Seeds <- ImdbSeeds, Parts <- SourceParts,
  Title <- Titles, Patient <- TRUE, ReadFails <- FALSE,
  MaxSteps <- MaxDecisions, steps <- decisions
\* A hasty user has no universes, a patient one every kind of collection.
Hasty  == INSTANCE SeriesCompletion WITH
  TvShow <- TvShows, Listed <- AllSeasons, Aired <- AiredSeasons, Rec <- SeriesRec,
  Kinds <- SeriesKinds, Patient <- FALSE, MaxSteps <- MaxChanges, lib <- seasons,
  coll <- groups, selected <- group, busy <- completing, steps <- changes
Series == INSTANCE SeriesCompletion WITH
  TvShow <- TvShows, Listed <- AllSeasons, Aired <- AiredSeasons, Rec <- SeriesRec,
  Kinds <- SeriesKinds \cup {"universe"}, Patient <- TRUE, MaxSteps <- MaxChanges, lib <- seasons,
  coll <- groups, selected <- group, busy <- completing, steps <- changes
Movies == INSTANCE MovieCompletion WITH
  Belongs <- Belonging, Imdb <- ImdbIds, Released <- Out, Rec <- MovieRec,
  Stored <- Identities, MaxSteps <- MaxEdits, lib <- movies, busy <- binding,
  inspecting <- looking, chosen <- picked, creating <- filing, made <- filed,
  steps <- edits

ASSUME CentreAssumption == Scan!ScanAssumption /\ Hasty!SeriesAssumption /\
  Series!SeriesAssumption /\ Movies!MovieAssumption /\ SeriesKinds \subseteq {"manual", "tv-series"}

ScanVars == <<coll, stored, dismissals, loaded, suggestions, ambiguities, scan,
  writes, declined, confirmed, decisions>>
SeriesVars == <<seasons, groups, group, completing, inspecting, choices, detail,
  chosen, creating, made, offered, changes>>
MoviesVars == <<movies, recs, rev, source, binding, looking, candidates, picked,
  filing, filed, clean, outcome, edits>>

\* A component that does not run has no state.
NoScan == coll = None /\ stored = None /\ dismissals = None /\ loaded = None /\
  suggestions = None /\ ambiguities = None /\ scan = None /\ writes = None /\
  declined = None /\ confirmed = None /\ decisions = None
NoSeries == seasons = None /\ groups = None /\ group = None /\ completing = None /\
  inspecting = None /\ choices = None /\ detail = None /\ chosen = None /\
  creating = None /\ made = None /\ offered = None /\ changes = None
NoMovies == movies = None /\ recs = None /\ rev = None /\ source = None /\
  binding = None /\ looking = None /\ candidates = None /\ picked = None /\
  filing = None /\ filed = None /\ clean = None /\ outcome = None /\ edits = None

AllInit ==
  \/ part = "centre"       /\ Init /\ NoScan /\ NoSeries /\ NoMovies
  \/ part = "scan"         /\ Scan!Init /\ NoCenter /\ NoSeries /\ NoMovies
  \/ part = "hasty series" /\ Hasty!Init /\ NoCenter /\ NoScan /\ NoMovies
  \/ part = "series"       /\ Series!Init /\ NoCenter /\ NoScan /\ NoMovies
  \/ part = "movies"       /\ Movies!Init /\ NoCenter /\ NoScan /\ NoSeries

AllNext ==
  \/ part = "centre"       /\ Next /\ UNCHANGED <<part, ScanVars, SeriesVars, MoviesVars>>
  \/ part = "scan"         /\ Scan!Next /\ UNCHANGED <<part, vars, SeriesVars, MoviesVars>>
  \/ part = "hasty series" /\ Hasty!Next /\ UNCHANGED <<part, vars, ScanVars, MoviesVars>>
  \/ part = "series"       /\ Series!Next /\ UNCHANGED <<part, vars, ScanVars, MoviesVars>>
  \/ part = "movies"       /\ Movies!Next /\ UNCHANGED <<part, vars, ScanVars, SeriesVars>>

allVars == <<part, vars, ScanVars, SeriesVars, MoviesVars>>
AllSpec == AllInit /\ [][AllNext]_allVars
------------------------------------------------------------------------------
\* Each component's state has its types.
StatesAreTyped ==
  /\ part = "centre" => TypeOK
  /\ part = "scan" => Scan!TypeOK
  /\ part = "hasty series" => Hasty!TypeOK
  /\ part = "series" => Series!TypeOK
  /\ part = "movies" => Movies!TypeOK

\* No record is wanted by two results of a scan, and no result comes from a
\* source the user dismissed (CollectionCenter.tsx, scan and reconcile).
SuggestionsAreSound ==
  part = "scan" => Scan!RecordSuggestedOnce /\ Scan!DismissedIsNotSuggested

\* Seasons go to a universe or to the collection bound to their show, while
\* the user waits for the look-up (CollectionCenter.tsx, inspectSeries).
SeasonsGoToTheirSeries == part = "series" => Series!SeasonsGoToTheirSeries

\* Completing a collection adds nothing twice: no season where it is already,
\* however hasty the user, and no record of a movie that is in the library
\* (collections.rs, create_season_records and create_movie_records).
CompletionAddsOnce ==
  [][/\ part = "hasty series" => Hasty!AddsOnce
     /\ part = "movies" => Movies!MovieOnceStep]_allVars
==============================================================================
