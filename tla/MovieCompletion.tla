--------------------------- MODULE MovieCompletion ----------------------------
(***************************************************************************)
(* Completing a movie series from the collection centre: every part of the *)
(* TMDB collection is compared with the records of the library by its TMDB *)
(* id and its IMDb id (movieCollectionIdentity.ts), and the chosen parts   *)
(* are reused or created by complete_movie_collection (collections.rs).    *)
(* One collection stays selected; SeriesCompletion has the selection.      *)
(***************************************************************************)
EXTENDS Integers, FiniteSets, FiniteSetsExt

CONSTANTS
  Movie,     \* TMDB ids of movies, numbers in the order of their collection
  Belongs,   \* movie -> the TMDB collection it belongs to, or None
  Imdb,      \* movie -> its IMDb id, or None
  Released,  \* the movies released by today
  Rec,       \* record ids, a set of numbers
  Stored,    \* identities that records have at the start and get by a change
  MaxSteps,  \* bound: changes from elsewhere and look-ups begun
  None

Partial(S, T) == UNION {[X -> T] : X \in SUBSET S}

\* The identity of a record, and what a look-up and a completion under way
\* have closed over.
ImdbId == {Imdb[m] : m \in Movie} \cup {x.imdb : x \in Stored}
Identity == [tmdb : Movie \cup {None}, imdb : ImdbId \cup {None}, kind : {"movie", "tv", None},
             film : BOOLEAN, locked : BOOLEAN, rev : Nat]
Inspection == [bound : BOOLEAN, lib : [Rec -> Identity \cup {None}], recs : SUBSET Rec]
Completion == [rev : Nat, fill : BOOLEAN, new : SUBSET Movie,
               revs : Partial(Rec, Nat), match : Partial(Rec, Movie)]

MovieAssumption ==
  /\ Stored \subseteq Identity /\ None \notin Identity \cup Inspection \cup Completion
  /\ Movie \subseteq Nat \ {0} /\ Released \subseteq Movie /\ Rec \subseteq Nat /\ MaxSteps \in Nat
  /\ \A m, n \in Movie : m # n /\ Imdb[m] # None => Imdb[m] # Imdb[n]

VARIABLES
  lib,        \* the records: tmdb, imdb, kind (tmdbMediaKind), film (mediaType), locked, rev
  recs,       \* members of the collection
  rev,        \* revision of the collection
  source,     \* TMDB collection it is bound to, or None
  busy,
  inspecting, \* the look-up in flight, with the records and members of its start
  candidates, \* movieCandidates: part -> status and record; no part without a dialog
  chosen,     \* selectedMovieIds
  creating,   \* the completion in flight
  made,       \* history: the records that completion created, and their movie
  clean,      \* history: no record changed since the candidates were found
  outcome,    \* history: how the last completion ended, until the next look-up
  steps

vars == <<lib, recs, rev, source, busy, inspecting, candidates, chosen, creating, made, clean, outcome, steps>>
page == <<busy, inspecting, candidates, chosen, creating>>

Live == {r \in Rec : lib[r] # None}
Parts == {m \in Movie : source # None /\ Belongs[m] = source}
NoCandidates == [m \in {} |-> None]
Open == candidates # NoCandidates
OfStatus(S) == {m \in DOMAIN candidates : candidates[m].status \in S}
Selectable == OfStatus({"library", "missing"})

Init ==
  /\ lib \in {f \in [Rec -> {None} \cup Stored] : \A r \in Rec : r > 2 => f[r] = None}
  /\ recs \in SUBSET Live
  /\ rev = 1 /\ source = None
  /\ busy = FALSE /\ inspecting = None /\ candidates = NoCandidates /\ chosen = {}
  /\ creating = None /\ made = {} /\ clean = TRUE /\ outcome = None /\ steps = 0

Step == steps < MaxSteps /\ steps' = steps + 1

-----------------------------------------------------------------------------
(* Another window or a sync commit changes, adds or removes a record.      *)
Change(r, x) ==
  /\ Step /\ lib[r] # x
  /\ lib' = [lib EXCEPT ![r] = IF x = None \/ @ = None THEN x ELSE [x EXCEPT !.rev = lib[r].rev + 1]]
  /\ recs' = IF x = None THEN recs \ {r} ELSE recs
  /\ clean' = FALSE /\ made' = {p \in made : p[1] # r}
  /\ UNCHANGED <<rev, source, page, outcome>>

(* inspectMissingMovies; without a source it asks TMDB for the collection  *)
(* of every member first.                                                  *)
Inspect ==
  /\ ~busy /\ Step /\ busy' = TRUE
  /\ inspecting' = [bound |-> source # None, lib |-> lib, recs |-> recs]
  /\ UNCHANGED <<lib, recs, rev, source, candidates, chosen, creating, made, clean, outcome>>

MemberMovies == {inspecting.lib[r].tmdb : r \in {q \in inspecting.recs : inspecting.lib[q].kind = "movie"}} \ {None}

AnswerMembers(answered) ==
  LET found == {Belongs[m] : m \in answered} \ {None}
  IN  /\ inspecting # None /\ ~inspecting.bound /\ answered \subseteq MemberMovies
      /\ IF Cardinality(found) = 1
         THEN /\ source' \in found /\ rev' = rev + 1
              /\ inspecting' = [inspecting EXCEPT !.bound = TRUE] /\ UNCHANGED busy
         ELSE inspecting' = None /\ busy' = FALSE /\ UNCHANGED <<source, rev>>
      /\ UNCHANGED <<lib, recs, candidates, chosen, creating, made, clean, outcome, steps>>

(* classifyMovieCollectionPart                                             *)
Classify(m, L, members) ==
  LET ids == {r \in Rec : /\ L[r] # None
                          /\ \/ L[r].kind = "movie" /\ L[r].tmdb = m
                             \/ Imdb[m] # None /\ L[r].imdb = Imdb[m]}
  IN  IF Cardinality(ids) > 1 \/ \E r \in ids : L[r].kind = "tv"
        THEN [status |-> "conflict", rec |-> None]
      ELSE IF ids = {} THEN [status |-> "missing", rec |-> None]
      ELSE [status |-> IF ids \subseteq members THEN "member" ELSE "library", rec |-> CHOOSE r \in ids : TRUE]

(* A part whose details TMDB does not send stays unresolved.               *)
AnswerParts(answered) ==
  /\ inspecting # None /\ inspecting.bound /\ answered \subseteq Parts
  /\ candidates' = [m \in Parts |-> IF m \in answered THEN Classify(m, inspecting.lib, inspecting.recs)
                                    ELSE [status |-> "unresolved", rec |-> None]]
  /\ chosen' = {m \in Released \cap Parts : candidates'[m].status \in {"library", "missing"}}
  /\ clean' = (lib = inspecting.lib /\ recs = inspecting.recs)
  /\ outcome' = None /\ inspecting' = None /\ busy' = FALSE
  /\ UNCHANGED <<lib, recs, rev, source, creating, made, steps>>

Fail ==
  /\ inspecting # None /\ inspecting' = None /\ busy' = FALSE
  /\ UNCHANGED <<lib, recs, rev, source, candidates, chosen, creating, made, clean, outcome, steps>>

Toggle(m) ==
  /\ m \in Selectable /\ chosen' = SymDiff(chosen, {m})
  /\ UNCHANGED <<lib, recs, rev, source, busy, inspecting, candidates, creating, made, clean, outcome, steps>>

CloseDialog ==
  /\ Open /\ candidates' = NoCandidates /\ chosen' = {}
  /\ UNCHANGED <<lib, recs, rev, source, busy, inspecting, creating, made, clean, outcome, steps>>

(* createSelectedMovies: the members among the parts are sent as matches,  *)
(* too; of two parts with one record the last one is.  fill is the check   *)
(* box fillMissingMovieIdentity.                                           *)
Create(fill) ==
  LET matched == OfStatus({"member"}) \cup (chosen \cap OfStatus({"library"}))
      found == {candidates[m].rec : m \in matched} \cap Live
      parts(r) == {m \in matched : candidates[m].rec = r}
  IN  /\ Open /\ ~busy /\ chosen # {} /\ busy' = TRUE
      /\ \E last \in [found -> matched] :
           /\ \A r \in found : last[r] \in parts(r) /\ \A m \in parts(r) : m <= last[r]
           /\ creating' = [rev |-> rev, fill |-> fill, new |-> chosen \cap OfStatus({"missing"}),
                           revs |-> [r \in found |-> lib[r].rev], match |-> last]
      /\ Cardinality(creating'.new) <= Cardinality(Rec \ Live)
      /\ UNCHANGED <<lib, recs, rev, source, inspecting, candidates, chosen, made, clean, outcome, steps>>

-----------------------------------------------------------------------------
(* complete_movie_collection                                               *)

Matching(m) ==
  {r \in Live : \/ (lib[r].kind = "movie" \/ lib[r].film) /\ lib[r].tmdb = m
                \/ Imdb[m] # None /\ lib[r].imdb = Imdb[m]}

Foreign(x, m) == x.kind = "tv" \/ x.tmdb \notin {None, m} \/ x.imdb \notin {None, Imdb[m]}

Stale == rev # creating.rev \/ \E r \in DOMAIN creating.revs : lib[r] = None \/ lib[r].rev # creating.revs[r]
Conflict ==
  \/ \E r \in DOMAIN creating.match :
       LET m == creating.match[r] IN lib[r] # None /\ (Foreign(lib[r], m) \/ Matching(m) \ {r} # {})
  \/ \E m \in creating.new : Cardinality(Matching(m)) > 1 \/ \E r \in Matching(m) : Foreign(lib[r], m)

Filled(x, m) ==
  IF creating.fill /\ ~x.locked /\ (x.tmdb = None \/ x.kind = None)
  THEN [tmdb |-> IF x.tmdb = None THEN m ELSE x.tmdb, imdb |-> x.imdb,
        kind |-> IF x.kind = None THEN "movie" ELSE x.kind,
        film |-> x.film, locked |-> x.locked, rev |-> x.rev + 1]
  ELSE x

NewRecord(m) == [tmdb |-> m, imdb |-> Imdb[m], kind |-> "movie", film |-> TRUE, locked |-> FALSE, rev |-> 1]

Complete ==
  LET known == {m \in creating.new : Matching(m) # {}}
      reused == [r \in UNION {Matching(m) : m \in known} |-> CHOOSE m \in known : r \in Matching(m)]
      filled == [r \in DOMAIN creating.match \cup DOMAIN reused |->
                   IF r \in DOMAIN creating.match THEN creating.match[r] ELSE reused[r]]
  IN  \E at \in Injection(creating.new \ known, Rec \ Live) :
        LET added == [r \in {at[m] : m \in DOMAIN at} |-> CHOOSE m \in DOMAIN at : at[m] = r]
            joined == recs \cup DOMAIN filled \cup DOMAIN added
        IN  /\ lib' = [r \in Rec |-> IF r \in DOMAIN added THEN NewRecord(added[r])
                                     ELSE IF r \in DOMAIN filled THEN Filled(lib[r], filled[r]) ELSE lib[r]]
            /\ recs' = joined /\ rev' = IF joined = recs THEN rev ELSE rev + 1
            /\ made' = made \cup {<<r, added[r]>> : r \in DOMAIN added}

RunComplete ==
  /\ creating # None /\ creating' = None /\ busy' = FALSE
  /\ IF Stale \/ Conflict
     THEN /\ outcome' = IF Conflict /\ ~Stale THEN "conflict" ELSE "stale"
          /\ UNCHANGED <<lib, recs, rev, made, candidates, chosen>>
     ELSE Complete /\ outcome' = "done" /\ candidates' = NoCandidates /\ chosen' = {}
  /\ UNCHANGED <<source, inspecting, clean, steps>>

Next ==
  \/ \E r \in Rec, x \in {None} \cup Stored : Change(r, x)
  \/ Inspect \/ Fail \/ CloseDialog \/ RunComplete
  \/ \E answered \in SUBSET Movie : AnswerMembers(answered) \/ AnswerParts(answered)
  \/ \E m \in Movie : Toggle(m)
  \/ \E fill \in BOOLEAN : Create(fill)

Spec == Init /\ [][Next]_vars
-----------------------------------------------------------------------------
TypeOK ==
  /\ lib \in [Rec -> Identity \cup {None}] /\ recs \subseteq Live /\ rev \in Nat
  /\ inspecting \in Inspection \cup {None}
  /\ creating # None => /\ creating.rev \in Nat /\ creating.fill \in BOOLEAN /\ creating.new \subseteq Movie
                        /\ DOMAIN creating.match = DOMAIN creating.revs /\ DOMAIN creating.match \subseteq Rec
                        /\ \A r \in DOMAIN creating.match : creating.match[r] \in Movie /\ creating.revs[r] \in Nat
  /\ busy = (inspecting # None \/ creating # None)
  /\ inspecting = None \/ creating = None
  /\ DOMAIN candidates \subseteq Movie /\ chosen \subseteq Selectable
  /\ \A m \in OfStatus({"member", "library"}) : candidates[m].rec \in Rec
  /\ \A p \in made : p[1] \in Live

(* Completing a collection creates no record of a movie that some record   *)
(* of the library already is, by either of its ids.                        *)
MovieOnceStep ==
  \A p \in made' \ made : \A q \in Live' \ {p[1]} :
    /\ lib'[q].kind = "movie" => lib'[q].tmdb # p[2]
    /\ Imdb[p[2]] # None => lib'[q].imdb # Imdb[p[2]]
MovieOnce == [][MovieOnceStep]_vars

(* It fills in what an identity lacks: nothing that a record has is        *)
(* overwritten, and no locked record changes.                              *)
IdentityIsOnlyFilledStep ==
  (creating # None /\ creating' = None) =>
    \A r \in Live : /\ lib[r].locked => lib'[r] = lib[r]
                    /\ lib[r].tmdb # None => lib'[r].tmdb = lib[r].tmdb
                    /\ lib[r].kind # None => lib'[r].kind = lib[r].kind
                    /\ lib'[r].imdb = lib[r].imdb
IdentityIsOnlyFilled == [][IdentityIsOnlyFilledStep]_vars

(* What the dialog offers to add can be added while no record changes.     *)
OfferedIsAccepted == outcome = "conflict" => ~clean

(* A collection is bound when all its members belong to one TMDB           *)
(* collection.                                                             *)
BoundToTheOnlyOne ==
  [][(source = None /\ source' # None) => \A m \in MemberMovies : Belongs[m] \in {None, source'}]_vars
=============================================================================
