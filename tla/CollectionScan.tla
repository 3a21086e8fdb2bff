---------------------------- MODULE CollectionScan ----------------------------
(***************************************************************************)
(* Discovery in the collection centre (CollectionCenter.tsx with           *)
(* collectionSuggestionPolicy.ts, collectionCandidateEligibility.ts and    *)
(* seriesDiscovery.ts): a scan asks TMDB about the records of the library, *)
(* several at a time, while the user goes on applying, confirming and      *)
(* dismissing suggestions; dismissals are kept in one setting.             *)
(***************************************************************************)
EXTENDS Integers, FiniteSets, Sequences

CONSTANTS
  Rec,        \* records, as in Data[r]: parent (a show's id), imdb, title, season, movie (an id)
  Data,
  Seeds,      \* imdb id -> what TMDB finds for it: kind, id, and the source it belongs to
  Parts,      \* source -> seasons aired or movies released, None when TMDB does not list them
  Title,      \* source -> its name in TMDB
  Cid,        \* collection ids
  Workers,    \* records asked for at a time
  Patient,    \* the user waits for a scan and for a write to end before the next choice
  ReadFails,  \* reading the dismissals may fail
  MaxSteps,   \* bound: scans, decisions and edits by hand together
  None

Imdbs == {Data[r].imdb : r \in Rec} \ {None}

Key(kind, id) == [kind |-> kind, id |-> id]

\* What a suggestion may be named for: a show or a collection of movies in
\* TMDB, or the IMDb id or title that records share.
Keys == DOMAIN Parts \cup {Key("local", x) : x \in Imdbs \cup {Data[r].title : r \in Rec}}

ScanAssumption ==
  /\ \A r \in Rec : Data[r].parent # None => Key("tv", Data[r].parent) \in DOMAIN Parts
  /\ \A i \in Imdbs : /\ IsFiniteSet(Seeds[i])
                      /\ \A s \in Seeds[i] : s.source # None => Key(s.kind, s.source) \in DOMAIN Parts
  /\ Workers \in Nat \ {0} /\ Patient \in BOOLEAN /\ ReadFails \in BOOLEAN /\ MaxSteps \in Nat
  /\ \A i \in Imdbs : \A s \in Seeds[i] : s.kind \in {"tv", "movie"}

VARIABLES
  coll,         \* the collections: None or name, source and records
  stored,       \* the setting collection_suggestion_dismissals_v1
  dismissals,   \* the page's copy of it
  loaded,       \* dismissalsLoaded
  suggestions,
  ambiguities,  \* scanAmbiguities
  scan,         \* the running scan and what it closed over, or Idle
  writes,       \* settings being written, in order
  declined,     \* history: the groups the user dismissed and did not restore
  confirmed,    \* history: the matches the user confirmed since the last scan began
  steps

vars == <<coll, stored, dismissals, loaded, suggestions, ambiguities, scan, writes,
          declined, confirmed, steps>>
setting == <<stored, dismissals, loaded, writes, declined>>

Item(key, recs, target, binding) ==
  [key |-> key, recs |-> recs, target |-> target, binding |-> binding]
Idle == [stage |-> "idle"]

Init ==
  /\ coll = [c \in Cid |-> None]
  /\ stored \in SUBSET {Key("tv", Data[r].parent) : r \in {x \in Rec : Data[x].parent # None}}
  /\ dismissals = {} /\ loaded = FALSE /\ suggestions = {} /\ ambiguities = {}
  /\ scan = Idle /\ writes = <<>> /\ declined = {} /\ confirmed = {} /\ steps = 0

Step == steps < MaxSteps /\ steps' = steps + 1
Quiet == Patient => scan = Idle /\ writes = <<>>

-----------------------------------------------------------------------------
(* locallyKnownSeries: records whose title names a season, by show, by     *)
(* IMDb id or by title; the last two only from two records on.             *)
GroupKey(r) == IF Data[r].parent # None THEN Key("tv", Data[r].parent)
               ELSE Key("local", IF Data[r].imdb # None THEN Data[r].imdb ELSE Data[r].title)

LocalGroups ==
  LET seasoned == {r \in Rec : Data[r].season # None}
      of(k) == {r \in seasoned : GroupKey(r) = k}
  IN  [k \in {x \in {GroupKey(r) : r \in seasoned} : x.kind = "tv" \/ Cardinality(of(x)) > 1} |-> of(k)]

NameOf(item) == IF item.key.kind # "local" THEN Title[item.key]
                ELSE Data[CHOOSE r \in item.recs : TRUE].title

(* suggestionIsCovered                                                     *)
Covered(recs, cs) ==
  \E c \in Cid : cs[c] # None /\ recs \subseteq cs[c].recs

(* The records byImdb asks TMDB about.                                     *)
Matching(i) == {r \in Rec : Data[r].imdb = i /\ Data[r].parent = None}

(* tvSuggestionEligibility, movieCollectionCandidateEligibility            *)
Eligibility(key, recs) ==
  LET related == {r \in Rec : Data[r].parent = key.id} \cup recs
      seasons == {Data[r].season : r \in related}
      unknown == Parts[key] = None \/ (key.kind = "tv" /\ Parts[key] = {})
      complete == IF key.kind = "movie" THEN Cardinality(Parts[key]) < 2
                  ELSE \/ Cardinality(Parts[key]) = 1
                       \/ Parts[key] \subseteq seasons /\ Cardinality(recs) <= 1
  IN  IF unknown THEN "unknown" ELSE IF complete THEN "complete" ELSE "actionable"

Conflicts(seed, recs) ==
  \E r \in recs : Data[r].movie # None /\ (seed.kind = "tv" \/ Data[r].movie # seed.id)

Qualifies(seed, i) ==
  /\ ~Conflicts(seed, Matching(i)) /\ seed.source # None
  /\ Key(seed.kind, seed.source) \notin scan.dismissed
  /\ Eligibility(Key(seed.kind, seed.source), Matching(i)) = "actionable"

(* reconcileSuggestion: the collection that a suggestion belongs to.       *)
BelongsTo(item, c, cs) ==
  LET parents == {Data[r].parent : r \in cs[c].recs} \ {None} IN
  \/ cs[c].source = item.key
  \/ item.key.kind = "tv" /\ parents = {item.key.id}
  \/ item.recs \cap cs[c].recs # {} /\ cs[c].name = NameOf(item)

Reconcile(item, cs) ==
  LET homes == {c \in Cid : cs[c] # None /\ BelongsTo(item, c, cs)}
      home  == CHOOSE c \in homes : TRUE
      rest  == item.recs \ cs[home].recs
      binds == item.key.kind # "local" /\ cs[home].source # item.key
  IN  IF Covered(item.recs, cs) THEN None
      ELSE IF homes = {} THEN item
      ELSE IF rest = {} /\ ~binds THEN None
      ELSE Item(item.key, rest, home, binds)

-----------------------------------------------------------------------------
(* scanSuggestions closes over the records, the memberships and the        *)
(* dismissals of its render; a page that has not read the dismissals yet   *)
(* reads them first.                                                       *)
StartScan(read) ==
  /\ scan = Idle /\ Quiet /\ Step
  /\ read \in (IF loaded THEN {dismissals} ELSE {stored} \cup (IF ReadFails THEN {dismissals} ELSE {}))
  /\ dismissals' = read /\ loaded' = (loaded \/ read = stored)
  /\ scan' = [stage |-> "search", dismissed |-> read, coll |-> coll, groups |-> LocalGroups,
              todo |-> {i \in Imdbs : Matching(i) # {}}, asked |-> {}, cancel |-> FALSE]
  /\ ambiguities' = {} /\ confirmed' = {}
  /\ UNCHANGED <<coll, stored, writes, declined, suggestions>>

Scanning(stage) == scan.stage = stage
Within == UNCHANGED <<coll, setting, suggestions, confirmed, steps>>

\* How far the search has come.
Search(cancel, todo, asked, groups) ==
  scan' = [stage |-> "search", dismissed |-> scan.dismissed, coll |-> scan.coll,
           groups |-> groups, todo |-> todo, asked |-> asked, cancel |-> cancel]

Without(f, k) == [x \in DOMAIN f \ {k} |-> f[x]]
Joined(f, k, recs) ==
  [x \in DOMAIN f \cup {k} |-> (IF x = k THEN recs ELSE {}) \cup (IF x \in DOMAIN f THEN f[x] ELSE {})]

PickEntry(i) ==
  /\ ~scan.cancel /\ i \in scan.todo /\ Cardinality(scan.asked) < Workers
  /\ IF Covered(Matching(i), scan.coll)
     THEN Search(FALSE, scan.todo \ {i}, scan.asked, Without(scan.groups, Key("local", i)))
     ELSE Search(FALSE, scan.todo \ {i}, scan.asked \cup {i}, scan.groups)
  /\ Within /\ UNCHANGED ambiguities

(* TMDB has answered for some of the seeds; what failed is only counted.   *)
(* Beside the groups that are left there is the one the answer belongs to. *)
Choices(i, answered) == {s \in answered : Qualifies(s, i)}

Answer(i, choices, left) ==
  /\ i \in scan.asked
  /\ Search(scan.cancel, scan.todo, scan.asked \ {i},
            IF Cardinality(choices) # 1 THEN left
            ELSE LET s == CHOOSE s \in choices : TRUE
                 IN  Joined(left, Key(s.kind, s.source), Matching(i)))
  /\ ambiguities' = IF Cardinality(choices) < 2 THEN ambiguities
                    ELSE ambiguities \cup {[imdb |-> i, recs |-> Matching(i), choices |-> choices]}
  /\ Within

(* Deviation: the local group stays beside the group found in TMDB.        *)
AnswerEntryTwice(i, answered) == Answer(i, Choices(i, answered), scan.groups)
AnswerEntry(i, answered) ==
  LET choices == Choices(i, answered)
  IN  Answer(i, choices, IF choices = {} THEN scan.groups ELSE Without(scan.groups, Key("local", i)))

StopScan ==
  /\ ~scan.cancel /\ Search(TRUE, scan.todo, scan.asked, scan.groups)
  /\ Within /\ UNCHANGED ambiguities

Gather ==
  /\ Scanning("search") /\ scan.asked = {} /\ (scan.cancel \/ scan.todo = {})
  /\ scan' = [stage |-> "verify", dismissed |-> scan.dismissed,
       found |-> {Reconcile(Item(k, scan.groups[k], None, FALSE), scan.coll) :
                    k \in DOMAIN scan.groups \ scan.dismissed} \ {None}]
  /\ Within /\ UNCHANGED ambiguities

(* A show with one record is looked up once more; TMDB may not answer.     *)
Publish(answered) ==
  LET complete(item) == /\ item.key.kind = "tv" /\ Cardinality(item.recs) = 1
                        /\ item.key \in answered
                        /\ Eligibility(item.key, item.recs) = "complete"
  IN  /\ suggestions' = {item \in scan.found : ~complete(item)}
      /\ scan' = Idle
      /\ UNCHANGED <<coll, setting, ambiguities, confirmed, steps>>

Scan ==
  \/ /\ Scanning("search")
     /\ \/ \E i \in Imdbs : PickEntry(i) \/ \E S \in SUBSET Seeds[i] : AnswerEntry(i, S)
        \/ StopScan
  \/ Gather
  \/ Scanning("verify") /\ \E S \in SUBSET {item.key : item \in scan.found} : Publish(S)

-----------------------------------------------------------------------------
(* resolveScanAmbiguity                                                    *)
Resolve(a, seed) ==
  LET item == Reconcile(Item(Key(seed.kind, seed.source), a.recs, None, FALSE), coll)
      prior == {s \in suggestions : s.key = item.key}
  IN  /\ Quiet /\ Step
      /\ a \in ambiguities /\ seed \in a.choices
      /\ ambiguities' = {x \in ambiguities : x.imdb # a.imdb}
      /\ suggestions' = IF item = None THEN suggestions
                        ELSE IF prior = {} THEN suggestions \cup {item}
                        ELSE (suggestions \ prior) \cup
                               {Item(s.key, s.recs \cup item.recs, s.target, s.binding) : s \in prior}
      /\ confirmed' = IF item = None THEN confirmed
                      ELSE confirmed \cup {[key |-> item.key, recs |-> item.recs]}
      /\ UNCHANGED <<coll, setting, scan>>

(* useCollections.applySuggestion and apply_suggestion in collections.rs:  *)
(* the collection written, or None when the command is refused.            *)
Target(s) ==
  LET live == {c \in Cid : coll[c] # None}
      wanted == IF s.target \in live THEN {s.target} ELSE
                IF s.key.kind = "local" THEN {c \in live : coll[c].name = NameOf(s)}
                ELSE IF s.target = None THEN {c \in live : coll[c].source = s.key} ELSE {}
  IN  IF s.key.kind # "local" /\ \E c \in wanted : coll[c].source \notin {None, s.key} THEN None
      ELSE IF wanted # {} THEN CHOOSE c \in wanted : TRUE
      ELSE IF \E c \in live : coll[c].name = NameOf(s) THEN None
      ELSE IF live = Cid THEN None ELSE CHOOSE c \in Cid \ live : TRUE

Applied(s, c) ==
  LET source == IF s.key.kind = "local" THEN None ELSE s.key
      old == coll[c]
  IN  [coll EXCEPT ![c] =
         IF old = None THEN [name |-> NameOf(s), source |-> source, recs |-> s.recs]
         ELSE [old EXCEPT !.recs = @ \cup s.recs,
                          !.source = IF source = None THEN @ ELSE source]]

Apply(s) ==
  /\ Quiet /\ Step
  /\ s \in suggestions /\ Target(s) # None
  /\ coll' = Applied(s, Target(s))
  /\ suggestions' = {x \in suggestions : x.key # s.key}
  /\ confirmed' = {x \in confirmed : x.key # s.key}
  /\ UNCHANGED <<setting, ambiguities, scan>>

(* The user makes a collection by hand.                                    *)
CollectByHand(c, item) ==
  /\ Quiet /\ Step
  /\ coll[c] = None /\ \A o \in Cid : coll[o] # None => coll[o].name # item.name
  /\ coll' = [coll EXCEPT ![c] = item]
  /\ UNCHANGED <<setting, suggestions, ambiguities, scan, confirmed>>

-----------------------------------------------------------------------------
(* The dismissals: each decision writes the whole list, computed from the  *)
(* page's copy; the answer puts it on the page.  Settings are read and     *)
(* written in the order of the calls, the page's first read among them.    *)
Written(keys, gone, back, page) == [keys |-> keys, gone |-> gone, back |-> back, page |-> page]

Write(keys, gone, back) ==
  /\ Quiet /\ Step /\ Len(writes) < 2
  /\ writes' = Append(writes, Written(keys, gone, back, TRUE))
  /\ UNCHANGED <<coll, stored, dismissals, loaded, suggestions, ambiguities, scan, declined, confirmed>>

Dismiss(s) == s \in suggestions /\ Write(dismissals \cup {s.key}, {s}, {})
Restore(k) == k \in dismissals /\ Write(dismissals \ {k}, {}, {k})
RestoreAll == dismissals # {} /\ Write({}, {}, dismissals)

Answered == writes # <<>> /\ (Head(writes).page => loaded)

WriteDone ==
  LET w == Head(writes)
      keys == {s.key : s \in w.gone}
  IN  /\ Answered /\ writes' = Tail(writes)
      /\ stored' = w.keys
      /\ declined' = {d \in declined : d.key \notin w.back} \cup
                     {[key |-> s.key, recs |-> s.recs] : s \in w.gone}
      /\ IF w.page
         THEN /\ dismissals' = w.keys
              /\ suggestions' = {s \in suggestions : s.key \notin keys}
              /\ confirmed' = {x \in confirmed : x.key \notin keys}
         ELSE UNCHANGED <<dismissals, suggestions, confirmed>>
      /\ UNCHANGED <<coll, loaded, ambiguities, scan, steps>>

(* The setting could not be written: the page keeps what it has.           *)
WriteFailed ==
  /\ Answered /\ writes' = Tail(writes)
  /\ UNCHANGED <<coll, stored, dismissals, loaded, suggestions, ambiguities, scan,
                 declined, confirmed, steps>>

(* The effect that reads the setting when the centre is opened.            *)
ReadDismissals(fails) ==
  /\ ~loaded /\ (\A i \in DOMAIN writes : writes[i].page) /\ loaded' = TRUE
  /\ fails => ReadFails
  /\ dismissals' = IF fails THEN dismissals ELSE stored
  /\ UNCHANGED <<coll, stored, suggestions, ambiguities, scan, writes, declined, confirmed, steps>>

(* Closing and opening the centre again mounts it anew.                    *)
Reopen ==
  /\ loaded
  /\ dismissals' = {} /\ loaded' = FALSE /\ suggestions' = {} /\ ambiguities' = {} /\ scan' = Idle
  /\ confirmed' = {} /\ writes' = [i \in DOMAIN writes |-> Written(writes[i].keys, writes[i].gone, writes[i].back, FALSE)]
  /\ UNCHANGED <<coll, stored, declined, steps>>

-----------------------------------------------------------------------------
OnSuggestion == \E s \in suggestions : Apply(s) \/ Dismiss(s)

ByHand == [name : {Title[k] : k \in DOMAIN Title}, source : {None}, recs : SUBSET Rec]

Next ==
  \/ \E read \in {dismissals, stored} : StartScan(read)
  \/ Scan \/ OnSuggestion \/ RestoreAll \/ WriteDone \/ WriteFailed \/ Reopen
  \/ \E a \in ambiguities : \E seed \in a.choices : Resolve(a, seed)
  \/ \E k \in dismissals : Restore(k)
  \/ \E fails \in BOOLEAN : ReadDismissals(fails)
  \/ \E c \in Cid, item \in ByHand : CollectByHand(c, item)

Spec == Init /\ [][Next]_vars
-----------------------------------------------------------------------------
TypeOK ==
  /\ \A c \in Cid : coll[c] # None => coll[c].recs \subseteq Rec
  /\ stored \subseteq Keys /\ dismissals \subseteq Keys
  /\ loaded \in BOOLEAN /\ steps \in 0..MaxSteps
  /\ \A s \in suggestions : /\ s.key \in Keys /\ (s.recs # {} \/ s.binding)
                            /\ s.recs \subseteq Rec /\ s.target \in {None} \cup Cid
  /\ \A s, t \in suggestions : s.key = t.key => s = t
  /\ \A a \in ambiguities : a.recs = Matching(a.imdb) /\ Cardinality(a.choices) > 1
  /\ Scanning("search") => scan.asked \subseteq Imdbs /\ Cardinality(scan.asked) <= Workers

(* A source the user dismissed is not suggested by a later scan, unless    *)
(* the user chose it for a record that fits several.                       *)
DismissedIsNotSuggested ==
  scan = Idle => \A s \in suggestions : s.key \in dismissals => \E x \in confirmed : x.key = s.key

(* A record is suggested, or asked about, once: once a scan has ended no   *)
(* two of its results want the same record.                                *)
RecordSuggestedOnce ==
  scan = Idle =>
    /\ \A s, t \in suggestions : s # t => s.recs \cap t.recs = {}
    /\ \A a \in ambiguities, s \in suggestions : a.recs \cap s.recs = {}

(* What the user dismissed stays in the setting until the user restores it.*)
DismissalsAreKeptStep ==
  \A k \in stored \ stored' : k \in Head(writes).back
DismissalsAreKept == [][DismissalsAreKeptStep]_vars

(* The group of records the user dismissed is not suggested again.         *)
DismissedGroupStaysAway ==
  \A s \in suggestions, d \in declined : s.recs # d.recs \/ s.key = d.key

(* A match the user confirmed is among the suggestions, until it is        *)
(* applied or dismissed.                                                   *)
ConfirmedIsSuggested ==
  \A x \in confirmed : \E s \in suggestions : s.key = x.key /\ x.recs \subseteq s.recs

(* What a scan reports as actionable can be applied when it is reported.   *)
ActionableCanBeApplied ==
  [][(scan # Idle /\ scan' = Idle) =>
       \A item \in suggestions' : Target(item) # None \/ \A c \in Cid : coll[c] # None]_vars
=============================================================================
