--------------------------- MODULE WatchlistQuery --------------------------
(* The conditions of the desktop list: how stored ones are read, how the    *)
(* bar, the panel and the summary change them, and which records they show. *)
(* Platforms stand for the three dimensions of texts, the year for the      *)
(* three ranges.                                                            *)
EXTENDS Integers, Sequences, FiniteSets, Functions

CONSTANTS Media, FutureMedia,  \* types this program knows, and others
          Code, BadCode,       \* region codes, and values that are none
          Key, Spelling,       \* a text up to case, and its spellings
          Lower, Upper,        \* the years a range is kept within
          Word, None, Digit,
          Pool,                \* the records there may be
          MaxLib               \* bound on the library

Text == [key : Key, spelling : Spelling]
Record == [media : Media, region : Code, platform : Text \cup {None}, locked : BOOLEAN,
           year : Lower..Upper \cup {None}, words : SUBSET Word]

WatchlistQueryAssumption ==
  /\ Lower \in Nat /\ Upper \in Nat /\ Lower < Upper /\ MaxLib \in Nat
  /\ None \notin Word \cup Code /\ Pool \subseteq Record /\ Digit \subseteq 0..9

VARIABLES lib,      \* the records, newest first
          query,    \* WatchlistQueryV1
          raw,      \* the dimensions that were set in what it was read from
          typed     \* the digits typed into the empty field of the first year

vars == <<lib, query, raw, typed>>

Empty == [search |-> None, media |-> {}, regions |-> {}, platforms |-> {},
          lock |-> "all", year |-> [min |-> None, max |-> None]]
Dims == DOMAIN Empty
Advanced == {"platforms", "year"}

\* uniqueText: one text per key
OnePerKey(texts) == \A a, b \in texts : a.key = b.key => a = b

Clamp(n) == IF n = None THEN None ELSE IF n < Lower THEN Lower ELSE IF n > Upper THEN Upper ELSE n

NormalRange(r) ==
  LET min == Clamp(r.min)
      max == Clamp(r.max)
  IN IF min # None /\ max # None /\ min > max THEN [min |-> max, max |-> min] ELSE [min |-> min, max |-> max]

Normalize(q) ==
  [q EXCEPT !.regions = @ \cap Code,
            !.lock = IF @ \in {"locked", "unlocked"} THEN @ ELSE "all",
            !.year = NormalRange(@)]

\* The dimensions that the counts and the summary take for set.
SetDims(q) == LET n == Normalize(q) IN {d \in Dims : n[d] # Empty[d]}
Summary(q) == SetDims(q) \cap Advanced

MatchesAny(platform, texts) == texts # {} => platform # None /\ \E t \in texts : t.key = platform.key

MatchesRange(year, r) ==
  \/ r.min = None /\ r.max = None
  \/ year # None /\ (r.min = None \/ year >= r.min)
                 /\ (r.max = None \/ year <= r.max)

Matches(r, q) ==
  /\ q.media # {} => r.media \in q.media
  /\ q.regions # {} => r.region \in q.regions
  /\ MatchesAny(r.platform, q.platforms)
  /\ q.lock = "locked" => r.locked
  /\ q.lock = "unlocked" => ~r.locked
  /\ MatchesRange(r.year, q.year)
  /\ q.search # None => q.search \in r.words

Shown(q) == {i \in 1..Len(lib) : Matches(lib[i], Normalize(q))}

\* aggregate: an option per key, spelled as in the first record that has it
(* Deviation: the records that the conditions leave are counted *)
OptionsShown ==
  LET has(k) == {i \in Shown(query) : lib[i].platform # None /\ lib[i].platform.key = k}
  IN {[text |-> lib[CHOOSE i \in has(k) : \A j \in has(k) : i <= j].platform, count |-> Cardinality(has(k))]
        : k \in {l \in Key : has(l) # {}}}
Options ==
  LET has(k) == {i \in 1..Len(lib) : lib[i].platform # None /\ lib[i].platform.key = k}
  IN {[text |-> lib[CHOOSE i \in has(k) : \A j \in has(k) : i <= j].platform, count |-> Cardinality(has(k))]
        : k \in {l \in Key : has(l) # {}}}

\* MultiOptions: the options, and what is selected but not among them
Buttons == Options \cup {[text |-> t, count |-> 0] : t \in query.platforms \ {o.text : o \in Options}}

\* The regions on the bar: those of the records in scope, and the selected ones
RegionOptions == {lib[i].region : i \in {j \in 1..Len(lib) : query.media # {} => lib[j].media \in query.media}}
                   \cup query.regions

TypeOK ==
  /\ lib \in Seq(Pool) /\ Len(lib) <= MaxLib
  /\ query.media \subseteq Media \cup FutureMedia /\ query.regions \subseteq Code
  /\ query.platforms \subseteq Text /\ OnePerKey(query.platforms)
  /\ query.lock \in {"all", "locked", "unlocked"} /\ query.search \in Word \cup {None}
  /\ {query.year.min, query.year.max} \subseteq Lower..Upper \cup {None}

Edited(q) == query' = q /\ raw' = {} /\ UNCHANGED lib
Panel(q) == Edited(Normalize(q))

Init == lib = <<>> /\ query = Empty /\ raw = {} /\ typed = <<>>

\* Conditions as some version of the program has stored them.
Stored == [search : Word \cup {None}, media : SUBSET (Media \cup FutureMedia), regions : SUBSET (Code \cup BadCode),
           platforms : {{}}, lock : {"all", "locked", "future"}, year : {Empty.year}]

\* applySavedView
ApplyStored(q) == query' = Normalize(q) /\ raw' = {d \in Dims : q[d] # Empty[d]} /\ UNCHANGED lib /\ typed' = <<>>

LibraryChanges ==
  /\ \/ Len(lib) < MaxLib /\ \E r \in Pool : lib' = <<r>> \o lib
     \/ \E i \in 1..Len(lib) : lib' = SubSeq(lib, 1, i - 1) \o SubSeq(lib, i + 1, Len(lib))
  /\ UNCHANGED <<query, raw, typed>>

Search == \E w \in Word \cup {None} : Edited([query EXCEPT !.search = w]) /\ UNCHANGED typed

SelectMedia(m) == Edited([query EXCEPT !.media = IF @ = {m} THEN {} ELSE {m}]) /\ UNCHANGED typed

SelectRegion(c) ==
  c \in RegionOptions /\ Edited([query EXCEPT !.regions = IF @ = {c} THEN {} ELSE {c}]) /\ UNCHANGED typed

CycleLock ==
  /\ Edited([query EXCEPT !.lock = CASE @ = "all" -> "locked" [] @ = "locked" -> "unlocked" [] OTHER -> "all"])
  /\ UNCHANGED typed

Toggle(t) ==
  /\ t \in {b.text : b \in Buttons} /\ UNCHANGED typed
  /\ Panel([query EXCEPT !.platforms = IF t \in @ THEN @ \ {t}
                                       ELSE IF \E u \in @ : u.key = t.key THEN @ ELSE @ \cup {t}])

\* RangeInputs: a digit is typed behind the number shown; the field can be emptied
TypeDigit(d) ==
  LET shown == query.year.min
      number == IF shown = None THEN d ELSE 10 * shown + d
  IN /\ Panel([query EXCEPT !.year.min = number])
     /\ Len(typed) < 2 /\ (typed = <<>> => shown = None /\ d # 0)
     /\ typed' = Append(typed, d)
EmptyField(end) == Panel([query EXCEPT !.year[end] = None]) /\ typed' = <<>>
PasteMax(y) == query.year.max = None /\ Panel([query EXCEPT !.year.max = y]) /\ typed' = <<>>

\* clearQueryDimension, clearAdvancedQuery, resetQueryConditions
ClearDimension(d) == d \in Summary(query) /\ Panel([query EXCEPT ![d] = Empty[d]]) /\ typed' = <<>>
ClearAdvanced == Panel([d \in Dims |-> IF d \in Advanced THEN Empty[d] ELSE query[d]]) /\ typed' = <<>>
ResetConditions == Edited(Empty) /\ typed' = <<>>

Next ==
  \/ \E q \in Stored : ApplyStored(q)
  \/ LibraryChanges \/ Search \/ CycleLock \/ ClearAdvanced \/ ResetConditions
  \/ \E m \in Media : SelectMedia(m)
  \/ \E c \in Code : SelectRegion(c)
  \/ \E t \in Text : Toggle(t)
  \/ \E d \in Digit : TypeDigit(d)
  \/ \E end \in {"min", "max"} : EmptyField(end)
  \/ \E y \in Lower..Upper : PasteMax(y)
  \/ \E d \in Dims : ClearDimension(d)

Spec == Init /\ [][Next]_vars

-----------------------------------------------------------------------------
Only(d, v) == [Empty EXCEPT ![d] = v]

(* The panel says that one value of a field is enough and that all fields   *)
(* must agree: the records shown are those that every field shows, and a    *)
(* field shows what its values show one by one (filterRecordsByQuery).      *)
AnyWithinAllAcross ==
  /\ SetDims(query) # {} => Shown(query) = {i \in 1..Len(lib) : \A d \in SetDims(query) : i \in Shown(Only(d, query[d]))}
  /\ \A d \in {"media", "regions", "platforms"} \cap SetDims(query) :
       Shown(Only(d, query[d])) = UNION {Shown(Only(d, {v})) : v \in query[d]}

(* A condition that hides a record is listed: with nothing set, and with    *)
(* all that is set cleared, every record is there (activeQueryDimension-    *)
(* Count, querySummaryItems, clearQueryDimension).                          *)
NothingSetHidesNothing ==
  Shown([d \in Dims |-> IF d \in SetDims(query) THEN Empty[d] ELSE query[d]]) = 1..Len(lib)

(* The number beside an option is the number of records it selects, and one *)
(* marked as matching nothing selects nothing (aggregate, MultiOptions).    *)
CountsAreMatches == \A b \in Buttons : b.count = Cardinality(Shown(Only("platforms", {b.text})))

(* A selected region keeps its button, whatever the library and the other   *)
(* conditions have become since (regionOptions of App.tsx).                 *)
SelectedKeepsItsButton == query.regions \subseteq RegionOptions

(* A stored condition that this program cannot read still restricts: a view *)
(* read from the settings has every dimension set that was stored as set.   *)
LoadingNeverBroadens == \A d \in raw : query[d] # Empty[d]

(* A year within the limits typed digit by digit into the empty field is    *)
(* the bound that the list is filtered by.                                  *)
TypedYearIsKept ==
  Len(typed) = 2 => LET y == 10 * typed[1] + typed[2] IN
    y \in Lower..Upper => y \in {query.year.min, query.year.max}
=============================================================================
