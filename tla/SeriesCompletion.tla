--------------------------- MODULE SeriesCompletion ---------------------------
(***************************************************************************)
(* Completing a series from the collection centre (CollectionCenter.tsx):  *)
(* the seasons TMDB lists for a show are compared with the members of the  *)
(* selected collection, and the chosen ones are created as records and     *)
(* members by create_records_with_members (collections.rs).  TMDB answers  *)
(* late; until its answer opens a dialog the user may select another       *)
(* collection.                                                             *)
(***************************************************************************)
EXTENDS Integers, FiniteSets, FiniteSetsExt

CONSTANTS
  TvShow,    \* TMDB shows
  Listed,    \* show -> the seasons TMDB lists, 0 for the specials
  Aired,     \* show -> those of them that have aired
  Rec,       \* record ids, a set of numbers
  Cid,       \* collection ids
  Kinds,     \* kinds a collection may have at the start
  Patient,   \* the user selects no other collection while the page is busy
  MaxSteps,  \* bound: collections changed by hand and completions begun
  None

\* A season in the library; what a look-up and a creation under way have
\* closed over, and what a dialog was opened with.
SeasonRecord == [show : TvShow \cup {None}, season : Nat]
Inspection == [kind : {"seasons", "search"}, c : Cid, show : TvShow \cup {None}, existing : SUBSET Nat]
Creation == [c : Cid, rev : Nat, show : TvShow, seasons : SUBSET Nat]
Offer == [c : Cid, show : TvShow]

SeriesAssumption ==
  /\ Rec \subseteq Nat /\ Kinds \subseteq {"manual", "tv-series", "universe"}
  /\ Patient \in BOOLEAN /\ MaxSteps \in Nat
  /\ None \notin TvShow \cup SeasonRecord \cup Inspection \cup Creation \cup Offer
  /\ \A p \in TvShow : Aired[p] \subseteq Listed[p] \ {0} /\ Listed[p] \subseteq Nat

VARIABLES
  lib,        \* the records: None, or a season; the show is None where TMDB was never asked
  coll,       \* the collections: kind, the show they are bound to, members, rev
  selected,
  busy,
  inspecting, \* the look-up in flight: the show, and the seasons the page had then
  choices,    \* seriesBindingChoices
  detail,     \* seasonDetail: the show of the open dialog, or None
  chosen,     \* selectedSeasonNumbers
  creating,   \* the creation in flight, or None
  made,       \* history: the memberships that completion created
  offered,    \* history: what the dialog in detail was opened with and for
  steps

vars == <<lib, coll, selected, busy, inspecting, choices, detail, chosen, creating, made, offered, steps>>
dialog == <<detail, chosen, offered>>
data == <<lib, coll, made>>

Season(p, n) == [show |-> p, season |-> n]
Live == {r \in Rec : lib[r] # None}
Shows(c) == {lib[r].show : r \in coll[c].recs} \ {None}
SeasonsOf(c) == {lib[r].season : r \in coll[c].recs}

Init ==
  /\ \E S \in SUBSET (Rec \cap 1..2) :
       lib \in {f \in [Rec -> {Season(p, n) : p \in TvShow \cup {None}, n \in 1..2} \cup {None}] :
                  {r \in Rec : f[r] # None} = S /\ \A r, q \in S : r # q => f[r] # f[q]}
  /\ coll \in [Cid -> [kind : Kinds, source : {None}, recs : SUBSET Live, rev : {1}]]
  /\ \A c \in Cid : \A r, q \in coll[c].recs : lib[r].show = lib[q].show \/ coll[c].kind # "tv-series"
  /\ selected = None /\ busy = FALSE /\ inspecting = None /\ choices = {}
  /\ detail = None /\ chosen = {} /\ creating = None /\ made = {} /\ offered = None /\ steps = 0

Step == steps < MaxSteps /\ steps' = steps + 1
NoOverlay == (detail = None \/ selected = None) /\ choices = {}
Begin == ~busy /\ selected # None /\ NoOverlay

-----------------------------------------------------------------------------
(* The aside of the centre is covered by the dialogs, not by busy.         *)
Select(c) ==
  /\ NoOverlay /\ (Patient => ~busy) /\ c # selected
  /\ selected' = c
  /\ UNCHANGED <<data, busy, inspecting, choices, dialog, creating, steps>>

\* Collection g when its members change.
Changed(g, recs) == [kind |-> g.kind, source |-> g.source, recs |-> recs, rev |-> g.rev + 1]

(* Adding a record of the library by hand, or taking one out.              *)
ByHand(r) ==
  /\ Begin /\ Step /\ r \in Live
  /\ coll' = [coll EXCEPT ![selected] = Changed(@, SymDiff(@.recs, {r}))]
  /\ UNCHANGED <<lib, made, selected, busy, inspecting, choices, dialog, creating>>

Bound(g, p) == [kind |-> "tv-series", source |-> p, recs |-> g.recs, rev |-> g.rev + 1]
Bind(c, p) == [coll EXCEPT ![c] = Bound(@, p)]
Bindable(c, p) == \A o \in Cid \ {c} : coll[o].source # p

LookUp(c, p, existing) == inspecting' = [kind |-> "seasons", c |-> c, show |-> p, existing |-> existing]

(* inspectMissingSeasons: a collection that is bound to no show and is no  *)
(* universe is bound first.  The dialog has a button to look it up again,  *)
(* which offers no choice among the shows of a universe.                   *)
Target(c) ==
  IF coll[c].source # None THEN {coll[c].source}
  ELSE IF Cardinality(Shows(c)) = 1 \/ (coll[c].kind = "universe" /\ detail = None)
       THEN Shows(c) ELSE {}

(* Deviation: the collection is not bound before it is completed.          *)
InspectUnbound(p) ==
  /\ Begin /\ Step
  /\ p \in Shows(selected) /\ coll' = coll
  /\ LookUp(selected, p, SeasonsOf(selected)) /\ busy' = TRUE
  /\ UNCHANGED <<lib, made, selected, choices, dialog, creating>>

Inspect(p) ==
  /\ ~busy /\ selected # None /\ choices = {} /\ Step
  /\ p \in Target(selected)
  /\ IF coll[selected].source # None \/ coll[selected].kind = "universe" THEN coll' = coll
     ELSE Bindable(selected, p) /\ coll' = Bind(selected, p)
  /\ LookUp(selected, p, SeasonsOf(selected)) /\ busy' = TRUE
  /\ UNCHANGED <<lib, made, selected, choices, dialog, creating>>

Answered(kind) == inspecting # None /\ inspecting.kind = kind /\ inspecting' = None

Opened(p, existing) ==
  /\ detail' = p /\ chosen' = Aired[p] \ existing
  /\ offered' = [c |-> inspecting.c, show |-> p]

AnswerInspect ==
  /\ Answered("seasons") /\ busy' = FALSE
  /\ Opened(inspecting.show, inspecting.existing)
  /\ UNCHANGED <<data, selected, choices, creating, steps>>

Fail == inspecting # None /\ inspecting' = None /\ busy' = FALSE
        /\ UNCHANGED <<data, selected, choices, dialog, creating, steps>>

(* identifyLegacySeries: the seasons of a manual collection share an IMDb  *)
(* id, for which TMDB finds one show or several; one is bound to the       *)
(* collection the search began for, of several the user chooses.           *)
Identify ==
  /\ Begin /\ Step
  /\ coll[selected].kind = "manual" /\ coll[selected].source = None
  /\ Cardinality(coll[selected].recs) > 1 /\ Shows(selected) = {}
  /\ inspecting' = [kind |-> "search", c |-> selected, show |-> None, existing |-> SeasonsOf(selected)]
  /\ busy' = TRUE
  /\ UNCHANGED <<data, selected, choices, dialog, creating>>

AnswerIdentify(found) ==
  /\ inspecting # None /\ inspecting.kind = "search"
  /\ UNCHANGED <<lib, made, selected, dialog, creating, steps>>
  /\ IF Cardinality(found) = 1
     THEN \E p \in found :
            /\ Bindable(inspecting.c, p) /\ coll' = Bind(inspecting.c, p)
            /\ LookUp(inspecting.c, p, inspecting.existing)
            /\ UNCHANGED <<choices, busy>>
     ELSE choices' = found /\ inspecting' = None /\ busy' = FALSE /\ coll' = coll

BindChoice(p) ==
  /\ p \in choices /\ selected # None /\ ~busy
  /\ Bindable(selected, p) /\ coll[selected].source = None
  /\ coll' = Bind(selected, p) /\ choices' = {} /\ LookUp(selected, p, SeasonsOf(selected)) /\ busy' = TRUE
  /\ UNCHANGED <<lib, made, selected, dialog, creating, steps>>

CloseDialog ==
  /\ detail # None \/ choices # {}
  /\ detail' = None /\ chosen' = {} /\ offered' = None /\ choices' = {}
  /\ UNCHANGED <<data, selected, busy, inspecting, creating, steps>>

Toggle(n) ==
  /\ detail # None /\ selected # None /\ n \in Listed[detail] \ SeasonsOf(selected)
  /\ chosen' = SymDiff(chosen, {n})
  /\ UNCHANGED <<data, selected, busy, inspecting, choices, detail, offered, creating, steps>>

(* createSelectedSeasons asks TMDB about each season before it creates.    *)
Create ==
  /\ detail # None /\ selected # None /\ ~busy /\ chosen # {}
  /\ Cardinality(chosen) <= Cardinality(Rec \ Live)
  /\ creating' = [c |-> selected, rev |-> coll[selected].rev, show |-> detail, seasons |-> chosen]
  /\ busy' = TRUE
  /\ UNCHANGED <<data, selected, inspecting, choices, dialog, steps>>

(* create_records_with_members                                             *)
(* Deviation: the seasons a collection has are not looked for.             *)
NeverDuplicate(c, new) == FALSE
Duplicate(c, new) == \E r \in coll[c].recs : lib[r] \in new

Homes(c, p) == {c} \cup {o \in Cid : /\ coll[c].kind = "universe"
                                      /\ coll[o].kind = "tv-series" /\ coll[o].source = p}

RunCreate ==
  LET c == creating.c
      new == {Season(creating.show, n) : n \in creating.seasons}
      refused == coll[c].rev # creating.rev \/ Duplicate(c, new)
  IN  /\ creating # None /\ creating' = None /\ busy' = FALSE
      /\ IF refused THEN UNCHANGED <<data, dialog>>
         ELSE \E f \in Injection(new, Rec \ Live) :
                LET added == {f[x] : x \in new}
                IN  /\ lib' = [r \in Rec |-> IF r \in added THEN CHOOSE x \in new : f[x] = r ELSE lib[r]]
                    /\ coll' = [o \in Cid |-> IF o \in Homes(c, creating.show)
                                  THEN Changed(coll[o], coll[o].recs \cup added) ELSE coll[o]]
                    /\ made' = made \cup {<<c, r>> : r \in added}
                    /\ detail' = None /\ chosen' = {} /\ offered' = None
      /\ UNCHANGED <<selected, inspecting, choices, steps>>

-----------------------------------------------------------------------------
Next ==
  \/ \E c \in Cid : Select(c)
  \/ \E r \in Rec : ByHand(r)
  \/ \E p \in TvShow : Inspect(p) \/ BindChoice(p)
  \/ AnswerInspect \/ Fail \/ Identify \/ CloseDialog \/ Create \/ RunCreate
  \/ \E found \in SUBSET TvShow : AnswerIdentify(found)
  \/ \E n \in UNION {Listed[p] : p \in TvShow} : Toggle(n)

Spec == Init /\ [][Next]_vars
-----------------------------------------------------------------------------
TypeOK ==
  /\ lib \in [Rec -> SeasonRecord \cup {None}]
  /\ \A c \in Cid : coll[c].recs \subseteq Live
  /\ \A c \in Cid : coll[c].source # None => coll[c].kind = "tv-series"
  /\ \A c, d \in Cid : c # d /\ coll[c].source # None => coll[c].source # coll[d].source
  /\ selected \in Cid \cup {None} /\ choices \subseteq TvShow
  /\ detail \in TvShow \cup {None} /\ chosen \subseteq Nat /\ offered \in Offer \cup {None}
  /\ (detail = None) = (offered = None) /\ (detail = None => chosen = {})
  /\ inspecting \in Inspection \cup {None} /\ creating \in Creation \cup {None}
  /\ busy = (inspecting # None \/ creating # None)
  /\ inspecting = None \/ creating = None

(* Completing a collection puts no season into a collection that has it.   *)
AddsOnce ==
  \A c \in Cid : \A r \in made' \ made :
    \A q \in coll[c].recs : r[2] \in coll'[c].recs => lib[q] # lib'[r[2]]
NoSeasonTwice == [][AddsOnce]_vars

(* Completion does not create a season that the library has.               *)
SeasonOnceInLibrary ==
  \A r, q \in Live : r # q /\ lib[r] = lib[q] => ~ \E d \in Cid : <<d, r>> \in made

(* Seasons are created in a universe, or in a collection bound to their    *)
(* show.                                                                   *)
SeasonsGoToTheirSeries ==
  \A m \in made : coll[m[1]].kind = "universe" \/ coll[m[1]].source = lib[m[2]].show

(* The dialog lets the user choose every aired season of its show that is  *)
(* missing in the collection it was opened for; a record without a show    *)
(* counts for any.                                                         *)
MissingIsOffered ==
  detail # None =>
    \A n \in Aired[detail] :
      \/ n \notin SeasonsOf(offered.c)
      \/ \E r \in coll[offered.c].recs : lib[r].season = n /\ lib[r].show \in {detail, None}
=============================================================================
