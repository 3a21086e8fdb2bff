------------------------------ MODULE MCCentre -------------------------------
(* The collection centre on small instances.                                *)
EXTENDS Centre

Ids == 1..2
Names == {"a", "b"}

\* A show of three seasons of which two records name the IMDb id, one of them
\* known to TMDB; a show with one season; a movie collection that the IMDb id
\* may also mean.
FourFound == 1..4
FoundData == [r \in FourFound |->
  CASE r \in {1, 2} -> [parent |-> None, imdb |-> "i", title |-> "x", season |-> r, movie |-> None]
    [] r = 3 -> [parent |-> "t", imdb |-> "i", title |-> "x", season |-> 3, movie |-> None]
    [] r = 4 -> [parent |-> "u", imdb |-> None, title |-> "y", season |-> 1, movie |-> None]]
TwoSeeds == [i \in {"i"} |-> {[kind |-> "tv", id |-> "t", source |-> "t"],
                               [kind |-> "movie", id |-> "m", source |-> "c"]}]
Sources == {[kind |-> "tv", id |-> "t"], [kind |-> "tv", id |-> "u"], [kind |-> "movie", id |-> "c"]}
ThreeParts == [k \in Sources |-> IF k.id = "u" THEN {1} ELSE IF k.id = "t" THEN {1, 2, 3} ELSE {1, 2}]
SourceTitles == [k \in Sources |-> IF k.id = "t" THEN "x" ELSE k.id]

TwoShows == {"p", "q"}
TwoSeasons == [p \in TwoShows |-> 0..2]
TwoAired == [p \in TwoShows |-> {1, 2}]
ThreeRecs == 1..3
TwoKinds == {"manual", "tv-series"}

\* Movies 1 and 2 of one collection, movie 3 of another.
TwoOfThree == <<"k", "k", "l">>
TwoIds == <<"i1", "i2", None>>
TwoOut == {1, 3}
Identity(t, i, k, f, l) == [tmdb |-> t, imdb |-> i, kind |-> k, film |-> f, locked |-> l, rev |-> 1]
Agreeing == {Identity(1, "i1", "movie", TRUE, FALSE), Identity(None, "i1", None, FALSE, FALSE),
             Identity(None, "i2", None, TRUE, TRUE), Identity(2, None, "movie", TRUE, FALSE),
             Identity(None, "i2", "tv", FALSE, FALSE), Identity(None, None, None, TRUE, FALSE)}
==============================================================================
