------------------------------ MODULE MCScreens ------------------------------
(* The screens on small instances.                                          *)
EXTENDS Screens, TLC

CONSTANTS r1, r2

OneId == {r1}
TwoIds == {r1, r2}
OneImdb == {"tt1"}
Symmetry == Permutations(TwoIds)

TwoTabs == {"stats", "settings"}

ThreeViews == {"v1", "v2", "v3"}
ThreeNames == {"one", "other", "third"}
TwoConds == {"all", "some"}

Title(media, region, platform, locked, year, words) ==
  [media |-> media, region |-> region, platform |-> platform, locked |-> locked, year |-> year, words |-> words]
On(service) == [key |-> service, spelling |-> 1]
Titles == {Title("movie", "CN", None, FALSE, 18, {"w"}),
           Title("tv", "US", On("netflix"), TRUE, None, {}),
           Title("movie", "US", On("hbo"), FALSE, 19, {})}
NoneToCome == {}
TwoMedia == {"movie", "tv"}
TwoCodes == {"CN", "US"}
TwoKeys == {"netflix", "hbo"}
OneDigit == {1}
OneWord == {"w"}

\* i1 finds one entity, i2 two of which one has no title, i3 none.
TwoListed == 1..2
Finds == [i \in {"i1", "i2", "i3"} |-> CASE i = "i1" -> {"a"} [] i = "i2" -> {"b", "c"} [] i = "i3" -> {}]
WithTitle == {"a", "b"}
Row(i, n) == [imdb |-> i, name |-> n, ident |-> None, locked |-> FALSE, rev |-> 1]
SomeRows == {Row("i1", None), Row("i2", None), Row("i3", "own")}
AnyChange(x) == IF x = None THEN {} ELSE
  {None} \cup {[y EXCEPT !.rev = @ + 1] :
    y \in {[x EXCEPT !.name = "own"], [x EXCEPT !.locked = TRUE], [x EXCEPT !.ident = "a"]}}
==============================================================================
