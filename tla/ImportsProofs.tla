-------------------------- MODULE ImportsProofs -----------------------------
(***************************************************************************)
(* Theorems about what replaces a library. Of LocalImport: its states are  *)
(* well typed (a library, also an imported one, never holds a history      *)
(* without its record), a preview can always be confirmed or cancelled, an *)
(* import is the one that was previewed, and locked records stay. Of the   *)
(* composite: restores are published, a pass after an import keeps to the  *)
(* work of the user, what is replaced leaves a recovery point, points go   *)
(* as surplus only, and refused restores change nothing.                   *)
(*                                                                         *)
(* The pages that were left in the middle of a commit are what makes an    *)
(* invariant necessary: their files must still be there, and no later page *)
(* may hold, and so discard, one of them.                                  *)
(***************************************************************************)
EXTENDS Imports, Integers, FiniteSetsExt, Functions, FiniteSetTheorems,
        WellFoundedInduction, TLAPS

(* What the types say, apart from the soundness of the library.            *)
Types ==
  /\ lib \in Library /\ locked \subseteq Rec /\ deleted \subseteq Rec
  /\ base \in Library
  /\ doc \in {None} \cup Library /\ reading \in {None} \cup Library
  /\ stage \in [Token -> {None} \cup Library] /\ issued \subseteq Token

SoundLibrary == Sound(lib) /\ locked \subseteq Present(lib)

(* The library that a preview p of the document b announces.               *)
Announced(p, b) ==
  [rec  |-> [r \in Rec |-> IF r \in p.locks THEN p.of.rec[r] ELSE b.rec[r]],
   hist |-> {r \in Rec : IF r \in p.locks THEN r \in p.of.hist ELSE r \in b.hist}]

(* A preview names its page's file, which is there, can be imported and    *)
(* gives what the preview shows.                                           *)
Backed(q) ==
  q.preview # None =>
    /\ q.token # None /\ q.preview.token = q.token
    /\ stage[q.token] # None /\ Sound(stage[q.token])
    /\ q.preview.shows = Announced(q.preview, stage[q.token])

Staged(q) ==
  /\ q.busy = "select" => q.token = None /\ q.preview = None
  /\ q.busy = "preview" => q.token # None
  /\ q.busy = "commit" => q.preview # None
  /\ q.token # None => q.token \in issued

Committing == {q \in left : q.busy = "commit"}

PageFile == page \in Page /\ Staged(page) /\ Backed(page)

LeftFiles ==
  /\ left \subseteq Page
  /\ \A q \in left : q.busy \in {"select", "commit"} /\ Staged(q) /\ Backed(q)

(* No two pages commit one file.                                           *)
TokensApart ==
  /\ \A q \in Committing : q.token # page.token
  /\ \A q1, q2 \in Committing : q1.token = q2.token => q1 = q2

PagesHaveTheirFiles == PageFile /\ LeftFiles /\ TokensApart

Inv == Types /\ SoundLibrary /\ PagesHaveTheirFiles
-----------------------------------------------------------------------------
(* Records with an element that is not None are of the version's type, and *)
(* a library is the record of its two parts.                               *)
LEMMA LibraryParts ==
  ASSUME NEW l \in Library
  PROVE  /\ l.rec \in [Rec -> Version \cup {None}] /\ l.hist \subseteq Rec
         /\ l = [rec |-> l.rec, hist |-> l.hist]
BY DEF Library

(* A library with a history only where there is a record is sound.         *)
LEMMA LibraryOf ==
  ASSUME NEW f \in [Rec -> Version \cup {None}], NEW h \in SUBSET Rec
  PROVE  /\ [rec |-> f, hist |-> h] \in Library
         /\ (\A r \in h : f[r] # None) => Sound([rec |-> f, hist |-> h])
BY DEF Library, Sound, Present

(* A record in a sound library's histories is in the library.              *)
LEMMA SoundMeans ==
  ASSUME NEW l, Sound(l), NEW r \in l.hist
  PROVE  r \in Rec /\ l.rec[r] # None
BY DEF Sound, Present

(* Replacing the library by a document gives a library; by a sound one, a  *)
(* sound library that has the locked records as they were.                 *)
LEMMA ReplacedIsALibrary ==
  ASSUME Types, SoundLibrary, NEW b \in Library
  PROVE  /\ Replaced(b) \in Library
         /\ Sound(b) => Sound(Replaced(b))
         /\ locked \subseteq Present(Replaced(b))
         /\ \A r \in locked : Replaced(b).rec[r] = lib.rec[r]
                              /\ (r \in lib.hist => r \in Replaced(b).hist)
<1> DEFINE f == [r \in Rec |-> IF r \in locked THEN lib.rec[r] ELSE b.rec[r]]
           h == {r \in Rec : IF r \in locked THEN r \in lib.hist ELSE r \in b.hist}
<1>1. /\ lib.rec \in [Rec -> Version \cup {None}] /\ lib.hist \subseteq Rec
      /\ b.rec \in [Rec -> Version \cup {None}] /\ b.hist \subseteq Rec
  BY LibraryParts DEF Types
<1>2. f \in [Rec -> Version \cup {None}] /\ h \in SUBSET Rec
  BY <1>1
<1>3. \A r \in Rec : f[r] = IF r \in locked THEN lib.rec[r] ELSE b.rec[r]
  OBVIOUS
<1>4. \A r \in locked : r \in Rec /\ lib.rec[r] # None
  BY DEF Types, SoundLibrary, Present
<1>5. Replaced(b) = [rec |-> f, hist |-> h]
  BY DEF Replaced
<1>6. Replaced(b).rec = f /\ Replaced(b).hist = h
  BY <1>5
<1>7. ASSUME Sound(b) PROVE \A r \in h : f[r] # None
  BY <1>7, <1>3, <1>4, SoundMeans
<1>8. Replaced(b) \in Library /\ (Sound(b) => Sound(Replaced(b)))
  <2> HIDE DEF f, h
  <2> QED BY <1>2, <1>5, <1>7, LibraryOf
<1>9. locked \subseteq Present(Replaced(b))
  BY <1>3, <1>4, <1>6 DEF Present
<1> QED BY <1>3, <1>4, <1>6, <1>8, <1>9

(* A sync gives a sound library with the locked records as they were.      *)
LEMMA SyncedIsALibrary ==
  ASSUME Types, SoundLibrary
  PROVE  /\ Synced \in Library /\ Sound(Synced) /\ locked \subseteq Present(Synced)
         /\ \A r \in locked : Synced.rec[r] = lib.rec[r]
                              /\ (r \in lib.hist => r \in Synced.hist)
<1> DEFINE f == [r \in Rec |-> IF lib.rec[r] # None THEN lib.rec[r]
                               ELSE IF r \in deleted THEN None ELSE base.rec[r]]
           h == {r \in lib.hist : f[r] # None}
<1>1. /\ lib.rec \in [Rec -> Version \cup {None}] /\ lib.hist \subseteq Rec
      /\ base.rec \in [Rec -> Version \cup {None}]
  BY LibraryParts DEF Types
<1>2. f \in [Rec -> Version \cup {None}] /\ h \in SUBSET Rec
  BY <1>1
<1>3. \A r \in locked : r \in Rec /\ lib.rec[r] # None
  BY DEF Types, SoundLibrary, Present
<1>4. \A r \in locked : f[r] = lib.rec[r] /\ f[r] # None
  BY <1>3
<1>5. Synced = [rec |-> f, hist |-> h]
  BY DEF Synced
<1>6. Synced.rec = f /\ Synced.hist = h
  BY <1>5
<1>7. Synced \in Library /\ Sound(Synced)
  <2>1. \A r \in h : f[r] # None
    OBVIOUS
  <2> HIDE DEF f, h
  <2> QED BY <1>2, <1>5, <2>1, LibraryOf
<1>8. locked \subseteq Present(Synced)
  BY <1>3, <1>4, <1>6 DEF Present
<1> QED BY <1>4, <1>6, <1>7, <1>8
-----------------------------------------------------------------------------
(* The file of a page under way, and what can become of the files.         *)

(* A preview that is backed has a sound document as its file.              *)
LEMMA BackedFile ==
  ASSUME Types, NEW q \in Page, Backed(q), q.preview # None
  PROVE  /\ q.token \in Token /\ q.preview \in Preview /\ q.preview.token = q.token
         /\ stage[q.token] \in Library /\ Sound(stage[q.token])
         /\ q.preview.shows = Announced(q.preview, stage[q.token])
BY DEF Types, Page, Backed

(* An edit of one record leaves a library.                                 *)
LEMMA RecordReplaced ==
  ASSUME NEW l \in Library, NEW r \in Rec, NEW v \in Version \cup {None}
  PROVE  /\ [l EXCEPT !.rec[r] = v] = [rec |-> [l.rec EXCEPT ![r] = v], hist |-> l.hist]
         /\ [l.rec EXCEPT ![r] = v] \in [Rec -> Version \cup {None}]
BY DEF Library

(* Reading the histories of a library into an export keeps a library.      *)
LEMMA HistoriesRead ==
  ASSUME NEW l \in Library, NEW h \in SUBSET Rec
  PROVE  /\ [l EXCEPT !.hist = h] = [rec |-> l.rec, hist |-> h]
         /\ [l EXCEPT !.hist = h] \in Library
BY DEF Library

(* Discarding a file, and staging one, keep the files' type.               *)
LEMMA StageKept ==
  ASSUME Types, NEW k \in Token \cup {None}, NEW j \in Token, NEW b \in {None} \cup Library
  PROVE  /\ Discarded(k) \in [Token -> {None} \cup Library]
         /\ [stage EXCEPT ![j] = b] \in [Token -> {None} \cup Library]
BY DEF Types, Discarded
-----------------------------------------------------------------------------
(* The three outcomes of a commit: done, refused as stale, failed.         *)
LEMMA CommitCases ==
  ASSUME Commit
  PROVE  \/ Fresh(page.preview) /\ Apply(page.preview) /\ page' = Idle
         \/ /\ lib' = lib /\ stage' = stage
            /\ page' = [page EXCEPT !.busy = None, !.preview = PreviewOf(page.preview.token)]
         \/ lib' = lib /\ stage' = Discarded(page.token) /\ page' = Idle
BY DEF Commit

(* The library stays one, and sound, whatever happens; every action has    *)
(* its own step.                                                           *)
LEMMA LibraryStays ==
  ASSUME Inv, [Next]_vars
  PROVE  Types' /\ SoundLibrary'
<1> USE DEF Inv
<1>0. None \notin Version /\ None \notin Token
  BY LocalImportAssumption
<1>1. CASE SaveRecord
  <2>1. PICK r \in Rec \ locked, v \in Version :
          lib' = [lib EXCEPT !.rec[r] = v] /\ deleted' = deleted \ {r}
    BY <1>1 DEF SaveRecord
  <2> DEFINE f == [lib.rec EXCEPT ![r] = v]
  <2>2. lib' = [rec |-> f, hist |-> lib.hist] /\ f \in [Rec -> Version \cup {None}]
    BY <2>1, RecordReplaced DEF Types
  <2>3. \A x \in Rec : f[x] = IF x = r THEN v ELSE lib.rec[x]
    BY LibraryParts DEF Types
  <2>4. lib.hist \in SUBSET Rec /\ \A x \in lib.hist : f[x] # None
    BY <2>3, <1>0, SoundMeans, LibraryParts DEF Types, SoundLibrary
  <2>5. lib' \in Library /\ Sound(lib')
    <3> HIDE DEF f
    <3> QED BY <2>2, <2>4, LibraryOf
  <2>6. locked \subseteq Present(lib')
    BY <2>2, <2>3, <1>0 DEF Present, SoundLibrary
  <2> QED BY <1>1, <2>1, <2>5, <2>6 DEF SaveRecord, Types, SoundLibrary
<1>2. CASE Watch
  <2>1. PICK r \in Present(lib) : lib' = [lib EXCEPT !.hist = @ \cup {r}]
    BY <1>2 DEF Watch
  <2>2. r \in Rec /\ lib.rec[r] # None
    BY DEF Present
  <2> DEFINE h == lib.hist \cup {r}
  <2>3. lib.rec \in [Rec -> Version \cup {None}] /\ h \in SUBSET Rec
    BY <2>2, LibraryParts DEF Types
  <2>4. lib' = [rec |-> lib.rec, hist |-> h]
    BY <2>1, <2>2, <2>3, HistoriesRead DEF Types
  <2>5. \A x \in h : lib.rec[x] # None
    BY <2>2, SoundMeans DEF SoundLibrary
  <2>6. lib' \in Library /\ Sound(lib')
    <3> HIDE DEF h
    <3> QED BY <2>3, <2>4, <2>5, LibraryOf
  <2>7. locked \subseteq Present(lib')
    BY <2>4 DEF Present, SoundLibrary
  <2> QED BY <1>2, <2>6, <2>7 DEF Watch, Types, SoundLibrary
<1>3. CASE ToggleLock
  BY <1>3 DEF ToggleLock, Types, SoundLibrary, Present
<1>4. CASE DeleteRecord
  <2>1. PICK r \in Present(lib) \ locked :
          /\ lib' = [rec |-> [lib.rec EXCEPT ![r] = None], hist |-> lib.hist \ {r}]
          /\ deleted' = deleted \cup {r}
    BY <1>4 DEF DeleteRecord
  <2>2. r \in Rec
    BY DEF Present
  <2> DEFINE f == [lib.rec EXCEPT ![r] = None]
             h == lib.hist \ {r}
  <2>3. f \in [Rec -> Version \cup {None}] /\ h \in SUBSET Rec
    BY <2>2, RecordReplaced, LibraryParts DEF Types
  <2>4. \A x \in Rec : x # r => f[x] = lib.rec[x]
    BY LibraryParts DEF Types
  <2>5. \A x \in h : f[x] # None
    BY <2>4, SoundMeans DEF SoundLibrary
  <2>6. lib' \in Library /\ Sound(lib')
    <3> HIDE DEF f, h
    <3> QED BY <2>1, <2>3, <2>5, LibraryOf DEF f, h
  <2>7. locked \subseteq Present(lib')
    BY <2>1, <2>4 DEF Present, SoundLibrary
  <2> QED BY <1>4, <2>1, <2>2, <2>6, <2>7 DEF DeleteRecord, Types, SoundLibrary
<1>5. CASE Sync
  BY <1>5, SyncedIsALibrary DEF Sync, Types, SoundLibrary
<1>6. CASE ExportMobile
  BY <1>6 DEF ExportMobile, Types, SoundLibrary
<1>7. CASE ExportDesktop
  <2>1. reading' \in Library
    BY <1>7, LibraryParts, LibraryOf DEF ExportDesktop, Types
  <2> QED BY <1>7, <2>1 DEF ExportDesktop, Types, SoundLibrary
<1>8. CASE ExportRead
  <2>1. doc' \in Library
    BY <1>8, LibraryParts, HistoriesRead DEF ExportRead, Types
  <2> QED BY <1>8, <2>1 DEF ExportRead, Types, SoundLibrary
<1>9. CASE ChooseImport \/ ShowPreview \/ CancelImport \/ ConfirmImport \/ Leave \/ Restart
  <2>1. page.token \in Token \cup {None}
    BY DEF PagesHaveTheirFiles, PageFile, Page
  <2>2. Discarded(page.token) \in [Token -> {None} \cup Library]
    BY <2>1 DEF Types, Discarded
  <2>3. stage' \in [Token -> {None} \cup Library] /\ issued' = issued
    BY <1>9, <2>2 DEF ChooseImport, ShowPreview, CancelImport, ConfirmImport, Leave, Restart, Types
  <2> QED BY <1>9, <2>3
          DEF ChooseImport, ShowPreview, CancelImport, ConfirmImport, Leave, Restart, Types, SoundLibrary
<1>10. CASE Select
  <2>1. stage' \in [Token -> {None} \cup Library] /\ issued' \subseteq Token
    BY <1>10 DEF Select, Selected, Types
  <2> QED BY <1>10, <2>1 DEF Select, Types, SoundLibrary
<1>11. CASE SelectLeft
  <2>1. stage' \in [Token -> {None} \cup Library] /\ issued' \subseteq Token
    BY <1>11 DEF SelectLeft, Types
  <2> QED BY <1>11, <2>1 DEF SelectLeft, Types, SoundLibrary
<1>12. ASSUME NEW q \in Page, Backed(q), q.preview # None, Apply(q.preview)
       PROVE  /\ lib' \in Library /\ Sound(lib') /\ locked \subseteq Present(lib')
              /\ stage' \in [Token -> {None} \cup Library]
  <2>1. /\ q.token \in Token /\ q.preview.token = q.token
        /\ stage[q.token] \in Library /\ Sound(stage[q.token])
    BY <1>12, BackedFile
  <2>2. lib' = Replaced(stage[q.token]) /\ stage' = Discarded(q.token)
    BY <1>12, <2>1 DEF Apply
  <2> QED BY <2>1, <2>2, ReplacedIsALibrary DEF Types, Discarded
<1>13. CASE Commit
  <2>1. page \in Page /\ Backed(page) /\ page.preview # None
    BY <1>13 DEF Commit, PagesHaveTheirFiles, PageFile, Staged
  <2>2. CASE Apply(page.preview)
    BY <1>13, <2>1, <2>2, <1>12 DEF Commit, Types, SoundLibrary
  <2>3. CASE lib' = lib /\ stage' \in {stage, Discarded(page.token)}
    BY <1>13, <2>1, <2>3 DEF Commit, Types, SoundLibrary, Discarded, PagesHaveTheirFiles, PageFile, Page
  <2>4. \/ Fresh(page.preview) /\ Apply(page.preview) /\ page' = Idle
        \/ lib' = lib /\ stage' = stage
        \/ lib' = lib /\ stage' = Discarded(page.token)
    BY <1>13, CommitCases
  <2> QED BY <2>2, <2>3, <2>4
<1>14. CASE CommitLeft
  <2>1. PICK q \in left : q.busy = "commit" /\ (IF Fresh(q.preview) THEN Apply(q.preview) ELSE UNCHANGED <<lib, stage>>)
    BY <1>14 DEF CommitLeft
  <2>2. q \in Page /\ Backed(q) /\ q.preview # None
    BY <2>1 DEF PagesHaveTheirFiles, LeftFiles, Staged
  <2>3. CASE Apply(q.preview)
    BY <1>14, <2>2, <2>3, <1>12 DEF CommitLeft, Types, SoundLibrary
  <2>4. CASE UNCHANGED <<lib, stage>>
    BY <1>14, <2>4 DEF CommitLeft, Types, SoundLibrary
  <2> QED BY <2>1, <2>3, <2>4
<1>15. CASE ImportDesktop
  BY <1>15, ReplacedIsALibrary DEF ImportDesktop, Types, SoundLibrary
<1>16. CASE ImportRecords
  <2>1. doc \in Library
    BY <1>16 DEF ImportRecords, Types
  <2> DEFINE f == Replaced(doc).rec
             h == {r \in lib.hist : f[r] # None}
  <2>2. f \in [Rec -> Version \cup {None}] /\ locked \subseteq Present(Replaced(doc))
    BY <2>1, ReplacedIsALibrary, LibraryParts
  <2>3. h \in SUBSET Rec /\ \A r \in h : f[r] # None
    BY LibraryParts DEF Types
  <2>4. lib' = [rec |-> f, hist |-> h]
    BY <1>16 DEF ImportRecords
  <2>5. lib' \in Library /\ Sound(lib')
    <3> HIDE DEF f, h
    <3> QED BY <2>2, <2>3, <2>4, LibraryOf
  <2>6. locked \subseteq Present(lib')
    BY <2>2, <2>4 DEF Present
  <2> QED BY <1>16, <2>5, <2>6 DEF ImportRecords, Types, SoundLibrary
<1>17. CASE UNCHANGED vars
  BY <1>17 DEF vars, Types, SoundLibrary
<1> QED BY <1>1, <1>2, <1>3, <1>4, <1>5, <1>6, <1>7, <1>8, <1>9, <1>10, <1>11, <1>13, <1>14,
           <1>15, <1>16, <1>17 DEF Next, LibraryStep, Import
-----------------------------------------------------------------------------
(* The pages keep their files.                                             *)

(* A page that commits has a token, its file's.                            *)
LEMMA CommittingHasAFile ==
  ASSUME LeftFiles, NEW q \in Committing
  PROVE  q \in Page /\ q.preview # None /\ q.token # None /\ q.token \in Token /\ q.token \in issued
BY DEF LeftFiles, Committing, Staged, Backed, Page

(* Pages that were left keep what they have while their files are not      *)
(* touched; some of them may go.                                           *)
LEMMA LeftKept ==
  ASSUME LeftFiles, left' \subseteq left, issued \subseteq issued',
         \A q \in Committing : q \in left' => stage'[q.token] = stage[q.token]
  PROVE  LeftFiles'
<1>1. SUFFICES ASSUME NEW q \in left'
               PROVE  q \in Page /\ q.busy \in {"select", "commit"} /\ Staged(q)' /\ Backed(q)'
  BY DEF LeftFiles
<1>2. q \in Page /\ q.busy \in {"select", "commit"} /\ Staged(q) /\ Backed(q)
  BY DEF LeftFiles
<1>3. Staged(q)'
  BY <1>2 DEF Staged
<1>4. CASE q.busy = "select"
  BY <1>2, <1>3, <1>4 DEF Staged, Backed
<1>5. CASE q.busy = "commit"
  <2>1. stage'[q.token] = stage[q.token]
    BY <1>5 DEF Committing
  <2>2. Backed(q)'
    BY <1>2, <2>1 DEF Backed
  <2> QED BY <1>2, <1>3, <2>2
<1> QED BY <1>2, <1>4, <1>5

(* A page without a token takes no file from anyone.                       *)
LEMMA ApartFromNone ==
  ASSUME LeftFiles, TokensApart, left' \subseteq left,
         page'.token = page.token \/ page'.token \notin issued \/ page'.token = None
  PROVE  TokensApart'
<1>1. \A q \in Committing' : q \in Committing
  BY DEF Committing
<1>2. \A q \in Committing : q.token # None /\ q.token \in issued
  BY CommittingHasAFile
<1> QED BY <1>1, <1>2 DEF TokensApart

(* The page gives up its file, or never had one.                           *)
LEMMA PageCleared ==
  ASSUME Inv, page' \in {Idle, [Idle EXCEPT !.busy = "select"]},
         stage' = stage \/ stage' = Discarded(page.token), left' = left, issued' = issued
  PROVE  PagesHaveTheirFiles'
<1>1. page'.token = None /\ page'.preview = None /\ page'.busy \in {None, "select"}
      /\ page' = [busy |-> page'.busy, token |-> None, preview |-> None]
  BY DEF Idle
<1>2. page' \in Page
  BY <1>1 DEF Page, Busy
<1>3. PageFile'
  <2>1. Staged(page)'
    BY <1>1, LocalImportAssumption DEF Staged, Busy
  <2>2. Backed(page)'
    BY <1>1 DEF Backed
  <2> QED BY <1>2, <2>1, <2>2 DEF PageFile
<1>4. \A q \in Committing : stage'[q.token] = stage[q.token]
  BY CommittingHasAFile DEF Inv, Types, PagesHaveTheirFiles, TokensApart, Discarded
<1> QED BY <1>1, <1>3, <1>4, LeftKept, ApartFromNone DEF Inv, PagesHaveTheirFiles

(* A preview is made, again or for the first time, of the page's file.     *)
LEMMA PreviewMade ==
  ASSUME Inv, page.token \in Token, stage[page.token] # None, stage[page.token] \in Library, Sound(stage[page.token]),
         page' = [page EXCEPT !.busy = None, !.preview = PreviewOf(page.token)],
         stage' = stage, left' = left, issued' = issued
  PROVE  PagesHaveTheirFiles'
<1> DEFINE p == PreviewOf(page.token)
           b == stage[page.token]
<1>0. None \notin Token
  BY LocalImportAssumption
<1>1. Replaced(b) \in Library
  BY ReplacedIsALibrary DEF Inv
<1>2. p \in Preview
  BY <1>1 DEF PreviewOf, Preview, Inv, Types
<1>3. p.token = page.token /\ p.of = lib /\ p.locks = locked /\ p.shows = Replaced(b)
  BY DEF PreviewOf
<1>4. p.shows = Announced(p, b)
  BY <1>3 DEF Replaced, Announced
<1>5. page' \in Page /\ page'.busy = None /\ page'.token = page.token /\ page'.preview = p
  <2>1. page \in Page
    BY DEF Inv, PagesHaveTheirFiles, PageFile
  <2> HIDE DEF p
  <2> QED BY <1>2, <2>1 DEF Page, p
<1>6. PageFile'
  <2>1. Staged(page)'
    BY <1>5, LocalImportAssumption DEF Staged, Inv, PagesHaveTheirFiles, PageFile, Busy
  <2>2. Backed(page)'
    BY <1>0, <1>3, <1>4, <1>5 DEF Backed
  <2> QED BY <1>5, <2>1, <2>2 DEF PageFile
<1> QED BY <1>5, <1>6, LeftKept, ApartFromNone DEF Inv, PagesHaveTheirFiles
(* Every step keeps the files of the pages; the library may be written     *)
(* meanwhile.                                                              *)
LEMMA FilesStay ==
  ASSUME Inv, [Next]_vars
  PROVE  PagesHaveTheirFiles'
<1>0. None \notin Token /\ None \notin Busy
  BY LocalImportAssumption
<1>a. /\ stage \in [Token -> {None} \cup Library] /\ issued \subseteq Token /\ doc \in {None} \cup Library
      /\ page \in Page /\ Staged(page) /\ Backed(page) /\ PageFile /\ LeftFiles /\ TokensApart
  BY DEF Inv, Types, PagesHaveTheirFiles, PageFile
<1>1. CASE UNCHANGED <<stage, issued, page, left>>
  BY <1>1 DEF Inv, PagesHaveTheirFiles, PageFile, LeftFiles, TokensApart, Committing, Staged, Backed
<1>2. CASE ChooseImport \/ CancelImport
  BY <1>2, PageCleared DEF ChooseImport, CancelImport
<1>3. CASE Select
  <2>1. CASE page' = Idle /\ UNCHANGED <<stage, issued>>
    BY <1>3, <2>1, PageCleared DEF Select
  <2>2. ASSUME doc # None, NEW k \in Token \ issued, stage' = [stage EXCEPT ![k] = doc],
               issued' = issued \cup {k}, page' = [Idle EXCEPT !.busy = "preview", !.token = k]
        PROVE  PagesHaveTheirFiles'
    <3>1. page' = [busy |-> "preview", token |-> k, preview |-> None]
      BY <2>2 DEF Idle
    <3>2. PageFile'
      <4>1. page' \in Page
        BY <3>1 DEF Page, Busy
      <4>2. Staged(page)'
        BY <1>0, <2>2, <3>1 DEF Staged
      <4>3. Backed(page)'
        BY <3>1 DEF Backed
      <4> QED BY <4>1, <4>2, <4>3 DEF PageFile
    <3>3. left' = left
      BY <1>3 DEF Select
    <3>4. \A q \in Committing : stage'[q.token] = stage[q.token]
      BY <1>a, <2>2, CommittingHasAFile
    <3>5. LeftFiles'
      BY <1>a, <2>2, <3>3, <3>4, LeftKept
    <3>6. TokensApart'
      BY <1>a, <2>2, <3>1, <3>3, ApartFromNone
    <3> QED BY <3>2, <3>5, <3>6 DEF PagesHaveTheirFiles
  <2> QED BY <1>3, <2>1, <2>2 DEF Select, Selected
<1>4. CASE ShowPreview
  <2>1. page.token \in Token
    BY <1>4, <1>a DEF ShowPreview, Staged, Page
  <2>2. CASE stage[page.token] # None /\ Sound(stage[page.token])
    BY <1>4, <1>a, <2>1, <2>2, PreviewMade DEF ShowPreview
  <2>3. CASE ~(stage[page.token] # None /\ Sound(stage[page.token]))
    BY <1>4, <2>3, PageCleared DEF ShowPreview
  <2> QED BY <2>2, <2>3
<1>5. CASE ConfirmImport
  <2>1. /\ page.preview # None /\ page' = [page EXCEPT !.busy = "commit"]
        /\ UNCHANGED <<stage, issued, left>>
    BY <1>5 DEF ConfirmImport
  <2>2. /\ page' \in Page /\ page'.busy = "commit"
        /\ page'.token = page.token /\ page'.preview = page.preview
    BY <1>a, <2>1 DEF Page, Busy
  <2>3. Staged(page)'
    BY <1>a, <2>1, <2>2 DEF Staged
  <2>4. Backed(page)'
    BY <1>a, <2>1, <2>2 DEF Backed
  <2>5. LeftFiles' /\ TokensApart'
    BY <1>a, <2>1, <2>2, LeftKept, ApartFromNone
  <2> QED BY <2>2, <2>3, <2>4, <2>5 DEF PagesHaveTheirFiles, PageFile
<1>6. CASE Commit
  <2>1. /\ page.preview # None /\ left' = left /\ issued' = issued
        /\ page.token \in Token /\ page.preview.token = page.token
        /\ stage[page.token] # None /\ stage[page.token] \in Library /\ Sound(stage[page.token])
    <3>1. page.preview # None /\ left' = left /\ issued' = issued
      BY <1>6, <1>a DEF Commit, Staged
    <3> QED BY <1>a, <3>1 DEF Backed, Page
  <2>2. CASE Fresh(page.preview) /\ Apply(page.preview) /\ page' = Idle
    BY <2>1, <2>2, PageCleared DEF Apply
  <2>3. CASE /\ lib' = lib /\ stage' = stage
             /\ page' = [page EXCEPT !.busy = None, !.preview = PreviewOf(page.preview.token)]
    BY <2>1, <2>3, PreviewMade
  <2>4. CASE lib' = lib /\ stage' = Discarded(page.token) /\ page' = Idle
    BY <2>1, <2>4, PageCleared
  <2> QED BY <1>6, <2>2, <2>3, <2>4, CommitCases
<1>7. CASE Leave
  <2>1. page' = Idle /\ issued' = issued
    BY <1>7 DEF Leave
  <2>2. PageFile' /\ page'.token = None
    <3>1. Idle \in Page /\ Idle.preview = None /\ Idle.token = None /\ Idle.busy = None
      BY DEF Idle, Page
    <3>2. Staged(page)'
      BY <1>0, <2>1, <3>1 DEF Staged, Busy
    <3>3. Backed(page)'
      BY <2>1, <3>1 DEF Backed
    <3> QED BY <2>1, <3>1, <3>2, <3>3 DEF PageFile
  <2>3. CASE page.busy = "commit"
    <3>1. stage' = stage /\ left' = left \cup {page}
      BY <1>7, <2>3 DEF Leave
    <3>2. \A q \in left \cup {page} : Staged(q)' /\ Backed(q)'
      BY <1>a, <2>1, <3>1 DEF LeftFiles, Staged, Backed
    <3>3. LeftFiles'
      BY <1>a, <2>3, <3>1, <3>2 DEF LeftFiles
    <3>4. TokensApart'
      <4>1. Committing' = Committing \cup {page}
        BY <2>3, <3>1 DEF Committing
      <4>2. page.token # None
        BY <1>a, <2>3 DEF Staged, Backed
      <4>3. \A q \in Committing : q.token # None
        BY <1>a, CommittingHasAFile
      <4> QED BY <1>a, <2>2, <4>1, <4>2, <4>3 DEF TokensApart
    <3> QED BY <2>2, <3>3, <3>4 DEF PagesHaveTheirFiles
  <2>4. CASE page.busy # "commit"
    <3>1. /\ stage' = Discarded(page.token)
          /\ left' = left \cup IF page.busy = "select" THEN {page} ELSE {}
      BY <1>7, <2>4 DEF Leave
    <3>2. \A q \in Committing : stage'[q.token] = stage[q.token]
      BY <1>a, <3>1, CommittingHasAFile DEF TokensApart, Discarded
    <3>3. Committing' = Committing
      BY <2>4, <3>1 DEF Committing
    <3>4. ASSUME NEW q \in left
          PROVE  q \in Page /\ q.busy \in {"select", "commit"} /\ Staged(q)' /\ Backed(q)'
      <4>1. q \in Page /\ q.busy \in {"select", "commit"} /\ Staged(q) /\ Backed(q)
        BY <1>a DEF LeftFiles
      <4>2. Staged(q)'
        BY <2>1, <4>1 DEF Staged
      <4>3. q.busy = "select" => Backed(q)'
        BY <4>1 DEF Staged, Backed
      <4>4. q.busy = "commit" => stage'[q.token] = stage[q.token]
        BY <3>2 DEF Committing
      <4>5. q.busy = "commit" => Backed(q)'
        BY <4>1, <4>4 DEF Backed
      <4> QED BY <4>1, <4>2, <4>3, <4>5
    <3>5. page.busy = "select" => Staged(page) /\ page.preview = None /\ page.token = None
      BY <1>a DEF Staged
    <3>6. ASSUME NEW q \in left'
          PROVE  q \in Page /\ q.busy \in {"select", "commit"} /\ Staged(q)' /\ Backed(q)'
      <4>1. CASE q \in left
        BY <3>4, <4>1
      <4>2. CASE q = page /\ page.busy = "select"
        BY <1>a, <3>5, <4>2 DEF Staged, Backed
      <4> QED BY <3>1, <4>1, <4>2
    <3>7. LeftFiles'
      BY <3>6 DEF LeftFiles
    <3>8. TokensApart'
      BY <1>a, <2>2, <3>3, CommittingHasAFile DEF TokensApart
    <3> QED BY <2>2, <3>7, <3>8 DEF PagesHaveTheirFiles
  <2> QED BY <2>3, <2>4
<1>8. CASE SelectLeft
  <2>1. PICK k \in Token \ issued : issued' = issued \cup {k} /\ stage' \in {stage, [stage EXCEPT ![k] = doc]}
    BY <1>8 DEF SelectLeft
  <2>2. left' \subseteq left /\ page' = page
    BY <1>8 DEF SelectLeft
  <2>3. \A q \in Committing : stage'[q.token] = stage[q.token]
    BY <1>a, <2>1, CommittingHasAFile
  <2>4. page.token # None => page.token \in Token /\ stage'[page.token] = stage[page.token]
    BY <1>a, <2>1 DEF Staged
  <2>5. PageFile'
    <3>1. Staged(page)'
      BY <1>a, <2>1, <2>2 DEF Staged
    <3>2. Backed(page)'
      BY <1>a, <2>2, <2>4 DEF Backed
    <3> QED BY <1>a, <2>2, <3>1, <3>2 DEF PageFile
  <2>6. LeftFiles'
    BY <1>a, <2>1, <2>2, <2>3, LeftKept
  <2>7. TokensApart'
    BY <1>a, <2>2, ApartFromNone
  <2> QED BY <2>5, <2>6, <2>7 DEF PagesHaveTheirFiles
<1>9. CASE CommitLeft
  <2>1. PICK q \in left : /\ q.busy = "commit" /\ left' = left \ {q}
                         /\ IF Fresh(q.preview) THEN Apply(q.preview) ELSE UNCHANGED <<lib, stage>>
    BY <1>9 DEF CommitLeft
  <2>2. q \in Committing /\ page' = page /\ issued' = issued
    BY <1>9, <2>1 DEF CommitLeft, Committing
  <2>3. q.preview # None /\ q.token \in Token /\ q.preview.token = q.token
    BY <1>a, <2>1, <2>2, CommittingHasAFile DEF LeftFiles, Backed
  <2>4. stage' \in {stage, Discarded(q.token)}
    BY <2>1, <2>3 DEF Apply
  <2>5. \A x \in Committing : x # q => stage'[x.token] = stage[x.token]
    BY <1>a, <2>2, <2>3, <2>4, CommittingHasAFile DEF TokensApart, Discarded
  <2>6. page.token # None => stage'[page.token] = stage[page.token]
    BY <1>a, <2>2, <2>3, <2>4 DEF TokensApart, Discarded, Page
  <2>7. PageFile'
    <3>1. Staged(page)'
      BY <1>a, <2>2 DEF Staged
    <3>2. Backed(page)'
      BY <1>a, <2>2, <2>6 DEF Backed
    <3> QED BY <1>a, <2>2, <3>1, <3>2 DEF PageFile
  <2>8. LeftFiles'
    BY <1>a, <2>1, <2>2, <2>5, LeftKept
  <2>9. TokensApart'
    BY <1>a, <2>1, <2>2, ApartFromNone
  <2> QED BY <2>7, <2>8, <2>9 DEF PagesHaveTheirFiles
<1>10. CASE Restart
  <2>1. page' = Idle /\ left' = {}
    BY <1>10 DEF Restart
  <2>2. Idle \in Page /\ Idle.preview = None /\ Idle.token = None /\ Idle.busy = None
    BY DEF Idle, Page
  <2>3. PageFile'
    BY <1>0, <2>1, <2>2 DEF PageFile, Staged, Backed, Busy
  <2> QED BY <2>1, <2>3 DEF PagesHaveTheirFiles, LeftFiles, TokensApart, Committing
<1>11. CASE LibraryStep \/ ExportMobile \/ ExportDesktop \/ ExportRead \/ ImportDesktop \/ ImportRecords
  BY <1>1, <1>11 DEF LibraryStep, SaveRecord, Watch, ToggleLock, DeleteRecord, Sync,
     ExportMobile, ExportDesktop, ExportRead, ImportDesktop, ImportRecords
<1> QED BY <1>1, <1>2, <1>3, <1>4, <1>5, <1>6, <1>7, <1>8, <1>9, <1>10, <1>11 DEF Next, Import, vars
-----------------------------------------------------------------------------
(* The invariant of every reachable state.                                 *)
LEMMA InvInit == Init => Inv
<1> SUFFICES ASSUME Init PROVE Inv
  OBVIOUS
<1>1. Empty \in Library
  BY LibraryOf DEF Empty
<1>2. lib \in Library /\ Sound(lib) /\ base \in Library
  BY <1>1 DEF Init
<1>3. Idle \in Page /\ Idle.preview = None /\ Idle.token = None /\ Idle.busy = None
  BY DEF Idle, Page
<1>4. PageFile
  BY <1>3, LocalImportAssumption DEF Init, PageFile, Staged, Backed, Busy
<1> QED BY <1>2, <1>4
        DEF Init, Inv, Types, SoundLibrary, PagesHaveTheirFiles, LeftFiles, TokensApart, Committing

(* The invariant is inductive, hence holds for ever.                       *)
LEMMA InvHolds == Spec => []Inv
<1>1. Inv /\ [Next]_vars => Inv'
  BY LibraryStays, FilesStay DEF Inv
<1> QED BY InvInit, <1>1, PTL DEF Spec

(* Every state is well typed: no edit, sync or import, whatever the        *)
(* document and whoever confirms it, makes a library with a history that   *)
(* belongs to no record.                                                   *)
THEOREM TypeOKHolds == Spec => []TypeOK
<1>1. Inv => TypeOK
  BY DEF Inv, Types, SoundLibrary, PagesHaveTheirFiles, PageFile, LeftFiles, TypeOK
<1> QED BY InvHolds, <1>1, PTL

(* A preview on the screen always has its staged file: no page that was    *)
(* left takes it away, before or after a refused commit.                   *)
THEOREM PreviewsCanBeConfirmed == Spec => []PreviewHasItsFile
<1>1. Inv => PreviewHasItsFile
  BY DEF Inv, PagesHaveTheirFiles, PageFile, Backed, PreviewHasItsFile
<1> QED BY InvHolds, <1>1, PTL

(* An import leaves exactly the library that its preview showed.           *)
THEOREM ImportsAreAsPreviewed == Spec => ImportAsPreviewed
<1>1. ASSUME Inv, Commit, lib' # lib
      PROVE  lib' = page.preview.shows
  <2>1. Fresh(page.preview) /\ Apply(page.preview)
    BY <1>1, CommitCases
  <2>2. page \in Page /\ Backed(page) /\ page.preview # None
    BY <1>1 DEF Commit, Inv, PagesHaveTheirFiles, PageFile, Staged
  <2>3. /\ page.preview.token = page.token
        /\ page.preview.shows = Announced(page.preview, stage[page.token])
    BY <2>2 DEF Backed
  <2>4. page.preview.of = lib /\ page.preview.locks = locked
    BY <2>1 DEF Fresh
  <2>5. Announced(page.preview, stage[page.token]) = Replaced(stage[page.token])
    BY <2>4 DEF Announced, Replaced
  <2> QED BY <2>1, <2>3, <2>5 DEF Apply
<1>2. Inv /\ [Next]_vars => [Commit /\ lib' # lib => lib' = page.preview.shows]_vars
  BY <1>1
<1> QED BY InvHolds, <1>2, PTL DEF Spec, ImportAsPreviewed

(* A locked record and its history survive every import, sync and edit.    *)
THEOREM LockedRecordsStay == Spec => LockedStay
<1> DEFINE Stays == \A r \in locked \cap locked' :
                      lib'.rec[r] = lib.rec[r] /\ (r \in lib.hist => r \in lib'.hist)
<1>1. ASSUME Inv, Next PROVE Stays
  <2> USE <1>1
  <2>0. /\ Types /\ SoundLibrary /\ lib \in Library /\ locked \subseteq Rec
        /\ lib.rec \in [Rec -> Version \cup {None}] /\ lib.hist \subseteq Rec
        /\ \A r \in locked : lib.rec[r] # None
    BY LibraryParts DEF Inv, Types, SoundLibrary, Present
  <2>1. CASE lib' = lib
    BY <2>1
  <2>2. CASE SaveRecord
    <3>1. PICK r \in Rec \ locked, v \in Version : lib' = [lib EXCEPT !.rec[r] = v]
      BY <2>2 DEF SaveRecord
    <3>2. lib'.rec = [lib.rec EXCEPT ![r] = v] /\ lib'.hist = lib.hist
      BY <2>0, <3>1, RecordReplaced
    <3> QED BY <2>0, <3>1, <3>2
  <2>3. CASE Watch
    <3>1. PICK r \in Present(lib) \ locked : lib' = [lib EXCEPT !.hist = @ \cup {r}]
      BY <2>3 DEF Watch
    <3>2. lib'.rec = lib.rec /\ lib'.hist = lib.hist \cup {r}
      BY <2>0, <3>1 DEF Library
    <3> QED BY <3>2
  <2>4. CASE DeleteRecord
    <3>1. PICK r \in Present(lib) \ locked :
            lib' = [rec |-> [lib.rec EXCEPT ![r] = None], hist |-> lib.hist \ {r}]
      BY <2>4 DEF DeleteRecord
    <3> QED BY <2>0, <3>1
  <2>5. CASE Sync
    BY <2>0, <2>5, SyncedIsALibrary DEF Sync
  <2>6. ASSUME NEW q \in Page, Backed(q), q.preview # None, Apply(q.preview) PROVE Stays
    BY <2>0, <2>6, BackedFile, ReplacedIsALibrary DEF Apply
  <2>7. CASE Commit /\ lib' # lib
    <3>1. Apply(page.preview) /\ page \in Page /\ Backed(page) /\ page.preview # None
      BY <2>7, CommitCases DEF Commit, Inv, PagesHaveTheirFiles, PageFile, Staged
    <3> QED BY <2>6, <3>1
  <2>8. CASE CommitLeft /\ lib' # lib
    <3>1. PICK q \in left : q.busy = "commit" /\ (IF Fresh(q.preview) THEN Apply(q.preview) ELSE UNCHANGED <<lib, stage>>)
      BY <2>8 DEF CommitLeft
    <3>2. q \in Page /\ Backed(q) /\ q.preview # None /\ Apply(q.preview)
      BY <2>8, <3>1 DEF Inv, PagesHaveTheirFiles, LeftFiles, Staged
    <3> QED BY <2>6, <3>2
  <2>9. CASE ImportDesktop
    BY <2>0, <2>9, ReplacedIsALibrary DEF ImportDesktop, Types
  <2>10. CASE ImportRecords
    <3>1. doc \in Library
      BY <2>0, <2>10 DEF ImportRecords, Types
    <3>2. \A r \in locked : Replaced(doc).rec[r] = lib.rec[r]
      BY <2>0, <3>1, ReplacedIsALibrary
    <3>3. /\ lib'.rec = Replaced(doc).rec
          /\ lib'.hist = {r \in lib.hist : Replaced(doc).rec[r] # None}
      BY <2>10 DEF ImportRecords
    <3> QED BY <2>0, <3>2, <3>3
  <2>11. CASE \/ ToggleLock \/ ExportMobile \/ ExportDesktop \/ ExportRead \/ ChooseImport \/ Select
              \/ ShowPreview \/ CancelImport \/ ConfirmImport \/ Leave \/ SelectLeft \/ Restart
    BY <2>1, <2>11 DEF ToggleLock, ExportMobile, ExportDesktop, ExportRead, ChooseImport, Select,
       ShowPreview, CancelImport, ConfirmImport, Leave, SelectLeft, Restart
  <2> HIDE DEF Stays
  <2> QED BY <2>1, <2>2, <2>3, <2>4, <2>5, <2>7, <2>8, <2>9, <2>10, <2>11 DEF Next, LibraryStep, Import
<1>2. Inv /\ [Next]_vars =>
        [\A r \in locked \cap locked' : lib'.rec[r] = lib.rec[r] /\ (r \in lib.hist => r \in lib'.hist)]_vars
  BY <1>1
<1> QED BY InvHolds, <1>2, PTL DEF Spec, LockedStay

(* The Android page writes sound documents: it exports in one command what *)
(* the desktop reads in several.                                           *)
THEOREM MobileBackupsAreSound ==
  ASSUME ~Desktop
  PROVE  Spec => []BackupIsSound
<1> DEFINE Written == reading = None /\ BackupIsSound
<1>1. Init => Written
  BY DEF Init, BackupIsSound
<1>2. Inv /\ Written /\ [Next]_vars => Written'
  <2> SUFFICES ASSUME Inv, Written, [Next]_vars PROVE Written'
    OBVIOUS
  <2>1. CASE ExportMobile
    BY <2>1 DEF ExportMobile, BackupIsSound, Inv, SoundLibrary
  <2>2. CASE UNCHANGED <<doc, reading>>
    BY <2>2 DEF BackupIsSound
  <2>3. ~ExportDesktop /\ ~ExportRead
    BY DEF ExportDesktop, ExportRead
  <2>4. CASE LibraryStep \/ Import \/ Restart \/ UNCHANGED vars
    BY <2>2, <2>4 DEF LibraryStep, Import, SaveRecord, Watch, ToggleLock, DeleteRecord, Sync, ChooseImport,
       Select, ShowPreview, CancelImport, ConfirmImport, Commit, Leave, SelectLeft, CommitLeft,
       ImportDesktop, ImportRecords, Restart, vars
  <2> QED BY <2>1, <2>3, <2>4 DEF Next
<1>3. Written => BackupIsSound
  OBVIOUS
<1> QED BY InvHolds, <1>1, <1>2, <1>3, PTL DEF Spec
-----------------------------------------------------------------------------
(*                      A restore beside a sync pass                       *)

(* The theorems about WatchSyncRecovery, for the restores of this module.  *)
(* The definitions of the two instances say the same, step by step.        *)
Restored == INSTANCE WatchSyncProofs WITH
  Device <- RestoreDevice, Id <- RestoreId, Field <- RestoreField, Value <- RestoreValue,
  Locking <- FALSE, StrongETags <- TRUE, MaxPoints <- MaxCopies

(* What those theorems assume of the constants.                            *)
LEMMA RestoreAssumptions ==
  /\ Restored!NoneAssumption
  /\ Restored!FlagsAssumption /\ Restored!MaxAttemptsAssumption /\ Restored!BoundsAssumption
  /\ Restored!NoVersionAssumption
  /\ Restored!NoEntryAssumption
<1>1. Restored!NoneAssumption
  BY ImportsAssumption
    DEF Restored!NoneAssumption, Restore!NoneAssumption, Restored!Record, Restore!Record,
      Restored!Tombstone, Restore!Tombstone, Restored!Conflict, Restore!Conflict,
      Restored!ConflictKind, Restore!ConflictKind
<1>2. Restored!FlagsAssumption /\ Restored!MaxAttemptsAssumption /\ Restored!BoundsAssumption
  BY ImportsAssumption
    DEF Restored!FlagsAssumption, Restored!MaxAttemptsAssumption, Restored!BoundsAssumption,
      Restore!FlagsAssumption, Restore!MaxAttemptsAssumption, Restore!BoundsAssumption
<1>3. Restored!NoVersionAssumption
  BY ImportsAssumption
    DEF Restored!NoVersionAssumption, Restore!NoVersionAssumption, Restored!Payload, Restore!Payload,
      Restored!Commit, Restore!Commit, Restored!Side, Restore!Side, Restored!Entity, Restore!Entity,
      Restored!Record, Restore!Record, Restored!Tombstone, Restore!Tombstone
<1>4. Restored!NoEntryAssumption
  BY ImportsAssumption
    DEF Restored!NoEntryAssumption, Restore!NoEntryAssumption, Restored!Staged, Restore!Staged
<1>. QED
  BY <1>1, <1>2, <1>3, <1>4

(* A pass merges the same.                                                 *)
LEMMA SameMerged ==
  ASSUME NEW d, NEW p
  PROVE  Restored!Merged(d, p) = Restore!Merged(d, p)
<1>1. ASSUME NEW b, NEW l, NEW r, NEW e
      PROVE  Restored!MergeBothChanged(b, l, r, e) = Restore!MergeBothChanged(b, l, r, e)
  BY
    DEF Restored!MergeBothChanged, Restore!MergeBothChanged, Restored!DeletionOf, Restore!DeletionOf,
      Restored!MaxRev, Restore!MaxRev, Restored!MaxOf, Restore!MaxOf, Restored!RevOf, Restore!RevOf,
      Restored!TombEntity, Restore!TombEntity, Restored!Agree, Restore!Agree, Restored!IsLocked,
      Restore!IsLocked, Restored!MergeRecords, Restore!MergeRecords, Restored!ChangedFields,
      Restore!ChangedFields, Restored!RecordEntity, Restore!RecordEntity, Restored!ClashingFields,
      Restore!ClashingFields, Restored!ConflictOf, Restore!ConflictOf, Restored!Split, Restore!Split
<1>2. ASSUME NEW b, NEW l, NEW r, NEW frozen, NEW e
      PROVE  Restored!MergeEntity(b, l, r, frozen, e) = Restore!MergeEntity(b, l, r, frozen, e)
  BY <1>1, Zenon
    DEF Restored!MergeEntity, Restore!MergeEntity, Restored!Agree, Restore!Agree, Restored!Split,
      Restore!Split, Restored!Absent, Restore!Absent, Restored!IsLocked, Restore!IsLocked,
      Restored!SameBusiness, Restore!SameBusiness, Restored!EntityOf, Restore!EntityOf,
      Restored!TombEntity, Restore!TombEntity, Restored!RecordEntity, Restore!RecordEntity
<1>. QED
  BY <1>2
    DEF Restored!Merged, Restore!Merged, Restored!ActiveConflict, Restore!ActiveConflict,
      Restored!FileSide, Restore!FileSide, Restored!EmptySide, Restore!EmptySide, Restored!Absent,
      Restore!Absent, Restored!BaseSide, Restore!BaseSide

(* ... publishes the same                                                  *)
LEMMA SamePublish ==
  ASSUME NEW d
  PROVE  Restored!Publish(d) <=> Restore!Publish(d)
BY SameMerged
  DEF Restored!Publish, Restore!Publish, Restored!IntentOf, Restore!IntentOf, Restored!MustPublish,
    Restore!MustPublish, Restored!MergedRemote, Restore!MergedRemote, Restored!NextPayload,
    Restore!NextPayload, Restored!CommitOf, Restore!CommitOf

(* ... and commits the same.                                               *)
LEMMA SameCommit ==
  ASSUME NEW d
  PROVE  Restored!CommitWithPoint(d) <=> Restore!CommitWithPoint(d)
<1>1. ASSUME NEW p
      PROVE  /\ Restored!MustPublish(d, p) <=> Restore!MustPublish(d, p)
             /\ Restored!Confirmed(d, p) = Restore!Confirmed(d, p)
  BY SameMerged
    DEF Restored!Confirmed, Restore!Confirmed, Restored!NextPayload, Restore!NextPayload,
      Restored!CommitOf, Restore!CommitOf, Restored!MergedRemote, Restore!MergedRemote,
      Restored!MustPublish, Restore!MustPublish
<1>2. ASSUME NEW x, NEW m, NEW c, NEW e
      PROVE  Restored!Committed(x, m, c, e) = Restore!Committed(x, m, c, e)
  BY
    DEF Restored!Committed, Restore!Committed, Restored!StagedAfter, Restore!StagedAfter,
      Restored!CommittedSide, Restore!CommittedSide, Restored!IsLocked, Restore!IsLocked
<1>3. Restored!CommitPass(d) <=> Restore!CommitPass(d)
  BY SameMerged, <1>1, <1>2
    DEF Restored!CommitPass, Restore!CommitPass, Restored!Idle, Restore!Idle
<1>. QED
  BY <1>3
    DEF Restored!CommitWithPoint, Restore!CommitWithPoint, Restored!Saved, Restore!Saved

(* The other steps of a device are the same, too.                          *)
LEMMA SameSteps ==
  ASSUME NEW d
  PROVE  /\ Restored!CreatePoint(d) <=> Restore!CreatePoint(d)
         /\ \A i : Restored!RestorePoint(d, i) <=> Restore!RestorePoint(d, i)
         /\ Restored!LocalWrite(d) <=> Restore!LocalWrite(d)
         /\ Restored!StartPass(d) <=> Restore!StartPass(d)
         /\ Restored!Fetch(d) <=> Restore!Fetch(d)
         /\ Restored!AskETag(d) <=> Restore!AskETag(d)
         /\ Restored!ReadReply(d) <=> Restore!ReadReply(d)
         /\ Restored!Verify(d) <=> Restore!Verify(d)
         /\ Restored!Abort(d) <=> Restore!Abort(d)
<1>1. Restored!CreatePoint(d) <=> Restore!CreatePoint(d)
  BY
    DEF Restored!CreatePoint, Restore!CreatePoint, Restored!vars, Restore!vars, Restored!Saved,
      Restore!Saved
<1>2. \A i : Restored!RestorePoint(d, i) <=> Restore!RestorePoint(d, i)
  BY
    DEF Restored!RestorePoint, Restore!RestorePoint, Restored!Requeued, Restore!Requeued,
      Restored!Saved, Restore!Saved
<1>3. Restored!LocalWrite(d) <=> Restore!LocalWrite(d)
  BY
    DEF Restored!LocalWrite, Restore!LocalWrite, Restored!ResolveConflict, Restore!ResolveConflict,
      Restored!Write, Restore!Write, Restored!Written, Restore!Written, Restored!Stage, Restore!Stage,
      Restored!TombEntity, Restore!TombEntity, Restored!RecordEntity, Restore!RecordEntity,
      Restored!Chosen, Restore!Chosen, Restored!Resolution, Restore!Resolution, Restored!DeleteRecord,
      Restore!DeleteRecord, Restored!ToggleLock, Restore!ToggleLock, Restored!UpdateRecord,
      Restore!UpdateRecord, Restored!EditField, Restore!EditField, Restored!InsertRecord,
      Restore!InsertRecord, Restored!RevOf, Restore!RevOf
<1>4. Restored!StartPass(d) <=> Restore!StartPass(d)
  BY
    DEF Restored!StartPass, Restore!StartPass, Restored!Idle, Restore!Idle
<1>5. Restored!Fetch(d) <=> Restore!Fetch(d)
  BY
    DEF Restored!Fetch, Restore!Fetch, Restored!File, Restore!File, Restored!CommitOf, Restore!CommitOf
<1>6. Restored!AskETag(d) <=> Restore!AskETag(d)
  BY
    DEF Restored!AskETag, Restore!AskETag, Restored!File, Restore!File, Restored!CommitOf,
      Restore!CommitOf
<1>7. Restored!ReadReply(d) <=> Restore!ReadReply(d)
  BY
    DEF Restored!ReadReply, Restore!ReadReply, Restored!NextAttempt, Restore!NextAttempt, Restored!Idle,
      Restore!Idle
<1>8. Restored!Verify(d) <=> Restore!Verify(d)
  BY
    DEF Restored!Verify, Restore!Verify, Restored!NextAttempt, Restore!NextAttempt, Restored!Idle,
      Restore!Idle, Restored!File, Restore!File, Restored!CommitOf, Restore!CommitOf
<1>9. Restored!Abort(d) <=> Restore!Abort(d)
  BY
    DEF Restored!Abort, Restore!Abort, Restored!Idle, Restore!Idle
<1>. QED
  BY <1>1, <1>2, <1>3, <1>4, <1>5, <1>6, <1>7, <1>8, <1>9

(* And so are the states and steps of the whole.                           *)
LEMMA SameRestore ==
  /\ Restore!RecoveryInit => Restored!RecoveryInit
  /\ Restore!RecoveryNext => Restored!RecoveryNext
  /\ UNCHANGED RestoreVars => UNCHANGED Restored!allVars
  /\ Restored!CleanMeansPublished => Restore!CleanMeansPublished
<1>1. Restore!RecoveryInit => Restored!RecoveryInit
  BY
    DEF Restored!RecoveryInit, Restore!RecoveryInit, Restored!Init, Restore!Init, Restored!Idle,
      Restore!Idle, Restored!EmptyDb, Restore!EmptyDb, Restored!EmptySide, Restore!EmptySide,
      Restored!Absent, Restore!Absent
<1>2. ASSUME NEW put
      PROVE  Restored!Serve(put) <=> Restore!Serve(put)
  BY
    DEF Restored!Serve, Restore!Serve, Restored!StillWaiting, Restore!StillWaiting, Restored!File,
      Restore!File, Restored!CommitOf, Restore!CommitOf
<1>3. Restore!RecoveryNext => Restored!RecoveryNext
  BY <1>2, SamePublish, SameCommit, SameSteps DEF Restored!RecoveryNext, Restore!RecoveryNext
<1>4. UNCHANGED RestoreVars => UNCHANGED Restored!allVars
  BY DEF Restored!allVars, Restored!vars, RestoreVars
<1>5. Restored!CleanMeansPublished => Restore!CleanMeansPublished
  BY
    DEF Restored!CleanMeansPublished, Restore!CleanMeansPublished, Restored!BaselineSide,
      Restore!BaselineSide, Restored!EmptySide, Restore!EmptySide, Restored!Absent, Restore!Absent,
      Restored!IsLocked, Restore!IsLocked
<1>. QED
  BY <1>1, <1>3, <1>4, <1>5

(* A library is clean only when it is published, also when a recovery      *)
(* point is restored while a sync pass is under way.                       *)
THEOREM RestoredIsRequeued == AllSpec => []RestoredMeansPublished
<1>1. AllInit => part # "restore" \/ (part = "restore" /\ Restored!RecoveryInit)
  BY SameRestore DEF AllInit
<1>2. part = "restore" /\ [AllNext]_allVars => [Restored!RecoveryNext]_(Restored!allVars) /\ (part = "restore")'
  BY SameRestore DEF AllNext, allVars
<1>3. part # "restore" /\ [AllNext]_allVars => (part # "restore")'
  BY DEF AllNext, allVars
<1>4. Restored!RecoverySpec => []Restored!CleanMeansPublished
  BY RestoreAssumptions, Restored!RestoredIsPublished
<1>5. /\ Restored!CleanMeansPublished => RestoredMeansPublished
      /\ part # "restore" => RestoredMeansPublished
  BY SameRestore DEF RestoredMeansPublished
<1>. QED
  BY <1>1, <1>2, <1>3, <1>4, <1>5, PTL DEF AllSpec, Restored!RecoverySpec
-----------------------------------------------------------------------------
(*                  The imports from the cloud and the passes              *)

Merge == INSTANCE SyncMergeProofs

Entities(s) == s \in [LegacyId -> Merge!Entity]

(* The import under way holds what it read; until the library moves this   *)
(* is the library, which was in step with the file.                        *)
ReadInStep ==
  import # None =>
    /\ import.gen \in Nat /\ import.gen <= gen
    /\ Entities(import.snap) /\ Entities(import.base) /\ Entities(import.v3) /\ Entities(import.old)
    /\ \A i \in LegacyId : Merge!Single(import.v3[i])
    /\ import.gen = gen => records = import.v3

(* The file is never silent about a record, and holds it or its deletion.  *)
FileSpeaks == \A i \in LegacyId : cloud[i] # Merge!Absent /\ Merge!Single(cloud[i])

(* What this user left alone, and has not to decide, is as it was last     *)
(* agreed; and a deletion the user did not ask for is an agreed one.       *)
LeftAlone ==
  \A i \in LegacyId : conflicts[i] = None =>
    /\ i \notin edited => records[i] = baseline[i]
    /\ records[i].tomb # None /\ i \notin tombed => baseline[i].rec = None

LegacyTypes ==
  /\ Entities(records) /\ Entities(baseline) /\ Entities(cloud) /\ Entities(legacy) /\ gen \in Nat
  /\ conflicts \in [LegacyId -> Merge!Conflict \cup {None}]
  /\ copy # None => Entities(copy)

LegacyInv == LegacyTypes /\ ReadInStep /\ FileSpeaks /\ LeftAlone

(* What the theorems about the merge assume, and a device and a value.     *)
LEMMA LegacyConstants ==
  /\ Merge!NoneAssumption /\ Me \in Device /\ Other \in Device /\ Value # {}
  /\ None \notin Merge!Record /\ None \notin Merge!Tombstone /\ None \notin Merge!Conflict
<1>1. Merge!NoneAssumption
  BY ImportsAssumption
    DEF Merge!NoneAssumption, Legacy!NoneAssumption, Merge!Record, Legacy!Record, Merge!Tombstone,
      Legacy!Tombstone, Merge!Conflict, Legacy!Conflict, Merge!ConflictKind, Legacy!ConflictKind
<1>. QED
  BY <1>1, ImportsAssumption DEF Legacy!LegacyImportAssumption, Merge!NoneAssumption

(* The passes of LegacyImport merge as SyncMerge does.                     *)
LEMMA SameMergeEntity ==
  ASSUME NEW b, NEW l, NEW r, NEW frozen, NEW d
  PROVE  Legacy!MergeEntity(b, l, r, frozen, d) = Merge!MergeEntity(b, l, r, frozen, d)
<1>1. ASSUME NEW x, NEW y, NEW z
      PROVE  Legacy!MergeBothChanged(x, y, z, d) = Merge!MergeBothChanged(x, y, z, d)
  BY
    DEF Legacy!MergeBothChanged, Merge!MergeBothChanged, Legacy!DeletionOf, Merge!DeletionOf,
      Legacy!MaxRev, Merge!MaxRev, Legacy!MaxOf, Merge!MaxOf, Legacy!RevOf, Merge!RevOf,
      Legacy!TombEntity, Merge!TombEntity, Legacy!Agree, Merge!Agree, Legacy!IsLocked, Merge!IsLocked,
      Legacy!MergeRecords, Merge!MergeRecords, Legacy!ChangedFields, Merge!ChangedFields,
      Legacy!RecordEntity, Merge!RecordEntity, Legacy!ClashingFields, Merge!ClashingFields,
      Legacy!ConflictOf, Merge!ConflictOf, Legacy!Split, Merge!Split
<1>. QED
  BY <1>1, Zenon
    DEF Legacy!MergeEntity, Merge!MergeEntity, Legacy!Agree, Merge!Agree, Legacy!Split, Merge!Split,
      Legacy!Absent, Merge!Absent, Legacy!IsLocked, Merge!IsLocked, Legacy!SameBusiness,
      Merge!SameBusiness, Legacy!EntityOf, Merge!EntityOf, Legacy!TombEntity, Merge!TombEntity,
      Legacy!RecordEntity, Merge!RecordEntity

(* A record and a deletion are entities of their own.                      *)
LEMMA EntitiesMade ==
  /\ \A r \in Merge!Record :
       /\ Legacy!RecordEntity(r) \in Merge!Entity /\ Legacy!RecordEntity(r) # Merge!Absent
       /\ Legacy!RecordEntity(r).rec # None /\ Legacy!RecordEntity(r).tomb = None
  /\ \A t \in Merge!Tombstone :
       /\ Legacy!TombEntity(t) \in Merge!Entity /\ Legacy!TombEntity(t) # Merge!Absent
       /\ Legacy!TombEntity(t).rec = None /\ Legacy!TombEntity(t).tomb # None
BY LegacyConstants DEF Legacy!RecordEntity, Legacy!TombEntity, Merge!Entity, Merge!Absent

(* The first version of a record.                                          *)
LEMMA FirstIsARecord ==
  ASSUME NEW by \in Device
  PROVE  \E r \in Merge!Record : Legacy!First(by) = Legacy!RecordEntity(r)
<1>. DEFINE r == [f |-> [x \in Field |-> CHOOSE v \in Value : TRUE], locked |-> FALSE, rev |-> 1, actor |-> by]
<1>1. (CHOOSE v \in Value : TRUE) \in Value
  BY LegacyConstants
<1>2. r \in Merge!Record
  BY <1>1 DEF Merge!Record
<1>. QED
  BY <1>2 DEF Legacy!First

(* The next version of a record, with another field or lock.               *)
LEMMA NextVersion ==
  ASSUME NEW r \in Merge!Record, NEW by \in Device
  PROVE  /\ [r EXCEPT !.locked = ~@, !.rev = @ + 1, !.actor = by] \in Merge!Record
         /\ \A p \in Field \X Value :
              [r EXCEPT !.f[p[1]] = p[2], !.rev = @ + 1, !.actor = by] \in Merge!Record
<1>. DEFINE Later(s) == [[s EXCEPT !.rev = @ + 1] EXCEPT !.actor = by]
<1>1. ASSUME NEW s \in Merge!Record
      PROVE  Later(s) \in Merge!Record
  <2>1. [s EXCEPT !.rev = @ + 1] \in Merge!Record
    BY DEF Merge!Record
  <2>. QED
    BY <2>1 DEF Merge!Record
<1>2. [r EXCEPT !.locked = ~@] \in Merge!Record
  BY DEF Merge!Record
<1>3. ASSUME NEW p \in Field \X Value
      PROVE  [r EXCEPT !.f[p[1]] = p[2]] \in Merge!Record
  <2>1. [r EXCEPT !.f = [r.f EXCEPT ![p[1]] = p[2]]] \in Merge!Record
    BY DEF Merge!Record
  <2>. QED
    BY <2>1
<1>4. [r EXCEPT !.locked = ~@, !.rev = @ + 1, !.actor = by] = Later([r EXCEPT !.locked = ~@])
  BY DEF Merge!Record
<1>5. ASSUME NEW p \in Field \X Value
      PROVE  [r EXCEPT !.f[p[1]] = p[2], !.rev = @ + 1, !.actor = by] = Later([r EXCEPT !.f[p[1]] = p[2]])
  BY DEF Merge!Record
<1>. QED
  BY <1>1, <1>2, <1>3, <1>4, <1>5

(* An edit makes a record or a deletion of what it found.                  *)
LEMMA EditsMakeEntities ==
  ASSUME NEW e \in Merge!Entity, NEW by \in Device,
         NEW x \in Legacy!Changed(e, by) \cup Legacy!Locked(e)
  PROVE  /\ x \in Merge!Entity /\ x # Merge!Absent /\ Merge!Single(x)
         /\ x.rec # None => x.tomb = None
<1>1. \/ \E r \in Merge!Record : x = Legacy!RecordEntity(r)
      \/ \E t \in Merge!Tombstone : x = Legacy!TombEntity(t)
  <2>1. CASE e.rec = None
    <3>1. Legacy!RevOf(e.tomb) \in Nat
      BY DEF Legacy!RevOf, Merge!Entity, Merge!Tombstone
    <3>2. PICK r \in Merge!Record : Legacy!First(by) = Legacy!RecordEntity(r)
      BY FirstIsARecord
    <3>3. x = Legacy!RecordEntity([r EXCEPT !.rev = Legacy!RevOf(e.tomb) + 1])
      BY <2>1, <3>2 DEF Legacy!Changed, Legacy!Locked, Legacy!RecordEntity
    <3>4. [r EXCEPT !.rev = Legacy!RevOf(e.tomb) + 1] \in Merge!Record
      BY <3>1 DEF Merge!Record
    <3>. QED
      BY <3>3, <3>4
  <2>2. CASE e.rec # None
    <3>1. e.rec \in Merge!Record
      BY <2>2 DEF Merge!Entity
    <3>2. CASE x \in Legacy!Locked(e)
      <4>1. x = Legacy!RecordEntity([e.rec EXCEPT !.locked = ~@, !.rev = @ + 1, !.actor = Me])
        BY <2>2, <3>2 DEF Legacy!Locked
      <4>2. [e.rec EXCEPT !.locked = ~@, !.rev = @ + 1, !.actor = Me] \in Merge!Record
        BY <3>1, LegacyConstants, NextVersion
      <4>. QED
        BY <4>1, <4>2
    <3>3. CASE x \in Legacy!Changed(e, by)
      <4>1. \/ x = Legacy!TombEntity([rev |-> e.rec.rev + 1, actor |-> by])
            \/ \E p \in Field \X Value :
                 x = Legacy!RecordEntity([e.rec EXCEPT !.f[p[1]] = p[2], !.rev = @ + 1, !.actor = by])
        BY <2>2, <3>3 DEF Legacy!Changed
      <4>2. [rev |-> e.rec.rev + 1, actor |-> by] \in Merge!Tombstone
        BY <3>1 DEF Merge!Record, Merge!Tombstone
      <4>3. ASSUME NEW p \in Field \X Value
            PROVE  [e.rec EXCEPT !.f[p[1]] = p[2], !.rev = @ + 1, !.actor = by] \in Merge!Record
        BY <3>1, NextVersion
      <4>. QED
        BY <4>1, <4>2, <4>3
    <3>. QED
      BY <3>2, <3>3
  <2>. QED
    BY <2>1, <2>2
<1>. QED
  BY <1>1, EntitiesMade DEF Merge!Single

(* What a pass makes of a record whose entry in the file is not silent.    *)
LEMMA PassMerges ==
  ASSUME NEW b \in Merge!Entity, NEW l \in Merge!Entity, NEW r \in Merge!Entity,
         NEW frozen \in Merge!Conflict \cup {None}, r # Merge!Absent, Merge!Single(r),
         NEW m, m = Merge!MergeEntity(b, l, r, frozen, Me)
  PROVE  /\ m.local \in Merge!Entity /\ m.remote \in Merge!Entity
         /\ m.conflict \in Merge!Conflict \cup {None}
         /\ m.remote # Merge!Absent /\ Merge!Single(m.remote)
         /\ m.conflict = None => m.local = m.remote
         /\ frozen # None \/ l = b => m.remote = r
         /\ r.rec # None /\ m.remote.rec = None => b.rec # None /\ l.tomb # None
<1>. DEFINE common == Merge!EntityOf(b, Merge!Absent)
            local  == Merge!EntityOf(l, common)
            remote == Merge!EntityOf(r, common)
<1>1. Merge!NoneAssumption /\ Me \in Device
  BY LegacyConstants
<1>10. common \in Merge!Entity /\ local \in Merge!Entity /\ remote \in Merge!Entity
  BY Merge!EntityOfType, Merge!EntityOfSingle DEF Merge!Entity, Merge!Absent, Merge!EntityOf, Merge!RecordEntity, Merge!TombEntity
<1>2. m \in Merge!MergeResult
  BY <1>1, Merge!MergeEntityType
<1>3. m.remote # Merge!Absent /\ Merge!Single(m.remote)
  BY <1>1, Merge!MentionSurvives, Merge!MergeIsSingle
<1>4. m.conflict = None => m.local = m.remote
  BY <1>1, Merge!MergeIsFaithful DEF Merge!Faithful
<1>5. remote = r
  BY <1>1, Merge!EntityOfSingle DEF Merge!EntityOf, Merge!RecordEntity, Merge!TombEntity, Merge!Single,
    Merge!Absent, Merge!Entity
<1>6. l = b => local = common
  BY DEF Merge!EntityOf, Merge!RecordEntity, Merge!TombEntity, Merge!Absent
<1>7. frozen # None \/ l = b => m.remote = r
  BY <1>5, <1>6 DEF Merge!MergeEntity, Merge!Split, Merge!Agree
<1>8. ASSUME r.rec # None, m.remote.rec = None
      PROVE  b.rec # None /\ l.tomb # None
  <2>1. frozen = None /\ local # common /\ m.remote # remote
    BY <1>5, <1>8 DEF Merge!MergeEntity, Merge!Split, Merge!Agree
  <2>2. CASE remote = common
    BY <2>1, <2>2, <1>5, <1>8 DEF Merge!MergeEntity, Merge!Split, Merge!Agree, Merge!EntityOf,
      Merge!RecordEntity, Merge!TombEntity, Merge!Absent
  <2>3. CASE remote # common
    <3>1. m = Merge!MergeBothChanged(common, local, remote, Me)
      BY <2>1, <2>3, <1>5, <1>8 DEF Merge!MergeEntity, Merge!Split, Merge!Agree
    <3>2. \A x, y, z \in Merge!Record : Merge!MergeRecords(x, y, z, Me) # None
      BY <1>1, LegacyConstants, Merge!MergeRecordsType
    <3>3. {common.rec, local.rec, remote.rec} \subseteq Merge!Record \cup {None}
      BY <1>10 DEF Merge!Entity
    <3>. QED
      BY <2>1, <3>1, <3>2, <3>3, <1>5, <1>8
        DEF Merge!MergeBothChanged, Merge!Split, Merge!Agree, Merge!RecordEntity
  <2>. QED
    BY <2>2, <2>3
<1>. QED
  BY <1>2, <1>3, <1>4, <1>7, <1>8 DEF Merge!MergeResult

(* At the start everything is in step.                                     *)
LEMMA LegacyInit == Legacy!Init => LegacyInv
<1>. HAVE Legacy!Init
<1>1. PICK r \in Merge!Record : Legacy!First(Me) = Legacy!RecordEntity(r)
  BY FirstIsARecord, LegacyConstants
<1>. DEFINE e == Legacy!First(Me)
<1>2. e \in Merge!Entity /\ e # Merge!Absent /\ e.tomb = None
  BY <1>1, EntitiesMade
<1>. HIDE DEF e
<1>3. /\ records = [i \in LegacyId |-> e] /\ cloud = records /\ baseline = records
      /\ legacy \in {records, [i \in LegacyId |-> Legacy!Absent]} /\ gen = 0 /\ import = None
      /\ conflicts = [i \in LegacyId |-> None] /\ copy = None
  BY DEF Legacy!Init, e
<1>4. Legacy!Absent \in Merge!Entity
  BY DEF Legacy!Absent, Merge!Entity
<1>5. LegacyTypes
  BY <1>2, <1>3, <1>4 DEF LegacyTypes, Entities
<1>6. FileSpeaks /\ ReadInStep
  BY <1>2, <1>3 DEF FileSpeaks, ReadInStep, Merge!Single
<1>7. LeftAlone
  BY <1>2, <1>3 DEF LeftAlone
<1>. QED
  BY <1>5, <1>6, <1>7 DEF LegacyInv

(* What a pass makes of the library, the file and the conflicts.           *)
LEMMA PassLeaves ==
  ASSUME LegacyInv, Legacy!Sync
  PROVE  /\ Entities(records') /\ Entities(cloud') /\ baseline' = cloud'
         /\ conflicts' \in [LegacyId -> Merge!Conflict \cup {None}]
         /\ \A i \in LegacyId :
              /\ cloud'[i] # Merge!Absent /\ Merge!Single(cloud'[i])
              /\ conflicts'[i] = None => records'[i] = cloud'[i]
              /\ conflicts[i] # None \/ records[i] = baseline[i] => cloud'[i] = cloud[i]
              /\ cloud[i].rec # None /\ cloud'[i].rec = None =>
                   baseline[i].rec # None /\ records[i].tomb # None
<1>. DEFINE m(i) == Legacy!Merged(i)
<1>1. ASSUME NEW i \in LegacyId
      PROVE  /\ m(i).local \in Merge!Entity /\ m(i).remote \in Merge!Entity
             /\ m(i).conflict \in Merge!Conflict \cup {None}
             /\ m(i).remote # Merge!Absent /\ Merge!Single(m(i).remote)
             /\ m(i).conflict = None => m(i).local = m(i).remote
             /\ conflicts[i] # None \/ records[i] = baseline[i] => m(i).remote = cloud[i]
             /\ cloud[i].rec # None /\ m(i).remote.rec = None =>
                  baseline[i].rec # None /\ records[i].tomb # None
  <2>1. /\ baseline[i] \in Merge!Entity /\ records[i] \in Merge!Entity /\ cloud[i] \in Merge!Entity
        /\ conflicts[i] \in Merge!Conflict \cup {None}
        /\ cloud[i] # Merge!Absent /\ Merge!Single(cloud[i])
    BY DEF LegacyInv, LegacyTypes, Entities, FileSpeaks
  <2>2. m(i) = Merge!MergeEntity(baseline[i], records[i], cloud[i], conflicts[i], Me)
    BY SameMergeEntity DEF Legacy!Merged
  <2>. HIDE DEF m
  <2>. QED
    BY <2>1, <2>2, PassMerges
<1>2. /\ records' = [i \in LegacyId |-> m(i).local]
      /\ cloud' = [i \in LegacyId |-> m(i).remote]
      /\ baseline' = cloud'
      /\ conflicts' = [i \in LegacyId |-> m(i).conflict]
  BY DEF Legacy!Sync
<1>. HIDE DEF m
<1>. QED
  BY <1>1, <1>2 DEF Entities

(* A pass publishes what this user changed or decided, and deletes only    *)
(* what this user has deleted.                                             *)
LEMMA PassPublishes ==
  ASSUME LegacyInv
  PROVE  Legacy!PublishesOnlyEditsStep /\ Legacy!DeletesOnlyWhatWasDeletedStep
<1>1. Legacy!PublishesOnlyEditsStep
  BY PassLeaves DEF LegacyInv, LeftAlone, Legacy!PublishesOnlyEditsStep
<1>2. Legacy!DeletesOnlyWhatWasDeletedStep
  BY PassLeaves DEF LegacyInv, LeftAlone, Legacy!DeletesOnlyWhatWasDeletedStep
<1>. QED
  BY <1>1, <1>2

(* A pass keeps what this user left alone in step with the file.           *)
LEMMA PassKeeps ==
  ASSUME LegacyInv, Legacy!Sync
  PROVE  LegacyInv'
<1>1. /\ gen' = IF records' = records THEN gen ELSE gen + 1
      /\ UNCHANGED <<legacy, import, copy>>
  BY DEF Legacy!Sync
<1>2. LegacyTypes' /\ FileSpeaks'
  BY <1>1, PassLeaves DEF LegacyInv, LegacyTypes, FileSpeaks, Entities
<1>3. LeftAlone'
  BY PassLeaves DEF LeftAlone, Merge!Single
<1>4. ReadInStep'
  BY <1>1 DEF LegacyInv, LegacyTypes, ReadInStep, Entities
<1>. QED
  BY <1>2, <1>3, <1>4 DEF LegacyInv

(* An edit of this user changes one record and says so.                    *)
LEMMA EditKeeps ==
  ASSUME LegacyInv, NEW i \in LegacyId, Legacy!EditHere(i)
  PROVE  LegacyInv'
<1>1. PICK e \in Legacy!Changed(records[i], Me) \cup Legacy!Locked(records[i]) :
        /\ records' = [records EXCEPT ![i] = e]
        /\ tombed' = IF e.rec = None THEN tombed \cup {i} ELSE tombed \ {i}
  BY DEF Legacy!EditHere
<1>2. /\ gen' = gen + 1 /\ edited' = edited \cup {i}
      /\ UNCHANGED <<baseline, conflicts, cloud, legacy, import, copy>>
  BY DEF Legacy!EditHere
<1>3. records[i] \in Merge!Entity /\ Entities(records)
  BY DEF LegacyInv, LegacyTypes, Entities
<1>4. e \in Merge!Entity /\ (e.rec # None => e.tomb = None)
  BY <1>3, EditsMakeEntities, LegacyConstants
<1>5. Entities(records') /\ records'[i] = e /\ \A j \in LegacyId : j # i => records'[j] = records[j]
  BY <1>1, <1>3, <1>4 DEF Entities
<1>6. LegacyTypes' /\ FileSpeaks'
  BY <1>2, <1>5 DEF LegacyInv, LegacyTypes, FileSpeaks, Entities
<1>7. ReadInStep'
  BY <1>2 DEF LegacyInv, LegacyTypes, ReadInStep, Entities
<1>8. LeftAlone'
  BY <1>1, <1>2, <1>4, <1>5 DEF LegacyInv, LeftAlone
<1>. QED
  BY <1>6, <1>7, <1>8 DEF LegacyInv

(* What another device publishes, or the old file gets, is an entity.      *)
LEMMA OthersEdit ==
  ASSUME LegacyInv, NEW i \in LegacyId, Legacy!EditThere(i) \/ Legacy!EditLegacy(i)
  PROVE  LegacyInv'
<1>1. ASSUME NEW s, Entities(s), NEW e \in Legacy!Changed(s[i], Other)
      PROVE  /\ Entities([s EXCEPT ![i] = e])
             /\ e # Merge!Absent /\ Merge!Single(e)
  <2>1. s[i] \in Merge!Entity
    BY <1>1 DEF Entities
  <2>2. e \in Merge!Entity /\ e # Merge!Absent /\ Merge!Single(e)
    BY <1>1, <2>1, EditsMakeEntities, LegacyConstants
  <2>. QED
    BY <1>1, <2>2 DEF Entities
<1>2. Entities(cloud) /\ Entities(legacy)
  BY DEF LegacyInv, LegacyTypes
<1>3. CASE Legacy!EditThere(i)
  <2>1. PICK e \in Legacy!Changed(cloud[i], Other) : cloud' = [cloud EXCEPT ![i] = e]
    BY <1>3 DEF Legacy!EditThere
  <2>2. UNCHANGED <<records, gen, baseline, conflicts, legacy, import, edited, tombed, copy>>
    BY <1>3 DEF Legacy!EditThere
  <2>3. Entities(cloud') /\ e # Merge!Absent /\ Merge!Single(e)
    BY <1>1, <1>2, <2>1
  <2>4. LegacyTypes' /\ FileSpeaks'
    BY <2>1, <2>2, <2>3 DEF LegacyInv, LegacyTypes, FileSpeaks, Entities
  <2>5. ReadInStep' /\ LeftAlone'
    BY <2>2 DEF LegacyInv, ReadInStep, LeftAlone, Entities
  <2>. QED
    BY <2>4, <2>5 DEF LegacyInv
<1>4. CASE Legacy!EditLegacy(i)
  <2>1. PICK e \in Legacy!Changed(legacy[i], Other) : legacy' = [legacy EXCEPT ![i] = e]
    BY <1>4 DEF Legacy!EditLegacy
  <2>2. UNCHANGED <<records, gen, baseline, conflicts, cloud, import, edited, tombed, copy>>
    BY <1>4 DEF Legacy!EditLegacy
  <2>3. Entities(legacy')
    BY <1>1, <1>2, <2>1
  <2>4. LegacyTypes' /\ FileSpeaks'
    BY <2>2, <2>3 DEF LegacyInv, LegacyTypes, FileSpeaks, Entities
  <2>5. ReadInStep' /\ LeftAlone'
    BY <2>2 DEF LegacyInv, ReadInStep, LeftAlone, Entities
  <2>. QED
    BY <2>4, <2>5 DEF LegacyInv
<1>. QED
  BY <1>3, <1>4

(* A decision of the user puts a version in place and counts as an edit.   *)
LEMMA ResolveKeeps ==
  ASSUME LegacyInv, NEW i \in LegacyId, NEW choice \in {"local", "remote"}, Legacy!Resolve(i, choice)
  PROVE  LegacyInv'
<1>. DEFINE r == IF choice = "local" THEN conflicts[i].local ELSE conflicts[i].remote
            e == IF r # None THEN Legacy!RecordEntity(r) ELSE Legacy!TombEntity([rev |-> 0, actor |-> Me])
<1>1. /\ records' = [records EXCEPT ![i] = e] /\ conflicts' = [conflicts EXCEPT ![i] = None]
      /\ gen' = gen + 1 /\ edited' = edited \cup {i}
      /\ tombed' = IF r = None THEN tombed \cup {i} ELSE tombed \ {i}
      /\ UNCHANGED <<baseline, cloud, legacy, import, copy>>
      /\ conflicts[i] # None
  BY DEF Legacy!Resolve
<1>2. conflicts[i] \in Merge!Conflict
  BY <1>1 DEF LegacyInv, LegacyTypes
<1>3. r \in Merge!Record \cup {None} /\ [rev |-> 0, actor |-> Me] \in Merge!Tombstone
  BY <1>2, LegacyConstants DEF Merge!Conflict, Merge!Tombstone
<1>4. e \in Merge!Entity /\ (r # None => e.tomb = None)
  BY <1>3, EntitiesMade
<1>. HIDE DEF e, r
<1>5. /\ Entities(records') /\ conflicts' \in [LegacyId -> Merge!Conflict \cup {None}]
      /\ records'[i] = e /\ conflicts'[i] = None
      /\ \A j \in LegacyId : j # i => records'[j] = records[j] /\ conflicts'[j] = conflicts[j]
  BY <1>1, <1>4 DEF LegacyInv, LegacyTypes, Entities
<1>6. LegacyTypes' /\ FileSpeaks'
  BY <1>1, <1>5 DEF LegacyInv, LegacyTypes, FileSpeaks, Entities
<1>7. ReadInStep'
  BY <1>1 DEF LegacyInv, LegacyTypes, ReadInStep, Entities
<1>8. LeftAlone'
  BY <1>1, <1>4, <1>5 DEF LegacyInv, LeftAlone
<1>. QED
  BY <1>6, <1>7, <1>8 DEF LegacyInv

(* An import reads while the library is in step with the file.             *)
LEMMA ReadKeeps ==
  ASSUME LegacyInv, Legacy!ImportReads
  PROVE  LegacyInv'
<1>1. /\ import' = [gen |-> gen, snap |-> records, base |-> baseline, v3 |-> cloud, old |-> legacy]
      /\ records = cloud
      /\ UNCHANGED <<records, gen, baseline, conflicts, cloud, legacy, edited, tombed, copy>>
  BY DEF Legacy!ImportReads
<1>2. LegacyTypes' /\ FileSpeaks' /\ LeftAlone'
  BY <1>1 DEF LegacyInv, LegacyTypes, FileSpeaks, LeftAlone, Entities
<1>3. ReadInStep'
  BY <1>1 DEF LegacyInv, LegacyTypes, FileSpeaks, ReadInStep, Entities
<1>. QED
  BY <1>2, <1>3 DEF LegacyInv

(* What an import commits was read while the library was what it is now.   *)
LEMMA ImportKeeps ==
  ASSUME LegacyInv, Legacy!ImportCommits
  PROVE  LegacyInv'
<1>1. import # None /\ import' = None /\ UNCHANGED <<records, gen, cloud, legacy, edited, tombed, copy>>
  BY DEF Legacy!ImportCommits
<1>2. CASE gen # import.gen
  <2>1. UNCHANGED <<baseline, conflicts>>
    BY <1>2 DEF Legacy!ImportCommits
  <2>. QED
    BY <1>1, <2>1 DEF LegacyInv, LegacyTypes, FileSpeaks, LeftAlone, ReadInStep, Entities
<1>3. CASE gen = import.gen
  <2>1. /\ baseline' = import.v3
        /\ conflicts' = [i \in LegacyId |-> IF Legacy!Difference(i) THEN Legacy!ImportedConflict(i) ELSE conflicts[i]]
    BY <1>3 DEF Legacy!ImportCommits
  <2>2. /\ Entities(import.snap) /\ Entities(import.base) /\ Entities(import.v3) /\ Entities(import.old)
        /\ records = import.v3 /\ \A i \in LegacyId : Merge!Single(import.v3[i])
    BY <1>1, <1>3 DEF LegacyInv, ReadInStep
  <2>3. ASSUME NEW i \in LegacyId
        PROVE  Legacy!ImportedConflict(i) \in Merge!Conflict
    <3>1. import.snap[i].rec \in Merge!Record \cup {None} /\ import.old[i].rec \in Merge!Record \cup {None}
      BY <2>2 DEF Entities, Merge!Entity
    <3>. QED
      BY <3>1 DEF Legacy!ImportedConflict, Merge!Conflict, Merge!ConflictKind
  <2>4. conflicts' \in [LegacyId -> Merge!Conflict \cup {None}]
    BY <2>1, <2>3 DEF LegacyInv, LegacyTypes
  <2>5. LegacyTypes' /\ FileSpeaks' /\ ReadInStep'
    BY <1>1, <2>1, <2>2, <2>4 DEF LegacyInv, LegacyTypes, FileSpeaks, ReadInStep, Entities
  <2>6. LeftAlone'
    BY <1>1, <2>1, <2>2 DEF LeftAlone, Merge!Single
  <2>. QED
    BY <2>5, <2>6 DEF LegacyInv
<1>. QED
  BY <1>2, <1>3

(* The file that replaces the library changes what it says it changes, and *)
(* brings no deletion.                                                     *)
LEMMA ReplaceKeeps ==
  ASSUME LegacyInv, Legacy!Download \/ Legacy!Replace
  PROVE  LegacyInv'
<1>1. CASE Legacy!Download
  <2>1. /\ copy' = [i \in LegacyId |-> [rec |-> cloud[i].rec, tomb |-> None]]
        /\ UNCHANGED <<records, gen, baseline, conflicts, cloud, legacy, import, edited, tombed>>
    BY <1>1 DEF Legacy!Download
  <2>2. Entities(copy')
    BY <2>1 DEF LegacyInv, LegacyTypes, Entities, Merge!Entity
  <2>. QED
    BY <2>1, <2>2 DEF LegacyInv, LegacyTypes, FileSpeaks, LeftAlone, ReadInStep, Entities
<1>2. CASE Legacy!Replace
  <2>1. /\ copy # None /\ copy' = None
        /\ records' = [i \in LegacyId |-> IF Legacy!IsLocked(records[i]) THEN records[i]
                                          ELSE [rec |-> copy[i].rec, tomb |-> records[i].tomb]]
        /\ edited' = edited \cup {i \in LegacyId : records'[i] # records[i]}
        /\ gen' = gen + 1
        /\ UNCHANGED <<baseline, conflicts, cloud, legacy, import, tombed>>
    BY <1>2 DEF Legacy!Replace
  <2>2. Entities(records) /\ Entities(copy)
    BY <2>1 DEF LegacyInv, LegacyTypes
  <2>3. Entities(records')
    BY <2>1, <2>2 DEF Entities, Merge!Entity
  <2>4. \A i \in LegacyId : records'[i].tomb = records[i].tomb
    BY <2>1
  <2>5. LegacyTypes' /\ FileSpeaks'
    BY <2>1, <2>3 DEF LegacyInv, LegacyTypes, FileSpeaks, Entities
  <2>6. ReadInStep'
    BY <2>1 DEF LegacyInv, LegacyTypes, ReadInStep, Entities
  <2>7. LeftAlone'
    BY <2>1, <2>4 DEF LegacyInv, LeftAlone
  <2>. QED
    BY <2>5, <2>6, <2>7 DEF LegacyInv
<1>. QED
  BY <1>1, <1>2

(* After an import of the legacy cloud file, or of the cloud file itself,  *)
(* a pass publishes only what this user changed or decided, and deletes    *)
(* from the cloud only what this user has deleted.                         *)
THEOREM PassesAreTheUsersWork == AllSpec => PassKeepsToTheUsersWork
<1>. DEFINE LInv == part = "legacy" => LegacyInv
            Step == part = "legacy" => Legacy!PublishesOnlyEditsStep /\ Legacy!DeletesOnlyWhatWasDeletedStep
<1>1. AllInit => LInv
  BY LegacyInit DEF AllInit
<1>2. LInv /\ [AllNext]_allVars => LInv' /\ Step
  <2>. SUFFICES ASSUME LInv, [AllNext]_allVars, part = "legacy"
                PROVE  LegacyInv' /\ Legacy!PublishesOnlyEditsStep /\ Legacy!DeletesOnlyWhatWasDeletedStep
    BY DEF AllNext, allVars
  <2>1. LegacyInv
    OBVIOUS
  <2>2. Legacy!Next => LegacyInv'
    BY <2>1, PassKeeps, EditKeeps, OthersEdit, ResolveKeeps, ReadKeeps, ImportKeeps, ReplaceKeeps
      DEF Legacy!Next
  <2>3. UNCHANGED LegacyVars => LegacyInv'
    BY <2>1 DEF LegacyVars, LegacyInv, LegacyTypes, FileSpeaks, LeftAlone, ReadInStep, Entities
  <2>4. Legacy!Next \/ UNCHANGED LegacyVars
    BY DEF AllNext, allVars
  <2>. QED
    BY <2>1, <2>2, <2>3, <2>4, PassPublishes
<1>3. Step => [Step]_allVars
  OBVIOUS
<1>. QED
  BY <1>1, <1>2, <1>3, PTL DEF AllSpec, PassKeepsToTheUsersWork
-----------------------------------------------------------------------------
(*                            The recovery points                          *)

(* A restore that is reported as failed has changed nothing, after crashes *)
(* and with a clock set back, unless only the rotation at its end failed.  *)
THEOREM RefusalsChangeNothing == AllSpec => RefusedRestoreChangesNothing
<1>1. ASSUME NEW p \in DOMAIN shown, Troubled!RestorePoint(p), status' = "refused"
      PROVE  library' = library
  <2>1. \A fault \in Refusals : Troubled!Recovered(p, fault) = library
    BY ImportsAssumption DEF Troubled!Recovered
  <2>. QED
    BY <1>1, <2>1 DEF Troubled!RestorePoint, Troubled!Restored, Troubled!RestoreFailed
<1>2. Troubled!RefusalKeepsAll
  BY <1>1 DEF Troubled!RefusalKeepsAll
<1>3. [part = "crashes" => Troubled!RefusalKeepsAll]_allVars
  BY <1>2
<1>. QED
  BY <1>3, PTL DEF RefusedRestoreChangesNothing

(* The library adds a weight w up over a set by choosing its elements one  *)
(* after the other.                                                        *)
Chosen(s) == CHOOSE x \in s : TRUE
Sums(w, S, g) == g = [s \in SUBSET S |-> IF s = {} THEN 0 ELSE w[Chosen(s)] + g[s \ {Chosen(s)}]]

(* A sum is the value at its set of the function that adds up every        *)
(* subset.                                                                 *)
LEMMA SumBySums == ASSUME NEW w, NEW S
  PROVE SumFunctionOnSet(w, S) = (CHOOSE g : Sums(w, S, g))[S]
BY DEF SumFunctionOnSet, FoldFunctionOnSet, MapThenFoldSet, Sums, Chosen

(* Among subsets of a finite set there is a smallest one. The smallest     *)
(* counterexample of a claim about sums stands here for an induction.      *)
LEMMA SmallestSet == ASSUME NEW S, IsFiniteSet(S), NEW T, T \subseteq SUBSET S, T # {}
  PROVE \E U \in T : \A V \in T : V \subseteq U => V = U
<1>1. FiniteSubsetsOf(S) = SUBSET S  BY FS_FiniteSubsetsOfFinite
<1>2. IsWellFoundedOn(StrictSubsetOrdering(S), SUBSET S)
  BY <1>1, FS_StrictSubsetOrderingWellFounded
<1>3. \E U \in T : \A V \in T : <<V, U>> \notin StrictSubsetOrdering(S)
  BY <1>2, WFMin
<1>. QED BY <1>3 DEF StrictSubsetOrdering

(* The chosen element of a set is in it.                                   *)
LEMMA ChosenIn == ASSUME NEW s, s # {} PROVE Chosen(s) \in s
BY DEF Chosen

(* Two functions that add up subsets agree where both are defined.         *)
LEMMA SumsAgree ==
  ASSUME NEW w, NEW S, IsFiniteSet(S), NEW T, NEW g, NEW h, Sums(w, S, g), Sums(w, T, h), NEW U, U \subseteq S, U \subseteq T
  PROVE  g[U] = h[U]
<1>. DEFINE Bad == {V \in SUBSET U : g[V] # h[V]}
<1>1. ASSUME Bad # {} PROVE FALSE
  <2>1. IsFiniteSet(U) BY FS_Subset
  <2>0. Bad \subseteq SUBSET U
    OBVIOUS
  <2>. HIDE DEF Bad
  <2>2. PICK V \in Bad : \A W \in Bad : W \subseteq V => W = V
    BY <1>1, <2>0, <2>1, SmallestSet
  <2>. USE DEF Bad
  <2>. DEFINE x == Chosen(V)
  <2>3. CASE V = {}
    BY <2>2, <2>3 DEF Sums
  <2>4. CASE V # {}
    <3>1. x \in V BY <2>4, ChosenIn
    <3>2. V \ {x} \in SUBSET U /\ V \ {x} # V BY <3>1
    <3>3. g[V \ {x}] = h[V \ {x}] BY <2>2, <3>2
    <3>4. g[V] = w[x] + g[V \ {x}] BY <2>4 DEF Sums
    <3>5. h[V] = w[x] + h[V \ {x}] BY <2>4 DEF Sums
    <3>. QED BY <3>3, <3>4, <3>5, <2>2
  <2>. QED BY <2>3, <2>4
<1>. QED BY <1>1

(* There is a function that adds up all subsets of a finite set.           *)
LEMMA SumsExist == ASSUME NEW w, NEW S, IsFiniteSet(S) PROVE \E g : Sums(w, S, g)
<1>. DEFINE Bad == {V \in SUBSET S : ~\E g : Sums(w, V, g)}
<1>1. ASSUME Bad # {} PROVE FALSE
  <2>0. Bad \subseteq SUBSET S
    OBVIOUS
  <2>. HIDE DEF Bad
  <2>1. PICK V \in Bad : \A W \in Bad : W \subseteq V => W = V
    BY <1>1, <2>0, SmallestSet
  <2>. USE DEF Bad
  <2>. DEFINE G(W) == CHOOSE g : Sums(w, W, g)
              x == Chosen(V)
              f == [W \in SUBSET V |-> IF W = {} THEN 0 ELSE w[Chosen(W)] + G(W \ {Chosen(W)})[W \ {Chosen(W)}]]
  <2>2. \A W \in SUBSET V : W # V => Sums(w, W, G(W))
    BY <2>1
  <2>3. \A W \in SUBSET V : W # {} => f[W \ {Chosen(W)}] = G(W \ {Chosen(W)})[W \ {Chosen(W)}]
    <3>. SUFFICES ASSUME NEW W \in SUBSET V, W # {} PROVE f[W \ {Chosen(W)}] = G(W \ {Chosen(W)})[W \ {Chosen(W)}]
      OBVIOUS
    <3>. DEFINE U == W \ {Chosen(W)}
                y == Chosen(U)
    <3>1. U \in SUBSET V /\ U # V  BY ChosenIn
    <3>2. Sums(w, U, G(U)) BY <2>2, <3>1
    <3>3. CASE U = {}  BY <3>1, <3>2, <3>3 DEF Sums
    <3>4. CASE U # {}
      <4>1. U \ {y} \subseteq U /\ U \ {y} \in SUBSET V /\ U \ {y} # V BY <3>1
      <4>2. Sums(w, U \ {y}, G(U \ {y})) BY <2>2, <4>1
      <4>3. IsFiniteSet(U) BY <3>1, FS_Subset
      <4>4. G(U)[U \ {y}] = G(U \ {y})[U \ {y}] BY <3>2, <4>1, <4>2, <4>3, SumsAgree
      <4>5. G(U)[U] = w[y] + G(U)[U \ {y}] BY <3>2, <3>4 DEF Sums
      <4>6. f[U] = w[y] + G(U \ {y})[U \ {y}] BY <3>1, <3>4
      <4>. QED BY <4>4, <4>5, <4>6
    <3>. QED BY <3>3, <3>4
  <2>4. f = [W \in SUBSET V |-> IF W = {} THEN 0 ELSE w[Chosen(W)] + f[W \ {Chosen(W)}]]
    <3>. HIDE DEF G
    <3>. QED BY <2>3
  <2>. QED BY <2>1, <2>4 DEF Sums
<1>. QED BY <1>1

(* The sum over nothing is 0.                                              *)
LEMMA SumOfEmpty == ASSUME NEW w PROVE SumFunctionOnSet(w, {}) = 0
<1>1. PICK g : Sums(w, {}, g) BY SumsExist, FS_EmptySet
<1>. DEFINE h == CHOOSE k : Sums(w, {}, k)
<1>2. Sums(w, {}, h) BY <1>1
<1>3. h[{}] = 0 BY <1>2 DEF Sums
<1>. QED BY <1>3, SumBySums

(* A sum is the weight of the chosen element and the sum over the rest.    *)
LEMMA SumByChosen == ASSUME NEW w, NEW S, IsFiniteSet(S), S # {}
  PROVE SumFunctionOnSet(w, S) = w[Chosen(S)] + SumFunctionOnSet(w, S \ {Chosen(S)})
<1>. DEFINE x == Chosen(S)
            g == CHOOSE k : Sums(w, S, k)
            h == CHOOSE k : Sums(w, S \ {x}, k)
<1>1. Sums(w, S, g) BY SumsExist
<1>2. IsFiniteSet(S \ {x}) BY FS_Subset
<1>3. Sums(w, S \ {x}, h) BY <1>2, SumsExist
<1>4. g[S \ {x}] = h[S \ {x}] BY <1>1, <1>3, SumsAgree
<1>5. g[S] = w[x] + g[S \ {x}] BY <1>1 DEF Sums
<1>. QED BY <1>4, <1>5, SumBySums

(* A sum of naturals is a natural.                                         *)
LEMMA SumIsNat == ASSUME NEW w, NEW S, IsFiniteSet(S), \A x \in S : w[x] \in Nat
  PROVE SumFunctionOnSet(w, S) \in Nat
<1>. DEFINE Bad == {V \in SUBSET S : SumFunctionOnSet(w, V) \notin Nat}
<1>1. ASSUME Bad # {} PROVE FALSE
  <2>0. Bad \subseteq SUBSET S
    OBVIOUS
  <2>. HIDE DEF Bad
  <2>1. PICK V \in Bad : \A W \in Bad : W \subseteq V => W = V
    BY <1>1, <2>0, SmallestSet
  <2>. USE DEF Bad
  <2>2. V # {}
    <3>1. SumFunctionOnSet(w, V) \notin Nat BY <2>1
    <3>. QED BY <3>1, SumOfEmpty
  <2>3. Chosen(V) \in V BY <2>2, ChosenIn
  <2>4. SumFunctionOnSet(w, V \ {Chosen(V)}) \in Nat BY <2>1, <2>3
  <2>5. IsFiniteSet(V) BY FS_Subset
  <2>. QED BY <2>1, <2>2, <2>3, <2>4, <2>5, SumByChosen
<1>. QED BY <1>1

(* Any element of the set may be the one that is added last.               *)
LEMMA SumWithout == ASSUME NEW w, NEW S, IsFiniteSet(S), \A x \in S : w[x] \in Nat, NEW x \in S
  PROVE SumFunctionOnSet(w, S) = w[x] + SumFunctionOnSet(w, S \ {x})
<1>. DEFINE Bad == {V \in SUBSET S : \E y \in V : SumFunctionOnSet(w, V) # w[y] + SumFunctionOnSet(w, V \ {y})}
<1>1. ASSUME Bad # {} PROVE FALSE
  <2>0. Bad \subseteq SUBSET S
    OBVIOUS
  <2>. HIDE DEF Bad
  <2>1. PICK V \in Bad : \A W \in Bad : W \subseteq V => W = V
    BY <1>1, <2>0, SmallestSet
  <2>. USE DEF Bad
  <2>2. PICK y \in V : SumFunctionOnSet(w, V) # w[y] + SumFunctionOnSet(w, V \ {y})
    BY <2>1
  <2>. DEFINE c == Chosen(V)
  <2>3. c \in V BY <2>2, ChosenIn
  <2>4. \A W \in SUBSET S : IsFiniteSet(W) /\ SumFunctionOnSet(w, W) \in Nat
    BY FS_Subset, SumIsNat
  <2>5. SumFunctionOnSet(w, V) = w[c] + SumFunctionOnSet(w, V \ {c})
    BY <2>3, <2>4, SumByChosen
  <2>6. c # y BY <2>2, <2>5
  <2>. HIDE DEF c
  <2>7. SumFunctionOnSet(w, V \ {c}) = w[y] + SumFunctionOnSet(w, (V \ {c}) \ {y})
    <3>1. V \ {c} \in SUBSET S /\ V \ {c} \subseteq V /\ V \ {c} # V /\ y \in V \ {c} BY <2>3, <2>6
    <3>2. V \ {c} \notin Bad BY <2>1, <3>1
    <3>. QED BY <3>1, <3>2
  <2>8. SumFunctionOnSet(w, V \ {y}) = w[c] + SumFunctionOnSet(w, (V \ {y}) \ {c})
    <3>1. V \ {y} \in SUBSET S /\ V \ {y} \subseteq V /\ V \ {y} # V /\ c \in V \ {y} BY <2>3, <2>6
    <3>2. V \ {y} \notin Bad BY <2>1, <3>1
    <3>. QED BY <3>1, <3>2
  <2>9. (V \ {c}) \ {y} = (V \ {y}) \ {c} OBVIOUS
  <2>10. SumFunctionOnSet(w, (V \ {y}) \ {c}) \in Nat BY <2>4
  <2>11. w[y] \in Nat /\ w[c] \in Nat BY <2>3
  <2>. HIDE DEF Bad
  <2>. QED BY <2>2, <2>5, <2>7, <2>8, <2>9, <2>10, <2>11
<1>. QED BY <1>1

(* A sum depends on the weights of its set alone.                          *)
LEMMA SumCongruent == ASSUME NEW w, NEW v, NEW S, IsFiniteSet(S), \A x \in S : w[x] = v[x]
  PROVE SumFunctionOnSet(w, S) = SumFunctionOnSet(v, S)
<1>. DEFINE Bad == {V \in SUBSET S : SumFunctionOnSet(w, V) # SumFunctionOnSet(v, V)}
<1>1. ASSUME Bad # {} PROVE FALSE
  <2>0. Bad \subseteq SUBSET S
    OBVIOUS
  <2>. HIDE DEF Bad
  <2>1. PICK V \in Bad : \A W \in Bad : W \subseteq V => W = V
    BY <1>1, <2>0, SmallestSet
  <2>. USE DEF Bad
  <2>2. V # {} BY <2>1, SumOfEmpty
  <2>3. Chosen(V) \in V BY <2>2, ChosenIn
  <2>4. SumFunctionOnSet(w, V \ {Chosen(V)}) = SumFunctionOnSet(v, V \ {Chosen(V)}) BY <2>1, <2>3
  <2>5. IsFiniteSet(V) BY FS_Subset
  <2>. QED BY <2>1, <2>2, <2>3, <2>4, <2>5, SumByChosen
<1>. QED BY <1>1

(* A nonempty set of naturals has a least element, the one that Min picks. *)
LEMMA LeastOf == ASSUME NEW S, S \subseteq Nat, S # {}
  PROVE Min(S) \in S /\ \A n \in S : Min(S) <= n
<1>1. PICK n \in S : TRUE OBVIOUS
<1>. DEFINE I == 0..n
            T == {0..m : m \in S \cap I}
<1>2. T \subseteq SUBSET I /\ T # {} BY <1>1
<1>3. IsFiniteSet(I) BY FS_Interval
<1>. HIDE DEF T, I
<1>4. PICK U \in T : \A V \in T : V \subseteq U => V = U BY <1>2, <1>3, SmallestSet
<1>. USE DEF T, I
<1>5. PICK m \in S \cap I : U = 0..m BY <1>4
<1>6. \A k \in S : m <= k
  <2>. SUFFICES ASSUME NEW k \in S, k < m PROVE FALSE BY <1>5
  <2>1. 0..k \in T BY <1>5
  <2>2. 0..k \subseteq U BY <1>5
  <2>3. 0..k = 0..m BY <1>4, <1>5, <2>1, <2>2
  <2>4. m \in 0..m BY <1>5
  <2>. QED BY <2>3, <2>4
<1>7. \E k \in S : \A j \in S : k <= j BY <1>5, <1>6
<1>. QED BY <1>7 DEF Min

(* RecoveryPoints sums with its own copy of the library, which is the same.*)
LEMMA SameSum == \A w, S : Files!SumFunctionOnSet(w, S) = SumFunctionOnSet(w, S)
BY DEF Files!SumFunctionOnSet, Files!FoldFunctionOnSet, Files!MapThenFoldSet,
  SumFunctionOnSet, FoldFunctionOnSet, MapThenFoldSet

(* So are its least elements, cardinalities and restrictions.              *)
LEMMA SameLibrary ==
  /\ \A S : Files!Min(S) = Min(S)
  /\ \A S : Files!Cardinality(S) = Cardinality(S)
  /\ \A f, S : Files!Restrict(f, S) = [x \in S |-> f[x]]
BY DEF Files!Min, Min, Files!Cardinality, Cardinality, Files!Restrict

(* A point: its backup may be damaged, it has a time and its two marks.    *)
PointOf == [content : Content \cup {None}, size : Nat, at : Int, retained : BOOLEAN, manifest : BOOLEAN]

(* Finitely many points, each made later than those with lower numbers.    *)
Points(f, n) ==
  /\ n \in Nat /\ DOMAIN f \subseteq 1..n
  /\ \A p \in DOMAIN f : f[p] \in PointOf /\ f[p].at = 2 * p

(* While nothing crashes the clock goes forward and the points are typed.  *)
PointsInv == library \in Content /\ behind = 0 /\ Points(files, made)

(* What the constants are assumed to be.                                   *)
LEMMA PointsConstants ==
  /\ None \notin Content /\ Size \in [Content -> Nat] /\ MaxAutomatic \in Nat \ {0}
  /\ Capacity \in Nat /\ MaxMade \in Nat
BY ImportsAssumption DEF Files!RecoveryPointsAssumption

(* The automatic points before p, their number, those that stay when n are *)
(* taken, whether these fit, and the fewest that must be taken.            *)
Before(f, p) == {q \in Files!Automatic(f) : f[q].at < f[p].at}
Rank(f, p) == Cardinality(Before(f, p))
Kept(f, n) == Files!Automatic(f) \ Files!Oldest(f, n)
Fits(f, n) ==
  /\ Cardinality(Kept(f, n)) <= MaxAutomatic
  /\ Files!Total(Files!Without(f, Files!Oldest(f, n))) <= Capacity \/ Cardinality(Kept(f, n)) <= 1
Fitting(f) == {n \in 0..Cardinality(Files!Automatic(f)) : Fits(f, n)}
Fewest(f) == Min(Fitting(f))
Gone(f) == Files!Oldest(f, Fewest(f))

(* The rotation removes the fewest oldest points that must go.             *)
LEMMA RotatedIs == ASSUME NEW f PROVE Files!Rotated(f) = Files!Without(f, Gone(f))
BY SameLibrary DEF Files!Rotated, Gone, Fewest, Fitting, Fits, Kept

(* The n oldest points are those with fewer than n before them.            *)
LEMMA OldestIs == ASSUME NEW f, NEW n PROVE Files!Oldest(f, n) = {p \in Files!Automatic(f) : Rank(f, p) < n}
BY SameLibrary DEF Files!Oldest, Rank, Before

(* What is left when points are removed is unchanged.                      *)
LEMMA WithoutIs ==
  ASSUME NEW f, NEW P
  PROVE  /\ Files!Without(f, P) = [p \in DOMAIN f \ P |-> f[p]]
         /\ DOMAIN Files!Without(f, P) = DOMAIN f \ P
         /\ \A p \in DOMAIN f \ P : Files!Without(f, P)[p] = f[p]
         /\ Files!Listed(Files!Without(f, P)) = Files!Listed(f) \ P
         /\ Files!Automatic(Files!Without(f, P)) = Files!Automatic(f) \ P
BY SameLibrary DEF Files!Without, Files!Listed, Files!Automatic

(* The listed points and the automatic ones are finitely many.             *)
LEMMA AutomaticIs ==
  ASSUME NEW f, NEW n, Points(f, n)
  PROVE  /\ Files!Automatic(f) \subseteq Files!Listed(f) /\ Files!Listed(f) \subseteq DOMAIN f
         /\ IsFiniteSet(DOMAIN f) /\ IsFiniteSet(Files!Automatic(f)) /\ IsFiniteSet(Files!Listed(f))
         /\ Cardinality(Files!Automatic(f)) \in Nat
<1>1. Files!Automatic(f) \subseteq Files!Listed(f) /\ Files!Listed(f) \subseteq DOMAIN f
  BY DEF Files!Automatic, Files!Listed
<1>2. IsFiniteSet(1..n)
  BY FS_Interval DEF Points
<1>3. IsFiniteSet(DOMAIN f)
  BY <1>2, FS_Subset DEF Points
<1>4. IsFiniteSet(Files!Automatic(f)) /\ IsFiniteSet(Files!Listed(f))
  BY <1>1, <1>3, FS_Subset
<1>. QED  BY <1>1, <1>3, <1>4, FS_CardinalityType

(* A point made later has more automatic points before it.                 *)
LEMMA RanksGrow ==
  ASSUME NEW f, NEW n, Points(f, n)
  PROVE  /\ \A p \in Files!Automatic(f) : /\ Rank(f, p) \in Nat /\ Rank(f, p) < Cardinality(Files!Automatic(f))
                                          /\ IsFiniteSet(Before(f, p))
         /\ \A p, q \in Files!Automatic(f) : p < q => Rank(f, p) < Rank(f, q)
<1>. DEFINE A == Files!Automatic(f)
<1>0. IsFiniteSet(A) /\ Cardinality(A) \in Nat /\ A \subseteq DOMAIN f
  BY AutomaticIs
<1>1. IsFiniteSet(A) /\ Cardinality(A) \in Nat /\ A \subseteq DOMAIN f /\ A \subseteq Nat
  BY <1>0 DEF Points
<1>2. \A p \in A : f[p].at = 2 * p
  BY <1>1 DEF Points
<1>3. \A S \in SUBSET A : IsFiniteSet(S) /\ Cardinality(S) \in Nat
  BY <1>1, FS_Subset, FS_CardinalityType
<1>4. \A p \in A : Before(f, p) = {q \in A : q < p}
  BY <1>1, <1>2 DEF Before
<1>. HIDE DEF A
<1>5. ASSUME NEW p \in A, NEW S \in SUBSET A, Before(f, p) \subseteq S, p \in S
      PROVE  Rank(f, p) < Cardinality(S)
  <2>1. Before(f, p) \subseteq S \ {p}
    BY <1>1, <1>4, <1>5
  <2>2. IsFiniteSet(S) /\ Cardinality(S) \in Nat /\ IsFiniteSet(S \ {p}) /\ Cardinality(S \ {p}) = Cardinality(S) - 1
    BY <1>3, <1>5, FS_RemoveElement
  <2>3. Rank(f, p) <= Cardinality(S \ {p})
    BY <2>1, <2>2, FS_Subset DEF Rank
  <2>4. Rank(f, p) \in Nat
    BY <1>3, <1>4 DEF Rank
  <2>. QED  BY <2>2, <2>3, <2>4
<1>6. \A p \in A : Rank(f, p) \in Nat /\ Rank(f, p) < Cardinality(A) /\ IsFiniteSet(Before(f, p))
  BY <1>3, <1>4, <1>5 DEF Rank
<1>7. ASSUME NEW p \in A, NEW q \in A, p < q PROVE Rank(f, p) < Rank(f, q)
  <2>1. Before(f, p) \subseteq Before(f, q) /\ p \in Before(f, q) /\ Before(f, q) \in SUBSET A
    BY <1>1, <1>4, <1>7
  <2>. QED  BY <1>5, <2>1 DEF Rank
<1>. QED  BY <1>6, <1>7 DEF A

(* When all are gone, what is left fits.                                   *)
LEMMA FewestFits ==
  ASSUME NEW f, NEW n, Points(f, n)
  PROVE  /\ Fewest(f) \in 0..Cardinality(Files!Automatic(f)) /\ Fits(f, Fewest(f))
         /\ \A m \in 0..Cardinality(Files!Automatic(f)) : Fits(f, m) => Fewest(f) <= m
<1>. DEFINE c == Cardinality(Files!Automatic(f))
<1>1. c \in Nat
  BY AutomaticIs
<1>2. Kept(f, c) = {}
  BY RanksGrow, OldestIs DEF Kept
<1>3. c \in Fitting(f)
  BY <1>1, <1>2, FS_EmptySet, PointsConstants DEF Fitting, Fits
<1>4. Fitting(f) \subseteq Nat /\ Fitting(f) # {}
  BY <1>1, <1>3 DEF Fitting
<1>5. Fewest(f) \in Fitting(f) /\ \A m \in Fitting(f) : Fewest(f) <= m
  BY <1>4, LeastOf DEF Fewest
<1>. QED  BY <1>5 DEF Fitting

(* The point made last is not rotated.                                     *)
LEMMA LastStays ==
  ASSUME NEW f, NEW n, Points(f, n), NEW p \in Files!Automatic(f),
         \A q \in Files!Automatic(f) : q <= p
  PROVE  p \notin Gone(f)
<1>. DEFINE m == Rank(f, p)
<1>1. m \in 0..Cardinality(Files!Automatic(f))
  BY RanksGrow, AutomaticIs
<1>2. \A q \in Files!Automatic(f) : q # p => Rank(f, q) < m
  <2>1. Files!Automatic(f) \subseteq DOMAIN f
    BY AutomaticIs
  <2>2. Files!Automatic(f) \subseteq Nat
    BY <2>1 DEF Points
  <2>. QED  BY <2>2, RanksGrow
<1>3. Kept(f, m) = {p}
  BY <1>1, <1>2, OldestIs DEF Kept
<1>4. Fits(f, m)
  BY <1>3, FS_Singleton, PointsConstants DEF Fits
<1>5. Fewest(f) <= m /\ Fewest(f) \in Nat
  BY <1>1, <1>4, FewestFits
<1>. QED  BY <1>1, <1>5, OldestIs DEF Gone

(* What is rotated is an automatic point, and with one point less gone     *)
(* what is left would not fit: there would be more points than kept ones,  *)
(* or no room for the last one gone.                                       *)
LEMMA GoneIsSurplus ==
  ASSUME NEW f, NEW n, Points(f, n), NEW p \in Gone(f)
  PROVE  LET rest  == Kept(f, Fewest(f))
             after == Files!Without(f, Gone(f))
         IN  /\ p \in Files!Automatic(f) /\ Files!Automatic(after) = rest
             /\ \A q \in rest : p < q
             /\ \/ Cardinality(rest) >= MaxAutomatic
                \/ rest # {} /\ \E q \in Gone(f) : p <= q /\ Files!Total(after) + f[q].size > Capacity
<1>. DEFINE A == Files!Automatic(f)
            N == Fewest(f)
            M == N - 1
            rest == Kept(f, N)
            D == {q \in A : Rank(f, q) = M}
<1>1. /\ \A q \in A : Rank(f, q) \in Nat
      /\ \A q, r \in A : q < r => Rank(f, q) < Rank(f, r)
  BY RanksGrow
<1>2. A \subseteq Nat /\ Cardinality(A) \in Nat /\ IsFiniteSet(A) /\ A \subseteq Files!Listed(f)
      /\ IsFiniteSet(Files!Listed(f)) /\ Files!Listed(f) \subseteq DOMAIN f
  <2>1. A \subseteq Files!Listed(f) /\ Files!Listed(f) \subseteq DOMAIN f /\ Cardinality(A) \in Nat
        /\ IsFiniteSet(A) /\ IsFiniteSet(Files!Listed(f))
    BY AutomaticIs
  <2>2. DOMAIN f \subseteq Nat
    BY DEF Points
  <2>. QED  BY <2>1, <2>2
<1>3. N \in 0..Cardinality(A) /\ \A m \in 0..Cardinality(A) : Fits(f, m) => N <= m
  BY FewestFits
<1>4. p \in A /\ Rank(f, p) < N
  BY OldestIs DEF Gone
<1>5. M \in 0..Cardinality(A) /\ ~Fits(f, M) /\ Rank(f, p) <= M
  BY <1>1, <1>2, <1>3, <1>4
<1>6. /\ Files!Oldest(f, N) = {q \in A : Rank(f, q) < N} /\ Files!Oldest(f, M) = {q \in A : Rank(f, q) < M}
      /\ Gone(f) = Files!Oldest(f, N)
  BY OldestIs DEF Gone
<1>. HIDE DEF A, N, M
<1>7. \A q \in rest : p < q
  <2>1. ASSUME NEW q \in rest PROVE p < q
    <3>1. q \in A /\ N <= Rank(f, q)
      BY <1>1, <1>3, <1>6 DEF Kept, A
    <3>. QED  BY <1>1, <1>2, <1>3, <1>4, <3>1
  <2>. QED  BY <2>1
<1>8. Files!Oldest(f, N) = Files!Oldest(f, M) \cup D
  BY <1>1, <1>3, <1>6 DEF M
<1>9. PICK g : D = {g}
  <2>1. D # {}
    <3>1. D = {} => Files!Oldest(f, N) = Files!Oldest(f, M)
      BY <1>8
    <3>2. D = {} => Fits(f, N) <=> Fits(f, M)
      BY <3>1 DEF Fits, Kept
    <3>. QED  BY <1>5, <3>2, FewestFits DEF N
  <2>2. \A q, r \in D : q = r
    BY <1>1, <1>2
  <2>. QED  BY <2>1, <2>2
<1>10. g \in A /\ Rank(f, g) = M /\ g \in Gone(f) /\ g \notin Files!Oldest(f, M) /\ p <= g
  <2>1. g \in A /\ Rank(f, g) = M
    BY <1>9
  <2>2. p <= g
    BY <1>1, <1>2, <1>4, <1>5, <2>1
  <2>3. g \in Files!Oldest(f, N) /\ g \notin Files!Oldest(f, M)
    BY <1>1, <1>3, <1>6, <1>8, <1>9, <2>1
  <2>. QED  BY <1>6, <2>1, <2>2, <2>3
<1>11. rest = Kept(f, M) \ {g} /\ g \in Kept(f, M) /\ Kept(f, M) \subseteq A
  BY <1>6, <1>8, <1>9, <1>10 DEF Kept, A
<1>12. /\ Cardinality(rest) \in Nat /\ Cardinality(Kept(f, M)) = Cardinality(rest) + 1
       /\ rest # {} \/ Cardinality(rest) = 0
  <2>1. IsFiniteSet(Kept(f, M)) /\ IsFiniteSet(rest)
    BY <1>2, <1>11, FS_Subset
  <2>2. Cardinality(Kept(f, M)) \in Nat /\ Cardinality(rest) = Cardinality(Kept(f, M)) - 1 /\ Cardinality(rest) \in Nat
    BY <1>11, <2>1, FS_RemoveElement, FS_CardinalityType
  <2>. QED  BY <2>1, <2>2, FS_EmptySet
<1>. DEFINE before == Files!Without(f, Files!Oldest(f, M))
            after  == Files!Without(f, Gone(f))
<1>13. Files!Total(before) = Files!Total(after) + f[g].size /\ Files!Total(after) \in Nat /\ f[g].size \in Nat
  <2>. DEFINE L == Files!Listed(f)
              w == [q \in DOMAIN f |-> f[q].size]
  <2>1. \A q \in DOMAIN f : f[q].size \in Nat
    BY DEF Points, PointOf
  <2>2. /\ Files!Listed(before) = L \ Files!Oldest(f, M) /\ Files!Listed(after) = L \ Gone(f)
        /\ \A q \in Files!Listed(before) : Files!Sizes(before)[q] = w[q]
        /\ \A q \in Files!Listed(after) : Files!Sizes(after)[q] = w[q]
    <3>1. ASSUME NEW P
          PROVE  LET v == Files!Without(f, P)
                 IN  Files!Listed(v) = L \ P /\ \A q \in Files!Listed(v) : Files!Sizes(v)[q] = w[q]
      <4>1. /\ DOMAIN Files!Without(f, P) = DOMAIN f \ P
            /\ \A q \in DOMAIN f \ P : Files!Without(f, P)[q] = f[q]
            /\ Files!Listed(Files!Without(f, P)) = L \ P
        BY WithoutIs
      <4>. QED  BY <1>2, <4>1 DEF Files!Sizes
    <3>. QED  BY <3>1
  <2>3. /\ Files!Total(before) = SumFunctionOnSet(Files!Sizes(before), Files!Listed(before))
        /\ Files!Total(after) = SumFunctionOnSet(Files!Sizes(after), Files!Listed(after))
    BY SameSum DEF Files!Total
  <2>4. IsFiniteSet(Files!Listed(before)) /\ IsFiniteSet(Files!Listed(after))
    BY <1>2, <2>2, FS_Subset
  <2>. HIDE DEF before, after, L, w
  <2>5. /\ Files!Total(before) = SumFunctionOnSet(w, Files!Listed(before))
        /\ Files!Total(after) = SumFunctionOnSet(w, Files!Listed(after))
    BY <2>2, <2>3, <2>4, SumCongruent
  <2>6. g \in Files!Listed(before) /\ Files!Listed(after) = Files!Listed(before) \ {g}
    BY <1>2, <1>6, <1>8, <1>9, <1>10, <2>2 DEF L
  <2>7. \A q \in Files!Listed(before) : w[q] \in Nat
    BY <1>2, <2>1, <2>2 DEF w, L
  <2>8. Files!Total(before) = w[g] + Files!Total(after)
    BY <2>4, <2>5, <2>6, <2>7, SumWithout
  <2>9. Files!Total(after) \in Nat
    BY <2>4, <2>5, <2>6, <2>7, SumIsNat
  <2>10. w[g] = f[g].size /\ f[g].size \in Nat
    BY <1>2, <1>10, <2>1 DEF w
  <2>. QED  BY <2>8, <2>9, <2>10
<1>14. \/ Cardinality(rest) >= MaxAutomatic
       \/ rest # {} /\ Files!Total(after) + f[g].size > Capacity
  <2>1. \/ ~(Cardinality(Kept(f, M)) <= MaxAutomatic)
        \/ ~(Files!Total(before) <= Capacity) /\ ~(Cardinality(Kept(f, M)) <= 1)
    BY <1>5 DEF Fits
  <2>. QED  BY <1>12, <1>13, <2>1, PointsConstants
<1>15. Files!Automatic(after) = rest
  <2>1. Files!Automatic(Files!Without(f, Gone(f))) = Files!Automatic(f) \ Gone(f)
    BY WithoutIs
  <2>. QED  BY <1>6, <2>1 DEF Kept
<1>. QED  BY <1>4, <1>7, <1>10, <1>14, <1>15 DEF A, N

(* Rotating points that are those of the disk, and perhaps the one just    *)
(* made, removes surplus points only.                                      *)
LEMMA RotationIsFair ==
  ASSUME NEW f, NEW n, Points(f, n), files' = Files!Rotated(f), PointsInv,
         Files!Listed(files) \subseteq Files!Listed(f),
         \A q \in Files!Listed(files) : f[q].size = files[q].size,
         Gone(f) \subseteq Files!Listed(files),
         NEW p \in Files!Listed(files), p \notin Files!Listed(files'),
         files[p].retained => Files!SetRetained(p) \/ f[p].retained
  PROVE  Files!Surplus(p)
<1>. DEFINE rest == Kept(f, Fewest(f))
            gone == {q \in Files!Listed(files) \ Files!Listed(files') : q >= p}
<1>1. files' = Files!Without(f, Gone(f))
  BY RotatedIs
<1>2. Files!Listed(files') = Files!Listed(f) \ Gone(f)
  <2>1. Files!Listed(Files!Without(f, Gone(f))) = Files!Listed(f) \ Gone(f)
    BY WithoutIs
  <2>. QED  BY <1>1, <2>1
<1>3. p \in Gone(f)
  BY <1>2
<1>4. /\ p \in Files!Automatic(f) /\ Files!Automatic(files') = rest /\ \A q \in rest : p < q
      /\ \/ Cardinality(rest) >= MaxAutomatic
         \/ rest # {} /\ \E q \in Gone(f) : p <= q /\ Files!Total(files') + f[q].size > Capacity
  BY <1>1, <1>3, GoneIsSurplus
<1>5. {q \in Files!Automatic(files') : q > p} = rest
  <2>1. rest \subseteq Nat /\ p \in Nat
    <3>1. rest \subseteq DOMAIN f /\ p \in DOMAIN f
      BY <1>4, AutomaticIs DEF Kept
    <3>. QED  BY <3>1 DEF Points
  <2>. QED  BY <1>4, <2>1
<1>6. files[p].retained => Files!SetRetained(p)
  BY <1>4 DEF Files!Automatic
<1>7. ASSUME NEW q \in Gone(f), p <= q, Files!Total(files') + f[q].size > Capacity
      PROVE  Files!Total(files') + Files!SumFunctionOnSet(Files!Sizes(files), gone) > Capacity
  <2>1. q \in gone
    BY <1>2, <1>7
  <2>2. Files!Listed(files) \subseteq DOMAIN files /\ IsFiniteSet(Files!Listed(files))
    BY AutomaticIs DEF PointsInv
  <2>3. \A r \in gone : r \in DOMAIN files /\ Files!Sizes(files)[r] = files[r].size /\ Files!Sizes(files)[r] \in Nat
    <3>1. \A r \in DOMAIN files : files[r].size \in Nat
      BY DEF PointsInv, Points, PointOf
    <3>. QED  BY <2>2, <3>1 DEF Files!Sizes
  <2>4. IsFiniteSet(gone)
    BY <2>2, FS_Subset
  <2>. HIDE DEF gone
  <2>5. /\ SumFunctionOnSet(Files!Sizes(files), gone) =
             Files!Sizes(files)[q] + SumFunctionOnSet(Files!Sizes(files), gone \ {q})
        /\ SumFunctionOnSet(Files!Sizes(files), gone) \in Nat
    BY <2>1, <2>3, <2>4, SumWithout, SumIsNat
  <2>6. SumFunctionOnSet(Files!Sizes(files), gone \ {q}) \in Nat
    <3>1. IsFiniteSet(gone \ {q})
      BY <2>4, FS_Subset
    <3>. QED  BY <2>3, <3>1, SumIsNat
  <2>7. Files!Sizes(files)[q] = f[q].size /\ f[q].size \in Nat
    BY <1>7, <2>1, <2>3
  <2>8. Files!Total(files') \in Nat
    <3>1. Files!Listed(files') \subseteq DOMAIN files' /\ \A r \in Files!Listed(files') : files'[r].size \in Nat
      <4>1. /\ DOMAIN Files!Without(f, Gone(f)) = DOMAIN f \ Gone(f)
            /\ \A r \in DOMAIN f \ Gone(f) : Files!Without(f, Gone(f))[r] = f[r]
        BY WithoutIs
      <4>2. \A r \in DOMAIN f : f[r].size \in Nat
        BY DEF Points, PointOf
      <4>3. Files!Listed(files') \subseteq DOMAIN files'
        BY DEF Files!Listed
      <4>. QED  BY <1>1, <4>1, <4>2, <4>3
    <3>2. IsFiniteSet(Files!Listed(files'))
      BY <1>2, AutomaticIs, FS_Subset
    <3>3. \A r \in Files!Listed(files') : Files!Sizes(files')[r] \in Nat
      BY <3>1 DEF Files!Sizes
    <3>. QED  BY <3>2, <3>3, SameSum, SumIsNat DEF Files!Total
  <2>9. Capacity \in Nat
    BY PointsConstants
  <2>. QED  BY <1>7, <2>5, <2>6, <2>7, <2>8, <2>9, SameSum
<1>8. Cardinality(rest) >= MaxAutomatic \/ (rest # {} /\ Files!Total(files') + Files!SumFunctionOnSet(Files!Sizes(files), gone) > Capacity)
  BY <1>4, <1>7
<1>. QED  BY <1>5, <1>6, <1>8, SameLibrary DEF Files!Surplus

(* The new point is the last one, holds the library and leaves the others. *)
LEMMA WithPointIs ==
  ASSUME PointsInv, NEW m \in BOOLEAN
  PROVE  LET f == Files!WithPoint(files, m)
         IN  /\ Points(f, made + 1) /\ DOMAIN f = DOMAIN files \cup {made + 1}
             /\ \A p \in DOMAIN files : p # made + 1 /\ f[p] = files[p]
             /\ f[made + 1].content = library /\ f[made + 1].manifest = m /\ ~f[made + 1].retained
<1>. DEFINE f == Files!WithPoint(files, m)
            new == [content |-> library, size |-> Size[library], at |-> 2 * (made + 1) - behind,
                    retained |-> FALSE, manifest |-> m]
<1>1. f = [p \in DOMAIN files \cup {made + 1} |-> IF p # made + 1 THEN files[p] ELSE new]
  BY DEF Files!WithPoint
<1>2. made \in Nat /\ DOMAIN files \subseteq 1..made /\ behind = 0 /\ library \in Content
  BY DEF PointsInv, Points
<1>3. \A p \in DOMAIN files : p # made + 1 /\ p \in 1..(made + 1)
  BY <1>2
<1>4. new \in PointOf /\ new.at = 2 * (made + 1)
  BY <1>2, PointsConstants DEF PointOf
<1>. HIDE DEF f, new
<1>5. DOMAIN f = DOMAIN files \cup {made + 1} /\ f[made + 1] = new /\ \A p \in DOMAIN files : f[p] = files[p]
  BY <1>1, <1>3
<1>6. Points(f, made + 1)
  <2>1. made + 1 \in Nat /\ DOMAIN f \subseteq 1..(made + 1)
    BY <1>2, <1>3, <1>5
  <2>2. \A p \in DOMAIN files : files[p] \in PointOf /\ files[p].at = 2 * p
    BY DEF PointsInv, Points
  <2>3. \A p \in DOMAIN f : f[p] \in PointOf /\ f[p].at = 2 * p
    BY <1>4, <1>5, <2>2
  <2>. QED  BY <2>1, <2>3 DEF Points
<1>7. new.content = library /\ new.manifest = m /\ ~new.retained
  BY DEF new
<1>. QED  BY <1>3, <1>5, <1>6, <1>7 DEF f

(* Removing points keeps what is said of them.                             *)
LEMMA PointsWithout ==
  ASSUME NEW f, NEW n, Points(f, n), NEW P
  PROVE  Points(Files!Without(f, P), n)
<1>1. /\ DOMAIN Files!Without(f, P) = DOMAIN f \ P
      /\ \A p \in DOMAIN f \ P : Files!Without(f, P)[p] = f[p]
  BY WithoutIs
<1>. QED  BY <1>1 DEF Points

(* So does the rotation.                                                   *)
LEMMA RotatedPoints ==
  ASSUME NEW f, NEW n, Points(f, n)
  PROVE  Points(Files!Rotated(f), n)
BY RotatedIs, PointsWithout

(* So does changing whether a point is retained, or damaging its backup.   *)
LEMMA PointsOneField ==
  ASSUME NEW p \in DOMAIN files, PointsInv
  PROVE  /\ \A b \in BOOLEAN : LET f == [files EXCEPT ![p].retained = b] IN
              /\ Points(f, made) /\ f[p].retained = b /\ f[p].size = files[p].size /\ f[p].manifest = files[p].manifest
         /\ Points([files EXCEPT ![p].content = None], made)
<1>1. files[p] \in PointOf
  BY DEF PointsInv, Points
<1>2. ASSUME NEW b \in BOOLEAN
      PROVE  LET r == [files[p] EXCEPT !.retained = b] IN
             r \in PointOf /\ r.at = files[p].at /\ r.retained = b /\ r.size = files[p].size /\ r.manifest = files[p].manifest
  BY <1>1 DEF PointOf
<1>3. LET r == [files[p] EXCEPT !.content = None] IN r \in PointOf /\ r.at = files[p].at
  BY <1>1 DEF PointOf
<1>. QED  BY <1>2, <1>3 DEF PointsInv, Points

(* The first library has no points.                                        *)
LEMMA PointsInit == Files!Init => PointsInv
BY DEF Files!Init, PointsInv, Points

(* Every step keeps the invariant.                                         *)
LEMMA PointsStep ==
  ASSUME PointsInv, [Files!Next]_PointsVars
  PROVE  PointsInv'
<1>. USE DEF PointsInv
<1>1. CASE UNCHANGED PointsVars
  BY <1>1 DEF PointsVars, Points
<1>2. CASE Files!Edit \/ Files!RefreshList
  BY <1>2 DEF Files!Edit, Files!RefreshList, Points
<1>3. CASE Files!Guarded
  <2>1. Points(Files!WithPoint(files, TRUE), made + 1) /\ Points(Files!Rotated(Files!WithPoint(files, TRUE)), made + 1)
    BY WithPointIs, RotatedPoints
  <2>. QED  BY <1>3, <2>1 DEF Files!Guarded
<1>4. CASE Files!DieCreating \/ Files!SetClockBack \/ \E p \in DOMAIN shown : Files!DieRetaining(p)
  BY <1>4 DEF Files!DieCreating, Files!SetClockBack, Files!DieRetaining
<1>5. CASE \E p \in DOMAIN shown : Files!SetRetained(p)
  <2>1. PICK p \in DOMAIN shown : Files!SetRetained(p)
    BY <1>5
  <2>. DEFINE b == ~shown[p].retained
              f == [files EXCEPT ![p].retained = b]
  <2>2. CASE p \notin Files!Listed(files)
    BY <2>1, <2>2 DEF Files!SetRetained
  <2>3. CASE p \in Files!Listed(files)
    <3>1. p \in DOMAIN files
      BY <2>3 DEF Files!Listed
    <3>2. b \in BOOLEAN
      OBVIOUS
    <3>3. Points(f, made)
      BY <3>1, <3>2, PointsOneField
    <3>4. Points(Files!Rotated(f), made)
      BY <3>3, RotatedPoints
    <3>5. (files' = f \/ files' = Files!Rotated(f)) /\ UNCHANGED <<library, made, behind>>
      BY <2>1, <2>3 DEF Files!SetRetained
    <3>. HIDE DEF f
    <3>. QED  BY <3>3, <3>4, <3>5
  <2>. QED  BY <2>2, <2>3
<1>6. CASE \E p \in DOMAIN shown : Files!DeletePoint(p)
  <2>1. PICK p \in DOMAIN shown : Files!DeletePoint(p)
    BY <1>6
  <2>2. Points(Files!Without(files, {p}), made)
    BY PointsWithout
  <2>. QED  BY <2>1, <2>2 DEF Files!DeletePoint
<1>7. CASE \E p \in DOMAIN shown : Files!RestorePoint(p)
  <2>1. PICK p \in DOMAIN shown : Files!RestorePoint(p)
    BY <1>7
  <2>2. CASE ~Files!Usable(p)
    BY <2>1, <2>2 DEF Files!RestorePoint
  <2>3. CASE Files!Usable(p)
    <3>1. files[p].content \in Content
      BY <2>3 DEF Files!Usable, Files!Listed, Points, PointOf
    <3>2. Points(Files!WithPoint(files, TRUE), made + 1) /\ Points(Files!Rotated(Files!WithPoint(files, TRUE)), made + 1)
      BY WithPointIs, RotatedPoints
    <3>3. /\ made' = made + 1 /\ behind' = behind
          /\ Files!Restored(p) \/ \E fault \in AnyFault : Files!RestoreFailed(p, fault)
      BY <2>1, <2>3 DEF Files!RestorePoint
    <3>4. files' \in {Files!WithPoint(files, TRUE), Files!Rotated(Files!WithPoint(files, TRUE))} /\ library' \in Content
      BY <3>1, <3>3 DEF Files!Restored, Files!RestoreFailed, Files!Recovered
    <3>. QED  BY <3>2, <3>3, <3>4
  <2>. QED  BY <2>2, <2>3
<1>8. CASE \E p \in DOMAIN files : Files!DamageFile(p)
  <2>1. PICK p \in DOMAIN files : Files!DamageFile(p)
    BY <1>8
  <2>2. Points([files EXCEPT ![p].content = None], made)
    BY PointsOneField
  <2>. QED  BY <2>1, <2>2 DEF Files!DamageFile
<1>. QED
  BY <1>1, <1>2, <1>3, <1>4, <1>5, <1>6, <1>7, <1>8 DEF Files!Next

(* The point just made is the last, so it stays when the others rotate,    *)
(* and what goes was there before.                                         *)
LEMMA RotatedWithPoint ==
  ASSUME PointsInv
  PROVE  LET f == Files!WithPoint(files, TRUE)
         IN  /\ made + 1 \in Files!Listed(Files!Rotated(f)) /\ Files!Rotated(f)[made + 1].content = library
             /\ Gone(f) \subseteq Files!Listed(files)
             /\ Files!Listed(files) \subseteq Files!Listed(f)
             /\ \A q \in Files!Listed(files) : f[q].size = files[q].size /\ f[q].retained = files[q].retained
<1>. DEFINE f == Files!WithPoint(files, TRUE)
<1>1. /\ Points(f, made + 1) /\ DOMAIN f = DOMAIN files \cup {made + 1}
      /\ \A p \in DOMAIN files : p # made + 1 /\ f[p] = files[p]
      /\ f[made + 1].content = library /\ f[made + 1].manifest = TRUE /\ ~f[made + 1].retained
  BY WithPointIs
<1>. HIDE DEF f
<1>2. made + 1 \in Files!Automatic(f)
  BY <1>1 DEF Files!Automatic, Files!Listed
<1>3. Files!Automatic(f) \subseteq DOMAIN f /\ DOMAIN f \subseteq 1..(made + 1)
  BY <1>1, AutomaticIs DEF Points
<1>4. \A q \in Files!Automatic(f) : q <= made + 1
  BY <1>3
<1>5. made + 1 \notin Gone(f)
  BY <1>1, <1>2, <1>4, LastStays
<1>6. Gone(f) \subseteq Files!Automatic(f)
  BY OldestIs DEF Gone
<1>7. Gone(f) \subseteq Files!Listed(files)
  BY <1>1, <1>5, <1>6 DEF Files!Automatic, Files!Listed
<1>8. /\ Files!Listed(files) \subseteq Files!Listed(f)
      /\ \A q \in Files!Listed(files) : f[q].size = files[q].size /\ f[q].retained = files[q].retained
  BY <1>1 DEF Files!Listed
<1>9. /\ Files!Listed(Files!Without(f, Gone(f))) = Files!Listed(f) \ Gone(f)
      /\ \A p \in DOMAIN f \ Gone(f) : Files!Without(f, Gone(f))[p] = f[p]
  BY WithoutIs
<1>10. made + 1 \in Files!Listed(f) /\ made + 1 \in DOMAIN f
  BY <1>2 DEF Files!Automatic, Files!Listed
<1>11. made + 1 \in Files!Listed(Files!Rotated(f)) /\ Files!Rotated(f)[made + 1].content = library
  BY <1>1, <1>5, <1>9, <1>10, RotatedIs
<1>. QED  BY <1>7, <1>8, <1>11 DEF f

(* A guarded operation and a restore that replaces the library leave a     *)
(* point with the library that was there.                                  *)
LEMMA ReplacedLeavesAPoint == ASSUME PointsInv PROVE Files!LeavesAPoint
<1>. DEFINE f == Files!WithPoint(files, TRUE)
<1>1. ASSUME files' = Files!Rotated(f)
      PROVE  \E p \in Files!Listed(files') : files'[p].content = library
  BY <1>1, RotatedWithPoint
<1>2. ASSUME files' = f
      PROVE  \E p \in Files!Listed(files') : files'[p].content = library
  <2>1. made + 1 \in DOMAIN f /\ f[made + 1].content = library /\ f[made + 1].manifest = TRUE
    BY WithPointIs
  <2>. HIDE DEF f
  <2>. QED  BY <1>2, <2>1 DEF Files!Listed
<1>. HIDE DEF f
<1>3. Files!Guarded => files' \in {f, Files!Rotated(f)}
  BY DEF Files!Guarded, f
<1>4. ASSUME NEW p \in DOMAIN shown, Files!RestorePoint(p)
      PROVE  library' = library \/ files' \in {f, Files!Rotated(f)}
  BY <1>4 DEF Files!RestorePoint, Files!Restored, Files!RestoreFailed, f
<1>. QED  BY <1>1, <1>2, <1>3, <1>4 DEF Files!LeavesAPoint

(* A point that is gone and was not deleted was surplus.                   *)
LEMMA RotationsTakeTheSurplus ==
  ASSUME PointsInv, Files!Next
  PROVE  Files!RotatesSurplus
<1>. SUFFICES ASSUME NEW p \in Files!Listed(files), p \notin Files!Listed(files'),
                     ~(p \in DOMAIN shown /\ Files!DeletePoint(p))
              PROVE  Files!Surplus(p)
  BY DEF Files!RotatesSurplus
<1>. DEFINE new == Files!WithPoint(files, TRUE)
<1>1. p \in DOMAIN files
  BY DEF Files!Listed
<1>2. files' # files /\ files' # new
  <2>1. p \in Files!Listed(new)
    BY RotatedWithPoint
  <2>. HIDE DEF new
  <2>. QED  BY <2>1
<1>3. ASSUME files' = Files!Rotated(new)
      PROVE  Files!Surplus(p)
  <2>1. Points(new, made + 1)
    BY WithPointIs
  <2>2. /\ Gone(new) \subseteq Files!Listed(files) /\ Files!Listed(files) \subseteq Files!Listed(new)
        /\ \A q \in Files!Listed(files) : new[q].size = files[q].size /\ new[q].retained = files[q].retained
    BY RotatedWithPoint
  <2>. HIDE DEF new
  <2>. QED  BY <1>3, <2>1, <2>2, RotationIsFair
<1>4. CASE Files!Guarded
  BY <1>2, <1>3, <1>4 DEF Files!Guarded
<1>5. CASE \E q \in DOMAIN shown : Files!RestorePoint(q)
  BY <1>2, <1>3, <1>5 DEF Files!RestorePoint, Files!Restored, Files!RestoreFailed
<1>6. CASE \E q \in DOMAIN shown : Files!SetRetained(q)
  <2>1. PICK q \in DOMAIN shown : Files!SetRetained(q)
    BY <1>6
  <2>. DEFINE b == ~shown[q].retained
              f == [files EXCEPT ![q].retained = b]
  <2>2. q \in Files!Listed(files) /\ (files' = f \/ files' = Files!Rotated(f))
    BY <1>2, <2>1 DEF Files!SetRetained
  <2>3. q \in DOMAIN files /\ b \in BOOLEAN
    BY <2>2 DEF Files!Listed
  <2>4. Points(f, made) /\ f[q].retained = b /\ f[q].size = files[q].size /\ f[q].manifest = files[q].manifest
    BY <2>3, PointsOneField
  <2>5. DOMAIN f = DOMAIN files /\ \A r \in DOMAIN files : r # q => f[r] = files[r]
    BY <2>3
  <2>. HIDE DEF f, b
  <2>6. Files!Listed(f) = Files!Listed(files) /\ \A r \in Files!Listed(files) : f[r].size = files[r].size
    BY <2>4, <2>5 DEF Files!Listed
  <2>7. files' = Files!Rotated(f)
    BY <2>2, <2>6
  <2>8. Gone(f) \subseteq Files!Listed(files)
    BY <2>6, OldestIs DEF Gone, Files!Automatic
  <2>9. files[p].retained => Files!SetRetained(p) \/ f[p].retained
    BY <1>1, <2>1, <2>5
  <2>. QED  BY <2>4, <2>6, <2>7, <2>8, <2>9, RotationIsFair
<1>7. CASE \E q \in DOMAIN shown : Files!DeletePoint(q)
  <2>1. PICK q \in DOMAIN shown : Files!DeletePoint(q)
    BY <1>7
  <2>2. q # p /\ files' = Files!Without(files, {q})
    BY <2>1 DEF Files!DeletePoint
  <2>3. Files!Listed(Files!Without(files, {q})) = Files!Listed(files) \ {q}
    BY WithoutIs
  <2>. QED  BY <2>2, <2>3
<1>8. CASE Files!Edit \/ Files!RefreshList \/ Files!DieCreating \/ Files!SetClockBack
           \/ \E q \in DOMAIN shown : Files!DieRetaining(q)
  BY <1>2, <1>8 DEF Files!Edit, Files!RefreshList, Files!DieCreating, Files!SetClockBack, Files!DieRetaining
<1>9. CASE \E q \in DOMAIN files : Files!DamageFile(q)
  <2>1. PICK q \in DOMAIN files : files' = [files EXCEPT ![q].content = None]
    BY <1>9 DEF Files!DamageFile
  <2>2. files[q] \in PointOf
    BY DEF PointsInv, Points
  <2>3. files'[q].manifest = files[q].manifest
    BY <2>1, <2>2 DEF PointOf
  <2>. QED  BY <2>1, <2>3 DEF Files!Listed
<1>. QED
  BY <1>4, <1>5, <1>6, <1>7, <1>8, <1>9 DEF Files!Next

(* A library is replaced only after a recovery point with it was made, and *)
(* a point goes only when the user deletes it or when the limits on number *)
(* and size say so: the retained ones never, and of the others the oldest. *)
THEOREM PointsStay == AllSpec => PointsAreKept
<1>. DEFINE PInv == part = "files" => PointsInv
            Step == part = "files" => Files!LeavesAPoint /\ Files!RotatesSurplus
<1>1. AllInit => PInv
  BY PointsInit DEF AllInit
<1>2. PInv /\ [AllNext]_allVars => PInv' /\ [Step]_allVars
  <2>. SUFFICES ASSUME PInv, [AllNext]_allVars, part = "files"
                PROVE  PointsInv' /\ [Step]_allVars
    BY DEF AllNext, allVars
  <2>1. [Files!Next]_PointsVars /\ (Files!Next \/ UNCHANGED allVars)
    BY DEF AllNext, allVars
  <2>2. PointsInv'
    BY <2>1, PointsStep
  <2>3. Files!Next => Files!RotatesSurplus
    BY RotationsTakeTheSurplus
  <2>. QED  BY <2>1, <2>2, <2>3, ReplacedLeavesAPoint
<1>. QED
  BY <1>1, <1>2, PTL DEF AllSpec, PointsAreKept
=============================================================================
