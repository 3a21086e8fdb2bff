---------------------------- MODULE LocalImport ----------------------------
(***************************************************************************)
(* Backups of the library: export to a document and import from one, on    *)
(* the Android page (MobileSyncSettingsPage.tsx with local_import.rs) and  *)
(* in the desktop's settings (useImportExport.ts), and what a later sync   *)
(* makes of an imported library.                                           *)
(*                                                                         *)
(* A library is the version of each record and the set of records that     *)
(* have an episode history; collections and their members follow the       *)
(* history's pattern and are left out.  The cloud is changed by no other   *)
(* device here, so that it equals the baseline.  An import on Android is   *)
(* staged in a file, previewed and confirmed; edits, locks and syncs go on *)
(* meanwhile, and the page may be left.                                    *)
(***************************************************************************)
EXTENDS FiniteSets

CONSTANTS Rec, Version, Token,
          Desktop,   \* the desktop's settings, else the Android page
          None

Busy == {"select", "preview", "commit"}

ASSUME LocalImportAssumption ==
  Desktop \in BOOLEAN /\ None \notin Version \cup Token \cup Busy

VARIABLES
  lib,      \* the library
  locked,   \* the locked records
  deleted,  \* records with a tombstone
  base,     \* the baseline, which equals the cloud
  doc,      \* the user's backup document, or None
  reading,  \* the desktop's export: its records, the histories not yet read
  stage,    \* stage[k]: the staged copy of a document, or None
  issued,   \* the tokens used so far
  page,     \* the import of the page in view
  left      \* the operations of pages that were left, see Leave

vars == <<lib, locked, deleted, base, doc, reading, stage, issued, page, left>>

Library == [rec : [Rec -> Version \cup {None}], hist : SUBSET Rec]
Present(l) == {r \in Rec : l.rec[r] # None}

(* Every history belongs to a record: a foreign key of the database, and   *)
(* what validate_domain asks of a backup.                                  *)
Sound(l) == l.hist \subseteq Present(l)

Empty == [rec |-> [r \in Rec |-> None], hist |-> {}]

Preview == [token : Token, of : Library, locks : SUBSET Rec, shows : Library]
Page    == [busy : Busy \cup {None}, token : Token \cup {None}, preview : {None} \cup Preview]
Idle    == [busy |-> None, token |-> None, preview |-> None]

TypeOK ==
  /\ lib \in Library /\ Sound(lib) /\ locked \subseteq Present(lib) /\ deleted \subseteq Rec
  /\ base \in Library
  /\ doc \in {None} \cup Library /\ reading \in {None} \cup Library
  /\ stage \in [Token -> {None} \cup Library] /\ issued \subseteq Token
  /\ page \in Page /\ left \subseteq Page

Init ==
  /\ lib \in {l \in Library : Sound(l)} /\ base \in {lib, Empty}
  /\ locked = {} /\ deleted = {}
  /\ doc = None /\ reading = None
  /\ stage = [k \in Token |-> None] /\ issued = {}
  /\ page = Idle /\ left = {}
-----------------------------------------------------------------------------
(* The library.                                                            *)

SaveRecord ==
  /\ \E r \in Rec \ locked, v \in Version :
       /\ lib' = [lib EXCEPT !.rec[r] = v]
       /\ deleted' = deleted \ {r}
  /\ UNCHANGED <<locked, base, doc, reading, stage, issued, page, left>>

Watch ==
  /\ \E r \in Present(lib) \ locked : lib' = [lib EXCEPT !.hist = @ \cup {r}]
  /\ UNCHANGED <<locked, deleted, base, doc, reading, stage, issued, page, left>>

ToggleLock ==
  /\ \E r \in Present(lib) : locked' = IF r \in locked THEN locked \ {r} ELSE locked \cup {r}
  /\ UNCHANGED <<lib, deleted, base, doc, reading, stage, issued, page, left>>

DeleteRecord ==
  /\ \E r \in Present(lib) \ locked :
       /\ lib' = [rec |-> [lib.rec EXCEPT ![r] = None], hist |-> lib.hist \ {r}]
       /\ deleted' = deleted \cup {r}
  /\ UNCHANGED <<locked, base, doc, reading, stage, issued, page, left>>

(* A sync: a record the device says nothing of is taken from the baseline, *)
(* a deletion needs its tombstone; of the histories only those whose       *)
(* record is there remain.                                                 *)
Synced ==
  LET rec == [r \in Rec |-> IF lib.rec[r] # None THEN lib.rec[r]
                            ELSE IF r \in deleted THEN None ELSE base.rec[r]]
  IN  [rec |-> rec, hist |-> {r \in lib.hist : rec[r] # None}]

Sync ==
  /\ lib' = Synced /\ base' = Synced
  /\ UNCHANGED <<locked, deleted, doc, reading, stage, issued, page, left>>
-----------------------------------------------------------------------------
(* Export.                                                                 *)

(* exportLocalData: one command reads everything.                          *)
ExportMobile ==
  /\ ~Desktop
  /\ doc' = lib
  /\ UNCHANGED <<lib, locked, deleted, base, reading, stage, issued, page, left>>

(* handleExport: the records are those on the screen, the histories are    *)
(* asked for; other commands come in between.                              *)
ExportDesktop ==
  /\ Desktop /\ reading = None
  /\ reading' = [rec |-> lib.rec, hist |-> {}]
  /\ UNCHANGED <<lib, locked, deleted, base, doc, stage, issued, page, left>>

ExportRead ==
  /\ reading # None
  /\ doc' = [reading EXCEPT !.hist = lib.hist]
  /\ reading' = None
  /\ UNCHANGED <<lib, locked, deleted, base, stage, issued, page, left>>
-----------------------------------------------------------------------------
(* Import.                                                                 *)

(* replace_library_atomic: locked records and their histories stay.        *)
Replaced(b) ==
  [rec  |-> [r \in Rec |-> IF r \in locked THEN lib.rec[r] ELSE b.rec[r]],
   hist |-> {r \in Rec : IF r \in locked THEN r \in lib.hist ELSE r \in b.hist}]

(* preview: the library as it is and as it would be.                       *)
PreviewOf(k) == [token |-> k, of |-> lib, locks |-> locked, shows |-> Replaced(stage[k])]

(* Deviation: the preview is compared with the records only.               *)
FreshRecords(p) == p.of.rec = lib.rec

(* The fingerprint of the library, taken by preview and again by commit.   *)
Fresh(p) == p.of = lib /\ p.locks = locked

Discarded(k) == IF k = None THEN stage ELSE [stage EXCEPT ![k] = None]

(* chooseImport first clears what is pending, then opens the picker.       *)
ChooseImport ==
  /\ ~Desktop /\ page.busy = None
  /\ stage' = Discarded(page.token)
  /\ page' = [Idle EXCEPT !.busy = "select"]
  /\ UNCHANGED <<lib, locked, deleted, base, doc, reading, issued, left>>

(* The picker answers: nothing, or a token for the copy it has staged.     *)
Selected(q) ==
  \/ q' = Idle /\ UNCHANGED <<stage, issued>>
  \/ /\ doc # None
     /\ \E k \in Token \ issued :
          /\ stage' = [stage EXCEPT ![k] = doc]
          /\ issued' = issued \cup {k}
          /\ q' = [Idle EXCEPT !.busy = "preview", !.token = k]

Select ==
  /\ page.busy = "select"
  /\ Selected(page)
  /\ UNCHANGED <<lib, locked, deleted, base, doc, reading, left>>

(* previewLocalImport; what cannot be read is discarded on both sides.     *)
ShowPreview ==
  /\ page.busy = "preview"
  /\ IF stage[page.token] # None /\ Sound(stage[page.token])
       THEN page' = [page EXCEPT !.busy = None, !.preview = PreviewOf(page.token)] /\ UNCHANGED stage
       ELSE page' = Idle /\ stage' = Discarded(page.token)
  /\ UNCHANGED <<lib, locked, deleted, base, doc, reading, issued, left>>

CancelImport ==
  /\ page.busy = None /\ page.preview # None
  /\ page' = Idle /\ stage' = Discarded(page.token)
  /\ UNCHANGED <<lib, locked, deleted, base, doc, reading, issued, left>>

ConfirmImport ==
  /\ page.busy = None /\ page.preview # None
  /\ page' = [page EXCEPT !.busy = "commit"]
  /\ UNCHANGED <<lib, locked, deleted, base, doc, reading, stage, issued, left>>

(* commit; the recovery point it makes first is WatchSyncRecovery's.        *)
Apply(p) ==
  /\ lib' = Replaced(stage[p.token])
  /\ stage' = Discarded(p.token)

(* A stale preview is replaced by a new one, any other failure clears.     *)
Commit ==
  /\ page.busy = "commit"
  /\ \/ Fresh(page.preview) /\ Apply(page.preview) /\ page' = Idle
     \/ /\ ~Fresh(page.preview)
        /\ page' = [page EXCEPT !.busy = None, !.preview = PreviewOf(page.preview.token)]
        /\ UNCHANGED <<lib, stage>>
     \/ page' = Idle /\ stage' = Discarded(page.token) /\ UNCHANGED lib
  /\ UNCHANGED <<locked, deleted, base, doc, reading, issued, left>>

(* The page is left: its pending import is discarded, unless it is being   *)
(* committed; what was under way goes on without a page.                   *)
Leave ==
  /\ ~Desktop /\ page # Idle
  /\ stage' = IF page.busy = "commit" THEN stage ELSE Discarded(page.token)
  /\ left' = left \cup IF page.busy \in {"select", "commit"} THEN {page} ELSE {}
  /\ page' = Idle
  /\ UNCHANGED <<lib, locked, deleted, base, doc, reading, issued>>

(* The picker answers a page that was left: the copy is staged and read,   *)
(* and nobody is there to confirm or cancel it.                            *)
SelectLeft ==
  /\ \E q \in left :
       /\ q.busy = "select" /\ left' = left \ {q}
       /\ doc # None
       /\ \E k \in Token \ issued :
            /\ issued' = issued \cup {k}
            /\ stage' = IF Sound(doc) THEN [stage EXCEPT ![k] = doc] ELSE stage
  /\ UNCHANGED <<lib, locked, deleted, base, doc, reading, page>>

CommitLeft ==
  /\ \E q \in left :
       /\ q.busy = "commit" /\ left' = left \ {q}
       /\ IF Fresh(q.preview) THEN Apply(q.preview)
          ELSE UNCHANGED <<lib, stage>>
  /\ UNCHANGED <<locked, deleted, base, doc, reading, issued, page>>

(* The program ends; cleanup_stale empties the directory at the next start.*)
Restart ==
  /\ ~Desktop
  /\ stage' = [k \in Token |-> None] /\ page' = Idle /\ left' = {}
  /\ UNCHANGED <<lib, locked, deleted, base, doc, reading, issued>>

(* handleImportLocal of the desktop: at once, or an error; the database    *)
(* refuses histories of records that the library would not have.           *)
ImportDesktop ==
  /\ Desktop /\ doc # None
  /\ Sound(Replaced(doc))
  /\ lib' = Replaced(doc)
  /\ UNCHANGED <<locked, deleted, base, doc, reading, stage, issued, page, left>>

(* Files without histories (and "import from the cloud") replace the       *)
(* records and keep the histories of those that remain.                    *)
ImportRecords ==
  /\ Desktop /\ doc # None
  /\ LET rec == Replaced(doc).rec IN
       lib' = [rec |-> rec, hist |-> {r \in lib.hist : rec[r] # None}]
  /\ UNCHANGED <<locked, deleted, base, doc, reading, stage, issued, page, left>>

LibraryStep == SaveRecord \/ Watch \/ ToggleLock \/ DeleteRecord \/ Sync
Import == ChooseImport \/ Select \/ ShowPreview \/ CancelImport \/ ConfirmImport \/ Commit
          \/ Leave \/ SelectLeft \/ CommitLeft \/ ImportDesktop \/ ImportRecords
Next == LibraryStep \/ ExportMobile \/ ExportDesktop \/ ExportRead \/ Import \/ Restart
Spec == Init /\ [][Next]_vars
-----------------------------------------------------------------------------
(* Properties.                                                             *)

(* What the user confirmed is what happens: an import leaves the very      *)
(* library its preview showed, whatever was edited, locked or synchronised *)
(* between the preview and the confirmation.                               *)
ImportAsPreviewed ==
  [][Commit /\ lib' # lib => lib' = page.preview.shows]_vars

(* The preview on the screen can be confirmed or cancelled: its file is    *)
(* there, also after a refused commit and after earlier pages were left.   *)
PreviewHasItsFile == page.preview # None => stage[page.token] # None

(* A locked record and its history survive an import, a sync and an edit.  *)
LockedStay ==
  [][\A r \in locked \cap locked' : lib'.rec[r] = lib.rec[r] /\ (r \in lib.hist => r \in lib'.hist)]_vars

(* A document the program has written can be read again: every history in  *)
(* it belongs to one of its records.                                       *)
BackupIsSound == doc # None => Sound(doc)

(* What an import has removed stays removed: a sync, with no other device  *)
(* about, changes nothing in an imported library.                          *)
SyncKeepsTheLibrary == [][Sync => lib' = lib]_vars
=============================================================================
