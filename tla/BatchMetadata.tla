----------------------------- MODULE BatchMetadata -----------------------------
(***************************************************************************)
(* Completing missing metadata in batches (useBatchMetadata.ts,            *)
(* batchMetadata.ts, metadata_identity.rs): an analysis looks the records  *)
(* up in TMDB, a preview lets the user choose among several matches, and   *)
(* the confirmed fields are written record by record, the TMDB identity    *)
(* after the other fields.  What TMDB does not have is remembered.  Sync   *)
(* commits and restored recovery points change the database meanwhile.     *)
(* The fields are reduced to one ordinary field and the identity.          *)
(***************************************************************************)
EXTENDS Integers, FiniteSets, FiniteSetsExt

CONSTANTS
  Rec,         \* record ids, numbers in the order of the list
  Matches,     \* IMDb id -> the TMDB entities of the record's type it finds
  Titled,      \* entities for which TMDB has the ordinary field
  Stored,      \* records at the start
  Change(_),   \* what a sync commit may make of a record
  Patient,     \* the user waits for the answer to one choice before the next click
  Quiet,       \* nothing changes the database while the fields are written
  MaxChanges,  \* bound on changes from elsewhere
  MaxRuns,     \* bound on analyses
  None

\* A row of the records, of which None says that it is deleted.
IsRow(x) ==
  /\ DOMAIN x = {"imdb", "name", "ident", "locked", "rev"}
  /\ x.locked \in BOOLEAN /\ x.rev \in Nat

BatchAssumption ==
  /\ \A x \in Stored : x = None \/ IsRow(x)
  /\ Rec \subseteq Nat /\ Patient \in BOOLEAN /\ Quiet \in BOOLEAN
  /\ MaxChanges \in Nat /\ MaxRuns \in Nat

VARIABLES
  db,         \* the records: imdb, name, ident (None where missing), locked, rev
  screen,     \* recordsRef
  remembered, \* BATCH_METADATA_STATE_KEY: record -> imdb and fields without data
  phase,
  todo,       \* the targets not yet analysed, with the records of the start
  draft,      \* noDataState of the analysis
  plan,       \* batchPlan: record -> row
  choosing,   \* choices of a match under way
  queue,      \* the rows still to write
  writing,    \* the row being written, or None
  failed,     \* the rows of failed results
  reload,     \* identityUpdated
  changes, runs

vars == <<db, screen, remembered, phase, todo, draft, plan, choosing, queue, writing, failed, reload, changes, runs>>
bounds == <<changes, runs>>
analysis == <<todo, draft>>
applying == <<queue, writing, failed, reload>>

NoRows == [r \in {} |-> None]
Entry(i, F) == [imdb |-> i, fields |-> F]
Nothing == [r \in Rec |-> Entry(None, {})]
Row(status, i, e, F) == [status |-> status, imdb |-> i, entity |-> e, fields |-> F]

Init ==
  /\ db \in [Rec -> Stored] /\ screen = db
  /\ remembered = Nothing /\ draft = Nothing
  /\ phase = "idle" /\ todo = NoRows /\ plan = NoRows /\ choosing = {}
  /\ queue = NoRows /\ writing = None /\ failed = NoRows /\ reload = FALSE
  /\ changes = 0 /\ runs = 0

-----------------------------------------------------------------------------
Missing(x) == {f \in {"name", "ident"} : x[f] = None}
NoData(m, r, i) == IF m[r].imdb = i THEN m[r].fields ELSE {}
Prune(m, rows) == [r \in Rec |-> IF rows[r] # None /\ rows[r].imdb = m[r].imdb THEN m[r] ELSE Entry(None, {})]
Remember(m, r, i, F) == IF F = {} THEN m ELSE [m EXCEPT ![r] = Entry(i, NoData(m, r, i) \cup F)]

\* isBatchMetadataCandidate
Candidate(m, r, x) == x # None /\ x.imdb # None /\ ~x.locked /\ Missing(x) \ NoData(m, r, x.imdb) # {}

Offered(e) == {"ident"} \cup (IF e \in Titled THEN {"name"} ELSE {})

\* The row and the missing data of a record for which one entity was found.
RowFor(m, r, x, e) ==
  LET F == (Missing(x) \ NoData(m, r, x.imdb)) \cap Offered(e)
  IN  Row(IF F = {} THEN "skipped" ELSE "ready", x.imdb, e, F)
Lacking(m, r, x, e) == (Missing(x) \ NoData(m, r, x.imdb)) \ Offered(e)

(* handlePrepare                                                           *)
Prepare ==
  LET m == Prune(remembered, screen)
      targets == {r \in Rec : Candidate(m, r, screen[r])}
  IN  /\ phase \in {"idle", "done"} \/ (phase = "preview" /\ \E r \in DOMAIN plan : plan[r].status = "failed")
      /\ Patient => choosing = {}
      /\ runs < MaxRuns /\ runs' = runs + 1
      /\ IF targets = {} THEN remembered' = m /\ UNCHANGED <<phase, todo, draft, plan, applying>>
         ELSE /\ phase' = "planning" /\ todo' = [r \in targets |-> screen[r]]
              /\ draft' = m /\ plan' = NoRows /\ queue' = NoRows /\ failed' = NoRows
              /\ UNCHANGED <<remembered, writing, reload>>
      /\ UNCHANGED <<db, screen, choosing, changes>>

Rest(f, r) == [q \in DOMAIN f \ {r} |-> f[q]]
With(f, r, x) == [q \in DOMAIN f \cup {r} |-> IF q = r THEN x ELSE f[q]]

Analyse(answered) ==
  /\ phase = "planning" /\ DOMAIN todo # {}
  /\ LET r == Min(DOMAIN todo)
         x == todo[r]
         found == Matches[x.imdb]
     IN  /\ todo' = Rest(todo, r)
         /\ IF ~answered
              THEN plan' = With(plan, r, Row("failed", x.imdb, None, {})) /\ UNCHANGED draft
            ELSE IF Cardinality(found) = 1
              THEN LET e == CHOOSE o \in found : TRUE
                   IN  /\ plan' = With(plan, r, RowFor(draft, r, x, e))
                       /\ draft' = Remember(draft, r, x.imdb, Lacking(draft, r, x, e))
            ELSE IF found = {}
              THEN /\ plan' = With(plan, r, Row("skipped", x.imdb, None, {}))
                   /\ draft' = Remember(draft, r, x.imdb, Missing(x))
            ELSE plan' = With(plan, r, Row("choice", x.imdb, None, {})) /\ UNCHANGED draft
  /\ UNCHANGED <<db, screen, remembered, phase, choosing, applying, bounds>>

\* Deviation: a stopped analysis keeps its targets.
PreviewKeepsTargets ==
  /\ phase = "planning" /\ phase' = "preview"
  /\ todo' = todo /\ remembered' = draft
  /\ UNCHANGED <<db, screen, draft, plan, choosing, applying, bounds>>

(* The analysis ends, or the user stops it; it writes the whole setting.   *)
Preview ==
  /\ phase = "planning" /\ phase' = "preview"
  /\ todo' = NoRows /\ remembered' = draft
  /\ UNCHANGED <<db, screen, draft, plan, choosing, applying, bounds>>

Clear ==
  /\ phase \in {"idle", "done"} /\ remembered # Nothing /\ remembered' = Nothing
  /\ UNCHANGED <<db, screen, phase, analysis, plan, choosing, applying, bounds>>

Reset ==
  /\ phase \in {"preview", "done"} /\ phase' = "idle" /\ plan' = NoRows /\ failed' = NoRows
  /\ UNCHANGED <<db, screen, remembered, analysis, choosing, queue, writing, reload, bounds>>

-----------------------------------------------------------------------------
(* handleSelectCandidate: TMDB is asked for the entity, the setting is     *)
(* read, and what becomes of it is written.                                *)
Choose(r, e) ==
  /\ phase = "preview" /\ r \in DOMAIN plan /\ plan[r].status = "choice"
  /\ screen[r] # None /\ e \in Matches[plan[r].imdb]
  /\ Patient => choosing = {}
  /\ \A c \in choosing : c.r # r
  /\ choosing' = choosing \cup {[r |-> r, entity |-> e, row |-> screen[r], read |-> None]}
  /\ UNCHANGED <<db, screen, remembered, phase, analysis, plan, applying, bounds>>

\* Deviation: the memory of the other records is not kept.
ChoiceReadAlone(c) ==
  /\ c \in choosing /\ c.read = None
  /\ choosing' = (choosing \ {c}) \cup {[c EXCEPT !.read = Nothing]}
  /\ UNCHANGED <<db, screen, remembered, phase, analysis, plan, applying, bounds>>

ChoiceRead(c) ==
  /\ c \in choosing /\ c.read = None
  /\ choosing' = (choosing \ {c}) \cup {[c EXCEPT !.read = Prune(remembered, screen)]}
  /\ UNCHANGED <<db, screen, remembered, phase, analysis, plan, applying, bounds>>

ChoiceWritten(c) ==
  /\ c \in choosing /\ c.read # None /\ choosing' = choosing \ {c}
  /\ IF c.row.imdb = None THEN remembered' = c.read
     ELSE remembered' = Remember(c.read, c.r, c.row.imdb, Lacking(c.read, c.r, c.row, c.entity))
  /\ plan' = IF c.r \in DOMAIN plan THEN [plan EXCEPT ![c.r] = RowFor(c.read, c.r, c.row, c.entity)] ELSE plan
  /\ UNCHANGED <<db, screen, phase, analysis, applying, bounds>>

ChoiceFailed(c) ==
  /\ c \in choosing /\ choosing' = choosing \ {c}
  /\ UNCHANGED <<db, screen, remembered, phase, analysis, plan, applying, bounds>>

-----------------------------------------------------------------------------
(* handleApply, for the ready rows or once more for the failed ones.       *)
Ready == {r \in DOMAIN plan : plan[r].status = "ready"}

Apply ==
  /\ \/ phase = "preview" /\ Ready # {} /\ queue' = [r \in Ready |-> plan[r]]
     \/ phase = "done" /\ failed # NoRows /\ queue' = failed
  /\ Quiet => screen = db
  /\ phase' = "applying" /\ failed' = NoRows /\ reload' = FALSE
  /\ UNCHANGED <<db, screen, remembered, analysis, plan, choosing, writing, bounds>>

\* Deviation: the planned fields are written without another look.
BeginRowUnchecked ==
  /\ phase = "applying" /\ DOMAIN queue # {} /\ writing = None
  /\ LET r == Min(DOMAIN queue)
         cur == screen[r]
     IN  /\ queue' = Rest(queue, r)
         /\ writing' = IF cur = None \/ cur.locked THEN None
                       ELSE [r |-> r, row |-> queue[r], fields |-> queue[r].fields, left |-> queue[r].fields,
                             rev |-> cur.rev, imdb |-> cur.imdb]
  /\ UNCHANGED <<db, screen, remembered, phase, analysis, plan, choosing, failed, reload, bounds>>

BeginRow ==
  /\ phase = "applying" /\ DOMAIN queue # {} /\ writing = None
  /\ LET r == Min(DOMAIN queue)
         cur == screen[r]
         safe == queue[r].fields \cap Missing(cur)
     IN  /\ queue' = Rest(queue, r)
         /\ writing' = IF cur = None \/ cur.locked THEN None
                       ELSE IF safe = {} THEN None
                       ELSE [r |-> r, row |-> queue[r], fields |-> safe, left |-> safe,
                             rev |-> cur.rev, imdb |-> cur.imdb]
  /\ UNCHANGED <<db, screen, remembered, phase, analysis, plan, choosing, failed, reload, bounds>>

(* onUpdateRecord: update_record_atomic looks neither at the lock nor at   *)
(* the revision.                                                           *)
WriteName ==
  /\ writing # None /\ "name" \in writing.left
  /\ LET r == writing.r
     IN  IF db[r] = None
         THEN /\ failed' = With(failed, r, writing.row) /\ writing' = None /\ UNCHANGED <<db, screen>>
         ELSE /\ db' = [db EXCEPT ![r].name = writing.row.entity, ![r].rev = @ + 1]
              /\ screen' = [screen EXCEPT ![r] = db'[r]]
              /\ writing' = IF "ident" \in writing.left
                            THEN [writing EXCEPT !.left = {"ident"}, !.rev = @ + 1] ELSE None
              /\ UNCHANGED failed
  /\ UNCHANGED <<remembered, phase, analysis, plan, choosing, queue, reload, bounds>>

\* Deviation: any record may get the identity.
RefusedIfStale(r, e) == db[r] = None \/ db[r].locked \/ db[r].rev # writing.rev \/ db[r].imdb # writing.imdb

\* complete_missing_tmdb_identity
Refused(r, e) ==
  \/ db[r] = None \/ db[r].locked \/ db[r].rev # writing.rev \/ db[r].imdb # writing.imdb
  \/ db[r].ident \notin {None, e}
  \/ \E q \in Rec \ {r} : db[q] # None /\ db[q].ident = e

WriteIdentity ==
  /\ writing # None /\ writing.left = {"ident"} /\ writing' = None
  /\ LET r == writing.r
         e == writing.row.entity
     IN  IF Refused(r, e)
         THEN /\ failed' = IF "name" \in writing.fields THEN failed ELSE With(failed, r, writing.row)
              /\ UNCHANGED <<db, reload>>
         ELSE /\ db' = [db EXCEPT ![r].ident = e, ![r].rev = @ + 1]
              /\ reload' = TRUE /\ UNCHANGED failed
  /\ UNCHANGED <<screen, remembered, phase, analysis, plan, choosing, queue, bounds>>

\* The last row is written, or the user has stopped the task.
EndApply ==
  /\ phase = "applying" /\ writing = None /\ phase' = "done"
  /\ queue' = NoRows /\ screen' = IF reload THEN db ELSE screen
  /\ UNCHANGED <<db, remembered, analysis, plan, choosing, writing, failed, reload, bounds>>

-----------------------------------------------------------------------------
(* A sync commit or a restored recovery point.                             *)
Changed(r) ==
  /\ changes < MaxChanges /\ changes' = changes + 1
  /\ Quiet => phase # "applying"
  /\ \E x \in Change(db[r]) : (x # None => IsRow(x)) /\ x # db[r] /\ db' = [db EXCEPT ![r] = x]
  /\ UNCHANGED <<screen, remembered, phase, analysis, plan, choosing, applying, runs>>

Refresh ==
  /\ screen # db /\ screen' = db
  /\ UNCHANGED <<db, remembered, phase, analysis, plan, choosing, applying, bounds>>

Next ==
  \/ Prepare \/ Preview \/ Clear \/ Reset \/ Apply \/ BeginRow \/ WriteName \/ WriteIdentity \/ EndApply \/ Refresh
  \/ \E answered \in BOOLEAN : Analyse(answered)
  \/ \E r \in Rec : Changed(r)
  \/ \E r \in Rec, e \in UNION {Matches[i] : i \in DOMAIN Matches} : Choose(r, e)
  \/ \E c \in choosing : ChoiceRead(c) \/ ChoiceWritten(c) \/ ChoiceFailed(c)

Spec == Init /\ [][Next]_vars
-----------------------------------------------------------------------------
TypeOK ==
  /\ \A r \in Rec : db[r] # None => db[r].rev \in Nat /\ db[r].locked \in BOOLEAN
  /\ phase \in {"idle", "planning", "preview", "applying", "done"}
  /\ (todo # NoRows => phase = "planning") /\ (queue # NoRows \/ writing # None => phase = "applying")
  /\ DOMAIN plan \subseteq Rec /\ DOMAIN failed \subseteq Rec
  /\ \A r \in DOMAIN queue : queue[r].status = "ready" /\ queue[r].fields # {}
  /\ \A r \in Rec : remembered[r].fields \subseteq {"name", "ident"}

\* A write of the batch: no other step changes what is being written.
Written == writing # None /\ writing' # writing

(* The batch writes fields that are missing and no locked record.          *)
WritesMissing ==
  Written => \A r \in Rec : db'[r] # db[r] =>
    /\ ~db[r].locked
    /\ db[r].name # None => db'[r].name = db[r].name
    /\ db[r].ident # None => db'[r].ident = db[r].ident
OnlyMissingIsWritten == [][WritesMissing]_vars

(* The identity it writes belongs to the IMDb id the record has.           *)
IdentityFitsTheRecord ==
  [][Written => \A r \in Rec : (db'[r] # db[r] /\ db'[r].ident # db[r].ident) =>
       db[r].imdb # None /\ db'[r].ident \in Matches[db[r].imdb]]_vars

(* It gives no entity to two records, whatever others have done.           *)
IdentityOnceStep ==
  Written => \A r, q \in Rec : (r # q /\ db'[r] # db[r] /\ db'[r].ident # db[r].ident /\ db'[q] # None) =>
    db'[q].ident # db'[r].ident
IdentityOnce == [][IdentityOnceStep]_vars

(* What TMDB is known not to have stays known while the record keeps its   *)
(* IMDb id, until the user clears it.                                      *)
NoDataStaysKnownStep ==
  remembered' = Nothing \/ \A r \in Rec :
    \/ remembered[r].fields \subseteq remembered'[r].fields
    \/ screen[r] = None \/ screen[r].imdb # remembered[r].imdb
NoDataStaysKnown == [][NoDataStaysKnownStep]_vars
=============================================================================
