--------------------------- MODULE RecordEditing ---------------------------
(* The record screens of one device: the records React holds, the form, the *)
(* quick actions of the cards, and the commands they send to the database,  *)
(* which a sync pass changes meanwhile.  Commands are executed one by one   *)
(* in the order of their requests and answered in that order.  A record is  *)
(* reduced to two fields of the form, its lock and its revision.            *)
EXTENDS Integers, Sequences, FiniteSets

CONSTANTS Id,         \* record ids, those of records still to come included
          Imdb,       \* values of the IMDb field
          None,
          NewId,      \* stands for the id of a record that has none yet
          MaxRev,     \* bound on revisions
          MaxCalls    \* bound on commands under way

ASSUME RecordEditingAssumption ==
  /\ None \notin Id \cup Imdb /\ NewId \notin Id \cup {None}
  /\ "ignored" \notin Imdb
  /\ MaxRev \in Nat \ {0} /\ MaxCalls \in Nat

VARIABLES
  surface,   \* "desktop" or "mobile": which app the device starts
  db,        \* the records table
  gone,      \* ids with a tombstone: only a resolved conflict, not modelled, revives one
  screen,    \* recordsRef and the state that renders it
  form,      \* the open form, or None
  calls,     \* commands sent and not executed
  answers,   \* their results, on the way to the page
  merged,    \* a sync pass has committed and not yet asked for the records
  confirmed  \* IMDb ids the desktop's user accepted twice, or a pass brought

vars == <<surface, db, gone, screen, form, calls, answers, merged, confirmed>>

Status == {"todo", "done"}
Values == [imdb : Imdb, status : Status]
Record == [imdb : Imdb, status : Status, locked : BOOLEAN, rev : 0..MaxRev]
Table == [Id -> Record \cup {None}]

Form == [id : Id \cup {NewId}, draft : Values, seen : Record \cup {None}, no : 0..MaxCalls]

\* The fields a command writes; "ignored" stands for a field it leaves out.
Update == [imdb : Imdb \cup {"ignored"}, status : Status \cup {"ignored"},
           locked : {"on", "off", "ignored"}]
Nothing == [imdb |-> "ignored", status |-> "ignored", locked |-> "ignored"]

Kinds == {"add", "edit", "status", "lock", "unlock", "delete"}

\* A row or a command that is there is told from one that is not.
ASSUME NoneIsNothing == None \notin Record /\ None \notin Kinds

Call == [command : {"all", "insert", "update", "delete"}, kind : Kinds \cup {None},
         id : Id \cup {NewId}, upd : Update, rev : 0..MaxRev,
         seen : Record \cup {None}, form : 0..MaxCalls]
Answer == [call : Call, rows : Table, row : Record \cup {None}, ok : BOOLEAN]

TypeOK ==
  /\ surface \in {"desktop", "mobile"}
  /\ db \in Table /\ screen \in Table
  /\ gone \subseteq Id
  /\ form = None \/ form \in Form
  /\ merged \in BOOLEAN
  /\ calls \in Seq(Call) /\ answers \in Seq(Answer)
  /\ confirmed \subseteq Imdb

Underway == Len(calls) + Len(answers)
Quiet == Underway = 0 /\ ~merged

----------------------------------------------------------------------------
(* The database *)

(* Deviation: an update that raises the revision twice *)
UpdatedTwice(row, upd) ==
  [imdb   |-> IF upd.imdb = "ignored" THEN row.imdb ELSE upd.imdb,
   status |-> IF upd.status = "ignored" THEN row.status ELSE upd.status,
   locked |-> IF upd.locked = "ignored" THEN row.locked ELSE upd.locked = "on",
   rev    |-> row.rev + 2]

\* The row with the fields of an update, one revision later.
Updated(row, upd) ==
  [imdb   |-> IF upd.imdb = "ignored" THEN row.imdb ELSE upd.imdb,
   status |-> IF upd.status = "ignored" THEN row.status ELSE upd.status,
   locked |-> IF upd.locked = "ignored" THEN row.locked ELSE upd.locked = "on",
   rev    |-> row.rev + 1]

Reply(c, rows, row, ok) ==
  answers' = Append(answers, [call |-> c, rows |-> rows, row |-> row, ok |-> ok])

\* The next command is executed, in a transaction of its own.
Execute ==
  /\ calls # <<>>
  /\ LET c == Head(calls) IN
     /\ calls' = Tail(calls)
     /\ \/ /\ c.command = "all"
           /\ Reply(c, db, None, TRUE) /\ UNCHANGED <<db, gone>>
        \/ /\ c.command = "insert"
           /\ \E i \in {j \in Id \ gone : db[j] = None /\ screen[j] = None} :
                LET row == [imdb |-> c.upd.imdb, status |-> c.upd.status,
                            locked |-> FALSE, rev |-> 1] IN
                /\ db' = [db EXCEPT ![i] = row]
                /\ Reply([c EXCEPT !.id = i], db, row, TRUE)
                /\ UNCHANGED gone
        \/ /\ c.command = "update" /\ db[c.id] # None /\ db[c.id].rev < MaxRev
           /\ LET row == Updated(db[c.id], c.upd) IN
              /\ db' = [db EXCEPT ![c.id] = row]
              /\ Reply(c, db, row, TRUE)
              /\ UNCHANGED gone
        \/ /\ c.command = "delete" /\ db[c.id] # None
           /\ db' = [db EXCEPT ![c.id] = None]
           /\ gone' = gone \cup {c.id}
           /\ Reply(c, db, None, TRUE)
        \/ /\ c.command \in {"update", "delete"} /\ db[c.id] = None
           /\ Reply(c, db, None, FALSE) /\ UNCHANGED <<db, gone>>
  /\ UNCHANGED <<screen, form, merged, confirmed>>

\* A sync pass commits: an unlocked record is replaced, removed or brought
\* by another device.
SyncCommit(i, row) ==
  /\ ~merged
  /\ db[i] # None => ~db[i].locked /\ db[i].rev < MaxRev
  /\ row # None => row.rev = (IF db[i] = None THEN 1 ELSE db[i].rev + 1)
  /\ db[i] = None => row # None /\ screen[i] = None /\ i \notin gone
  /\ db' = [db EXCEPT ![i] = row]
  /\ gone' = IF row = None THEN gone \cup {i} ELSE gone
  /\ merged' = TRUE
  /\ confirmed' = IF surface = "mobile" \/ row = None THEN confirmed ELSE confirmed \cup {row.imdb}
  /\ UNCHANGED <<screen, form, calls, answers>>

----------------------------------------------------------------------------
(* The repository hooks *)

Send(command, kind, i, upd, seen) ==
  /\ Underway < MaxCalls
  /\ calls' = Append(calls,
       [command |-> command, kind |-> kind, id |-> i, upd |-> upd, seen |-> seen,
        rev |-> IF surface = "desktop" \/ i = NewId \/ screen[i] = None THEN 0 ELSE screen[i].rev,
        form |-> IF form = None THEN 0 ELSE form.no])

\* What the user of a card saw; the desktop sends nothing of it.
OnCard(i) == IF surface = "desktop" THEN None ELSE screen[i]

\* A write of an existing record: at once on the desktop, after a reading
\* of the library on the mobile surface.
Write(command, kind, i, upd, seen) ==
  Send(IF surface = "mobile" THEN "all" ELSE command, kind, i, upd, seen)

SyncReload ==
  /\ merged
  /\ merged' = FALSE
  /\ Send("all", None, NewId, Nothing, None)
  /\ UNCHANGED <<db, gone, screen, form, answers, confirmed>>

CommandOf(kind) == IF kind = "delete" THEN "delete" ELSE "update"

(* Deviation: the revision is not compared *)
RefusedWithoutRevision(c, row) == row = None \/ (row.locked /\ c.kind # "unlock")

\* reloadLatest and the checks of updateMobileRecord and deleteMobileRecord.
Refused(c, row) ==
  \/ row = None
  \/ row.rev # c.rev
  \/ row.locked /\ c.kind # "unlock"

\* The form that is open when a save succeeds is closed.
Saved(c) ==
  form' = IF c.kind \in {"add", "edit"} THEN None ELSE form

(* Deviation: a deleted record stays on the page *)
ShownUntilReload(a) ==
  CASE a.call.command = "all"    -> a.rows
    [] a.call.command = "insert" -> [screen EXCEPT ![a.call.id] = a.row]
    [] a.call.command = "update" ->
         [screen EXCEPT ![a.call.id] = IF @ = None THEN None ELSE a.row]
    [] a.call.command = "delete" -> screen

\* What the page holds after the answer of a command that succeeded.
Shown(a) ==
  CASE a.call.command = "all"    -> a.rows
    [] a.call.command = "insert" -> [screen EXCEPT ![a.call.id] = a.row]
    [] a.call.command = "update" ->
         [screen EXCEPT ![a.call.id] = IF @ = None THEN None ELSE a.row]
    [] a.call.command = "delete" -> [screen EXCEPT ![a.call.id] = None]

\* The answer of a write, or of a reading that nothing waits for.
Finish ==
  /\ answers # <<>>
  /\ LET a == Head(answers) IN
     /\ a.call.command # "all" \/ a.call.kind = None
     /\ answers' = Tail(answers)
     /\ screen' = IF a.ok THEN Shown(a) ELSE screen
     /\ IF a.ok THEN Saved(a.call) ELSE form' = form
  /\ UNCHANGED <<db, gone, calls, merged, confirmed>>

\* The answer of the reading that precedes a mobile write.
CheckLatest ==
  /\ answers # <<>>
  /\ LET a == Head(answers)
         c == a.call
         row == a.rows[c.id] IN
     /\ c.command = "all" /\ c.kind # None
     /\ answers' = Tail(answers)
     /\ screen' = Shown(a)
     /\ IF Refused(c, row)
        THEN UNCHANGED calls
        ELSE calls' = Append(calls, [c EXCEPT !.command = CommandOf(c.kind)])
  /\ UNCHANGED <<db, gone, form, merged, confirmed>>

----------------------------------------------------------------------------
(* The user *)

InFlight == {calls[k] : k \in DOMAIN calls} \cup {answers[k].call : k \in DOMAIN answers}

Saves == {c \in InFlight : c.kind \in {"add", "edit"}}

\* Numbers tell the mobile forms apart whose saves are under way.
Open(i, v, seen) ==
  /\ form = None
  /\ form' = [id |-> i, draft |-> v, seen |-> seen,
              no |-> IF surface = "desktop" THEN 0
                     ELSE CHOOSE n \in 0..MaxCalls : \A c \in Saves : c.form # n]

\* The mobile form disables its button while its save is under way.
MaySubmit == surface = "mobile" => \A c \in Saves : c.form # form.no

OpenNew ==
  /\ \E v \in Values : Open(NewId, v, None)
  /\ UNCHANGED <<db, gone, screen, calls, answers, merged, confirmed>>

DraftOf(row) == [imdb |-> row.imdb, status |-> row.status]

\* A card or the detail page: they do not open locked records.
OpenEdit(i) ==
  /\ screen[i] # None /\ ~screen[i].locked
  /\ Open(i, DraftOf(screen[i]), screen[i])
  /\ UNCHANGED <<db, gone, screen, calls, answers, merged, confirmed>>

\* The collection centre of the desktop opens any record.
OpenFromCollection(i) ==
  /\ surface = "desktop"
  /\ screen[i] # None
  /\ Open(i, DraftOf(screen[i]), screen[i])
  /\ UNCHANGED <<db, gone, screen, calls, answers, merged, confirmed>>

Type(v) ==
  /\ form # None /\ v # form.draft
  /\ form' = [form EXCEPT !.draft = v]
  /\ UNCHANGED <<db, gone, screen, calls, answers, merged, confirmed>>

\* The form goes away: cancelled, left with the Back key, or, on the mobile
\* surface, because its record is no longer there.
CloseForm ==
  /\ form # None
  /\ form' = None
  /\ UNCHANGED <<db, gone, screen, calls, answers, merged, confirmed>>

\* The desktop asks before a second record with the same IMDb id.
Duplicate(v, i) == \E j \in Id \ {i} : screen[j] # None /\ screen[j].imdb = v.imdb

FormFields(v) == [Nothing EXCEPT !.imdb = v.imdb, !.status = v.status]

Confirmed(v, i) ==
  confirmed' = IF surface = "desktop" /\ Duplicate(v, i)
               THEN confirmed \cup {v.imdb} ELSE confirmed

SaveNew ==
  /\ form # None /\ form.id = NewId /\ MaySubmit
  /\ Confirmed(form.draft, NewId)
  /\ Send("insert", "add", NewId, FormFields(form.draft), None)
  /\ UNCHANGED <<db, gone, screen, form, answers, merged>>

\* The mobile page looks the record up again and takes its revision from it;
\* the desktop sends what it has.
SaveEdit ==
  /\ form # None /\ form.id # NewId /\ MaySubmit
  /\ surface = "mobile" => screen[form.id] # None
  /\ Confirmed(form.draft, form.id)
  /\ Write("update", "edit", form.id, FormFields(form.draft), form.seen)
  /\ UNCHANGED <<db, gone, screen, form, answers, merged>>

ChangeStatus(i) ==
  /\ screen[i] # None /\ ~screen[i].locked
  /\ \E s \in Status \ {screen[i].status} :
       Write("update", "status", i, [Nothing EXCEPT !.status = s], OnCard(i))
  /\ UNCHANGED <<db, gone, screen, form, answers, merged, confirmed>>

ToggleLock(i) ==
  /\ screen[i] # None
  /\ LET lock == ~screen[i].locked IN
     Write("update", IF lock THEN "lock" ELSE "unlock", i, [Nothing EXCEPT !.locked = IF lock THEN "on" ELSE "off"], OnCard(i))
  /\ UNCHANGED <<db, gone, screen, form, answers, merged, confirmed>>

\* The card's button, which locked records lack.
Delete(i) ==
  /\ screen[i] # None /\ ~screen[i].locked
  /\ Write("delete", "delete", i, Nothing, OnCard(i))
  /\ UNCHANGED <<db, gone, screen, form, answers, merged, confirmed>>

\* The form's button; the desktop closes the form at once.
DeleteFromForm ==
  /\ form # None /\ form.id # NewId
  /\ surface = "mobile" => screen[form.id] # None
  /\ Write("delete", "delete", form.id, Nothing, form.seen)
  /\ form' = IF surface = "desktop" THEN None ELSE form
  /\ UNCHANGED <<db, gone, screen, answers, merged, confirmed>>

----------------------------------------------------------------------------

Init ==
  /\ surface \in {"desktop", "mobile"}
  /\ \E on \in SUBSET Id, v \in Imdb :
       db = [i \in Id |-> IF i \in on THEN [imdb |-> v, status |-> "todo", locked |-> FALSE, rev |-> 1] ELSE None]
  /\ \A i, j \in Id : db[i] # None /\ db[j] # None => i = j
  /\ screen = db /\ gone = {}
  /\ form = None /\ merged = FALSE
  /\ calls = <<>> /\ answers = <<>>
  /\ confirmed = {}

FormAction == OpenNew \/ CloseForm \/ SaveNew \/ SaveEdit \/ DeleteFromForm \/ (\E v \in Values : Type(v))
CardAction == \E i \in Id : OpenEdit(i) \/ OpenFromCollection(i) \/ ChangeStatus(i) \/ ToggleLock(i) \/ Delete(i)
Sync == SyncReload \/ \E i \in Id, row \in Record \cup {None} : SyncCommit(i, row)
Answered == Execute \/ Finish \/ CheckLatest

Next == (FormAction \/ CardAction \/ Sync \/ Answered) /\ UNCHANGED surface

Spec == Init /\ [][Next]_vars

----------------------------------------------------------------------------
(* Properties *)

\* When nothing is under way the page shows the database, whatever answers of
\* writes, readings and passes overlapped (useRecordRepository.ts, recordsRef).
ScreenIsCurrent == Quiet => screen = db

Content(row) == [imdb |-> row.imdb, status |-> row.status, locked |-> row.locked]

\* A card action of the mobile surface that passed the check writes over the
\* content the user saw when pressing it, and at most over what came in the
\* moment between the reading and the write (useMobileRecordRepository.ts).
WritesOverWhatItSaw ==
  \A k \in DOMAIN calls' :
    LET c == calls'[k] IN
    (/\ CheckLatest /\ calls' # calls /\ k = Len(calls')
     /\ c.kind \in {"status", "lock", "unlock"})
    => Content(Head(answers).rows[c.id]) = Content(c.seen)
QuickActionsSawTheRecord == [][WritesOverWhatItSaw]_vars

\* The same for the form: a draft made from an older record is refused.
StaleDraftIsRefused ==
  [][\A k \in DOMAIN calls' :
       LET c == calls'[k] IN
       (CheckLatest /\ calls' # calls /\ k = Len(calls') /\ c.kind = "edit")
       => Content(Head(answers).rows[c.id]) = Content(c.seen)]_vars

\* A record that is locked, and that the user saw locked, is changed by this
\* device only by unlocking it (RecordCard.tsx, PosterWall.tsx).
LockedIsReadOnly ==
  [][\A i \in Id :
       (/\ Execute /\ db[i] # None /\ db[i].locked /\ db'[i] # db[i]
        /\ Head(calls).seen # None) => 
       (Head(calls).seen.locked => Head(calls).kind = "unlock")]_vars

\* Two records with one IMDb id on the desktop: the user was asked, or a pass
\* brought one (App.tsx, handleSave).
DuplicatesAreConfirmed ==
  \A i, j \in Id : (i # j /\ db[i] # None /\ db[j] # None /\ db[i].imdb = db[j].imdb)
                      => db[i].imdb \in confirmed

=============================================================================
