-------------------------- MODULE CollectionCenter -------------------------
(***************************************************************************)
(* The collection centre and the collections part of the record form       *)
(* (CollectionCenter.tsx, CollectionMembership.tsx, App.tsx) over the      *)
(* commands of src-tauri/src/collections.rs, with the copy of the          *)
(* collections they share in useCollections.ts.                            *)
(*                                                                         *)
(* A command runs in the order it was called; when it succeeds the copy is *)
(* read again, when it fails it is not.  A sync pass also writes the       *)
(* tables, and nothing reads the copy again after it.  Positions are       *)
(* counted in steps of 1024.                                               *)
(***************************************************************************)
EXTENDS Integers, FiniteSets, Sequences, SequencesExt, Functions, FiniteSetsExt

CONSTANTS
  Cid,            \* collection ids; a deleted one is not given again
  Rec,            \* records, numbered in the order of their member ids
  Name,
  SyncBumps,      \* a sync commit that changes a collection raises its rev (it keeps the
                  \* greater of two: TRUE when only one device has edited it)
  OpenWhileBusy,  \* the user may open a record's form while a command runs
  MaxSteps,       \* bound: commands called and commits of passes together
  None

\* The form of a record.
Form == [rec : Rec, chosen : SUBSET Cid, off : SUBSET Cid, sent : BOOLEAN]

ASSUME CenterAssumption ==
  /\ IsFiniteSet(Cid) /\ IsFiniteSet(Rec) /\ None \notin Form \cup {"duplicate", "retry", "failed"}
  /\ Rec \subseteq Nat /\ SyncBumps \in BOOLEAN /\ OpenWhileBusy \in BOOLEAN /\ MaxSteps \in Nat

VARIABLES
  db,        \* the tables: db[c] is None or a collection with its members' rows
  used,      \* ids that have been given
  shown,     \* the copy in useCollections
  ops,       \* commands called and not yet answered and shown, in order
  page,      \* "library", "center" or "form"
  selected,  \* the collection the centre shows
  busy,      \* the centre's buttons are disabled
  form,      \* the open form: its record, its ticks, the ticks the user took away
             \* (history), and whether it has been sent
  back,      \* returnToCollectionsAfterForm
  saving,    \* the commands the form's save has still to call
  notice,    \* the last message
  outside,   \* a pass has written the tables since the copy was last read
  steps

vars == <<db, used, shown, ops, page, selected, busy, form, back, saving, notice, outside, steps>>
screen == <<page, selected, form, back>>

Live(s) == {c \in Cid : s[c] # None}
Members(s, c) == IF c \in Live(s) THEN DOMAIN s[c].rows ELSE {}
Order(rows) ==
  LET before(r) == {x \in DOMAIN rows : \/ rows[x].pos < rows[r].pos
                                        \/ rows[x].pos = rows[r].pos /\ x < r}
  IN  [i \in 1..Cardinality(DOMAIN rows) |-> CHOOSE r \in DOMAIN rows : Cardinality(before(r)) = i - 1]
Row(p, v) == [pos |-> p, rev |-> v]
NoRows == [r \in {} |-> Row(0, 1)]

TypeOK ==
  /\ \A s \in {db, shown} : \A c \in Live(s) :
       /\ s[c].name \in Name /\ s[c].mode \in {"manual", "chronological"} /\ s[c].rev \in Nat
       /\ DOMAIN s[c].rows \subseteq Rec
       /\ \A r \in DOMAIN s[c].rows : s[c].rows[r].pos \in Nat /\ s[c].rows[r].rev \in Nat
  /\ Live(db) \subseteq used /\ used \subseteq Cid
  /\ page \in {"library", "center", "form"} /\ selected \in Cid \cup {None}
  /\ busy \in BOOLEAN /\ back \in BOOLEAN /\ outside \in BOOLEAN /\ steps \in 0..MaxSteps
  /\ form \in Form \cup {None}
  /\ (page = "form") = (form # None)
  /\ notice \in {"none", "done", "duplicate", "retry", "failed"}

Init ==
  /\ \E c \in Cid : \E n \in Name : \E r \in Rec :
       /\ db = [x \in Cid |-> IF x = c THEN [name |-> n, mode |-> "manual", rev |-> 1,
                                             rows |-> [y \in {r} |-> Row(0, 1)]] ELSE None]
       /\ used = {c}
  /\ shown = db /\ ops = <<>> /\ page = "library" /\ selected = None /\ busy = FALSE
  /\ form = None /\ back = FALSE /\ saving = <<>> /\ notice = "none" /\ outside = FALSE
  /\ steps = 0

-----------------------------------------------------------------------------
(* The commands: what they refuse ...                                      *)
Op(kind, c, rev, name, mode, recs, from) ==
  [kind |-> kind, c |-> c, rev |-> rev, name |-> name, mode |-> mode, recs |-> recs,
   from |-> from, stage |-> "called", read |-> None,
   saw |-> IF c = None THEN None ELSE shown[c],  \* history: what the page showed of c
   meant |-> TRUE]                               \* history: the user asked for just this

NameTaken(s, n, c) == \E o \in Live(s) \ {c} : s[o].name = n

Refusal(s, op) ==
  CASE op.kind = "detach" -> None
    [] op.kind = "create" -> IF NameTaken(s, op.name, op.c) THEN "duplicate" ELSE None
    [] op.kind = "remove" ->
         IF op.recs[1] \notin Members(s, op.c) THEN "failed"       \* collection_member_not_found
         ELSE IF s[op.c].rows[op.recs[1]].rev # op.rev THEN "retry" \* stale_collection_member
         ELSE None
    [] op.kind \in {"update", "delete", "add", "reorder"} ->
         IF s[op.c] = None THEN "failed"                            \* collection_not_found
         ELSE IF s[op.c].rev # op.rev THEN "retry"                  \* stale_collection
         ELSE IF op.kind = "update" /\ NameTaken(s, op.name, op.c) THEN "duplicate"
         ELSE IF op.kind = "reorder" /\ ToSet(op.recs) # Members(s, op.c) THEN "failed"
         ELSE None

(* ... and what they write.                                                *)
Bumped(col) == [col EXCEPT !.rev = @ + 1]
Without(col, r) == [Bumped(col) EXCEPT !.rows = Restrict(@, DOMAIN @ \ {r})]

WithMembers(col, recs) ==
  LET new == {i \in DOMAIN recs : recs[i] \notin DOMAIN col.rows}
      last == Max({-1} \cup {col.rows[r].pos : r \in DOMAIN col.rows})
      at(r) == CHOOSE i \in new : recs[i] = r
  IN  IF new = {} THEN col
      ELSE [Bumped(col) EXCEPT !.rows = [r \in DOMAIN @ \cup {recs[i] : i \in new} |->
              IF r \in DOMAIN @ THEN @[r]
              ELSE Row(last + Cardinality({i \in new : i <= at(r)}), 1)]]

Reordered(col, recs) ==
  LET place(r) == (CHOOSE i \in DOMAIN recs : recs[i] = r) - 1
      moved == {r \in DOMAIN col.rows : col.rows[r].pos # place(r)}
  IN  IF moved = {} THEN col
      ELSE [Bumped(col) EXCEPT !.rows = [r \in DOMAIN @ |->
              IF r \in moved THEN Row(place(r), @[r].rev + 1) ELSE @[r]]]

Result(s, op) ==
  CASE op.kind = "create" ->
         [s EXCEPT ![op.c] = [name |-> op.name, mode |-> op.mode, rev |-> 1,
                              rows |-> [r \in ToSet(op.recs) |-> Row(0, 1)]]]
    [] op.kind = "update" ->
         IF s[op.c].name = op.name /\ s[op.c].mode = op.mode THEN s
         ELSE [s EXCEPT ![op.c] = [Bumped(@) EXCEPT !.name = op.name, !.mode = op.mode]]
    [] op.kind = "delete"  -> [s EXCEPT ![op.c] = None]
    [] op.kind = "add"     -> [s EXCEPT ![op.c] = WithMembers(@, op.recs)]
    [] op.kind = "remove"  -> [s EXCEPT ![op.c] = Without(@, op.recs[1])]
    [] op.kind = "reorder" -> [s EXCEPT ![op.c] = Reordered(@, op.recs)]
    [] op.kind = "detach"  ->
         [c \in Cid |-> IF op.recs[1] \in Members(s, c) THEN Without(s[c], op.recs[1]) ELSE s[c]]

-----------------------------------------------------------------------------
(* A command in flight: it runs, its answer makes useCollections read the  *)
(* collections and the members again, and the answer of that is shown.     *)
First(i, stages) == \A j \in 1..(i - 1) : ops[j].stage \notin stages

Ended(op) == [busy |-> IF op.from = "center" THEN FALSE ELSE busy,
              saving |-> IF op.from = "form" /\ op.stage = "called" THEN <<>> ELSE saving]

Refuse(i) ==
  LET op == ops[i] IN
  /\ op.stage = "called" /\ First(i, {"called"})
  /\ Refusal(db, op) # None
  /\ notice' = IF op.from = "form" THEN "failed" ELSE Refusal(db, op)
  /\ ops' = RemoveAt(ops, i)
  /\ busy' = Ended(op).busy /\ saving' = Ended(op).saving
  /\ UNCHANGED <<db, used, shown, screen, outside, steps>>

Execute(i) ==
  LET op == ops[i] IN
  /\ op.stage = "called" /\ First(i, {"called"})
  /\ Refusal(db, op) = None
  /\ db' = Result(db, op)
  /\ ops' = [ops EXCEPT ![i].stage = "ran"]
  /\ UNCHANGED <<used, shown, screen, busy, saving, notice, outside, steps>>

Read(i) ==
  /\ ops[i].stage = "ran" /\ First(i, {"called", "ran"})
  /\ ops' = [ops EXCEPT ![i].stage = "read", ![i].read = db]
  /\ outside' = FALSE
  /\ UNCHANGED <<db, used, shown, screen, busy, saving, notice, steps>>

(* The effect of CollectionCenter moves the selection off a collection     *)
(* that is gone; a created one is selected.                                *)
Show(i) ==
  LET op == ops[i]
      now == op.read
      wanted == IF op.kind = "create" /\ op.from = "center" THEN op.c ELSE selected
  IN  /\ op.stage = "read" /\ First(i, {"called", "ran", "read"})
      /\ shown' = now
      /\ selected' = IF wanted = None \/ wanted \in Live(now) THEN wanted
                     ELSE IF Live(now) = {} THEN None ELSE CHOOSE c \in Live(now) : TRUE
      /\ notice' = IF op.from = "form" THEN notice ELSE "done"
      /\ ops' = RemoveAt(ops, i)
      /\ busy' = Ended(op).busy
      /\ UNCHANGED <<db, used, page, form, back, saving, outside, steps>>

Send(op) == Len(ops) < 2 /\ ops' = Append(ops, op)

Call(op) ==
  /\ Send(op)
  /\ steps < MaxSteps /\ steps' = steps + 1
  /\ used' = IF op.kind = "create" THEN used \cup {op.c} ELSE used
  /\ UNCHANGED <<db, shown, screen, notice, outside>>

-----------------------------------------------------------------------------
(* The buttons of the centre; only deleting and opening a record's form do *)
(* not wait for busy.                                                      *)
CenterCall(op) ==
  /\ page = "center" /\ busy' = TRUE /\ UNCHANGED saving
  /\ Call(op)

Create(c, n) ==
  ~busy /\ c \notin used /\ CenterCall(Op("create", c, 0, n, "manual", <<>>, "center"))
SaveEdit(n) ==
  LET c == selected IN
  ~busy /\ CenterCall(Op("update", c, shown[c].rev, n, shown[c].mode, <<>>, "center"))
SetOrderMode ==
  LET c == selected IN
  /\ ~busy /\ shown[c].mode = "manual"
  /\ CenterCall(Op("update", c, shown[c].rev, shown[c].name, "chronological", <<>>, "center"))
DeleteSelected ==
  CenterCall(Op("delete", selected, shown[selected].rev, None, None, <<>>, "center"))
AddSelectedRecords(r) ==
  /\ ~busy /\ r \notin Members(shown, selected)
  /\ CenterCall(Op("add", selected, shown[selected].rev, None, None, <<r>>, "center"))
RemoveMember(r) ==
  /\ ~busy /\ r \in Members(shown, selected)
  /\ CenterCall(Op("remove", selected, shown[selected].rows[r].rev, None, None, <<r>>, "center"))
Move(i) ==
  LET now == Order(shown[selected].rows) IN
  /\ ~busy /\ shown[selected].mode = "manual" /\ i < Len(now)
  /\ CenterCall(Op("reorder", selected, shown[selected].rev, None, None,
                   [now EXCEPT ![i] = now[i + 1], ![i + 1] = now[i]], "center"))

OnSelected ==
  /\ selected \in Live(shown)
  /\ \/ \E n \in Name : SaveEdit(n)
     \/ SetOrderMode \/ DeleteSelected
     \/ \E r \in Rec : AddSelectedRecords(r) \/ RemoveMember(r)
     \/ \E i \in 1..Cardinality(Rec) : Move(i)

Select(c) ==
  /\ page = "center" /\ c \in Live(shown) /\ selected' = c
  /\ UNCHANGED <<db, used, shown, ops, page, busy, form, back, saving, notice, outside, steps>>

(* Opening the centre mounts it anew: it selects the collection it is      *)
(* resumed at or the first one, and no longer hears of the commands it     *)
(* had called before.                                                      *)
OpenCenter(c) ==
  /\ page = "library" /\ page' = "center"
  /\ c \in Live(shown) \/ (c = None /\ Live(shown) = {})
  /\ selected' = c
  /\ UNCHANGED <<db, used, shown, ops, busy, form, back, saving, notice, outside, steps>>

Leave(next) ==
  /\ page' = next /\ busy' = FALSE
  /\ ops' = [i \in DOMAIN ops |->
               IF ops[i].from = "center" THEN [ops[i] EXCEPT !.from = "gone"] ELSE ops[i]]
  /\ UNCHANGED <<db, used, shown, selected, saving, notice, outside, steps>>

CloseCenter == page = "center" /\ Leave("library") /\ UNCHANGED <<form, back>>

(* handleEdit, handleCollectionRecordEdit: the form's ticks are the        *)
(* memberships of the copy at this moment.                                 *)
Ticked(r) == {c \in Cid : r \in Members(shown, c)}
(* Deviation: a form opened from the centre starts without ticks.          *)
EditRecordUnticked(r) ==
  /\ page \in {"library", "center"} /\ (page = "center" => r \in Members(shown, selected))
  /\ ops = <<>> \/ OpenWhileBusy
  /\ back' = (page = "center")
  /\ form' = [rec |-> r, chosen |-> IF page = "center" THEN {} ELSE Ticked(r), off |-> {}, sent |-> FALSE]
  /\ Leave("form")

EditRecord(r) ==
  /\ page \in {"library", "center"} /\ (page = "center" => r \in Members(shown, selected))
  /\ ops = <<>> \/ OpenWhileBusy
  /\ back' = (page = "center")
  /\ form' = [rec |-> r, chosen |-> Ticked(r), off |-> {}, sent |-> FALSE]
  /\ Leave("form")

(* handleDelete                                                            *)
DeleteRecord(r) ==
  /\ page = "library" /\ UNCHANGED <<busy, saving>>
  /\ Call(Op("detach", None, 0, None, None, <<r>>, "library"))

(* CollectionMembership                                                    *)
Tick(c) ==
  /\ page = "form" /\ c \in Live(shown) /\ ~form.sent
  /\ form' = [form EXCEPT !.chosen = SymDiff(@, {c}),
                          !.off = IF c \in form.chosen THEN @ \cup {c} ELSE @ \ {c}]
  /\ UNCHANGED <<db, used, shown, ops, page, selected, busy, back, saving, notice, outside, steps>>

(* handleSave, with the copy of the render that saves: first the           *)
(* memberships not ticked are removed, then the ticked ones are added,     *)
(* then the new collections are created.                                   *)
SaveForm(drafts) ==
  LET r == form.rec
      gone == SetToSeq(Ticked(r) \ form.chosen)
      new == SetToSeq((form.chosen \ Ticked(r)) \cap Live(shown))
      removal(c) == [Op("remove", c, shown[c].rows[r].rev, None, None, <<r>>, "form")
                       EXCEPT !.meant = c \in form.off]
  IN  /\ page = "form" /\ ~form.sent /\ form' = [form EXCEPT !.sent = TRUE]
      /\ saving' = [i \in DOMAIN gone |-> removal(gone[i])]
                \o [i \in DOMAIN new |-> Op("add", new[i], shown[new[i]].rev, None, None, <<r>>, "form")]
                \o drafts
      /\ steps' = steps + Len(saving') /\ steps' <= MaxSteps
      /\ used' = used \cup {drafts[i].c : i \in DOMAIN drafts}
      /\ UNCHANGED <<db, shown, ops, page, selected, back, busy, notice, outside>>

Drafts == {<<>>} \cup (IF form = None THEN {} ELSE
  {<<Op("create", c, 0, n, "manual", <<form.rec>>, "form")>>  :
     c \in Cid \ used, n \in {x \in Name : ~NameTaken(shown, x, None)}})

NoneFromForm == \A i \in DOMAIN ops : ops[i].from # "form"

SaveNext ==
  /\ saving # <<>> /\ NoneFromForm
  /\ Send(Head(saving)) /\ saving' = Tail(saving)
  /\ UNCHANGED <<db, used, shown, screen, busy, notice, outside, steps>>

(* Deviation: the form that was opened from the centre is kept.            *)
CloseFormKept ==
  /\ page = "form" /\ (form.sent => saving = <<>> /\ NoneFromForm)
  /\ form' = (IF back THEN form ELSE None) /\ back' = FALSE
  /\ page' = IF back THEN "center" ELSE "library"
  /\ UNCHANGED <<db, used, shown, ops, selected, busy, saving, notice, outside, steps>>

(* The form is left before it is sent, or when its save has ended.         *)
CloseForm ==
  /\ page = "form" /\ (form.sent => saving = <<>> /\ NoneFromForm)
  /\ form' = None /\ back' = FALSE
  /\ page' = IF back THEN "center" ELSE "library"
  /\ selected' = IF back /\ selected \notin Live(shown) THEN
                   (IF Live(shown) = {} THEN None ELSE CHOOSE c \in Live(shown) : TRUE) ELSE selected
  /\ UNCHANGED <<db, used, shown, ops, busy, saving, notice, outside, steps>>

(* commit_sync_result replaces the tables.                                 *)
Synced(c, col) ==
  /\ steps < MaxSteps /\ steps' = steps + 1
  /\ col # db[c] /\ db' = [db EXCEPT ![c] = col]
  /\ outside' = TRUE /\ used' = used \cup {c}
  /\ UNCHANGED <<shown, ops, screen, busy, saving, notice>>

Sync(c) ==
  LET rev == IF db[c] = None THEN 1 ELSE IF SyncBumps THEN db[c].rev + 1 ELSE db[c].rev
  IN  \/ db[c] # None /\ Synced(c, None)
      \/ \E n \in Name, S \in SUBSET Rec :
           /\ db[c] = None => c \notin used
           /\ ~NameTaken(db, n, c)
           /\ Synced(c, [name |-> n, mode |-> "manual", rev |-> rev,
                         rows |-> [r \in S |-> IF r \in Members(db, c) THEN db[c].rows[r] ELSE Row(0, 1)]])

-----------------------------------------------------------------------------
Answers == \E i \in DOMAIN ops : Refuse(i) \/ Execute(i) \/ Read(i) \/ Show(i)

Next ==
  \/ Answers \/ OnSelected \/ CloseCenter \/ SaveNext \/ CloseForm
  \/ \E c \in Cid : (\E n \in Name : Create(c, n)) \/ Select(c) \/ Tick(c) \/ Sync(c)
  \/ \E c \in Cid \cup {None} : OpenCenter(c)
  \/ \E r \in Rec : EditRecord(r) \/ DeleteRecord(r)
  \/ \E drafts \in Drafts : SaveForm(drafts)

(* An awaited command is answered, and an answer is shown.                 *)
Spec == Init /\ [][Next]_vars /\ WF_vars(Answers) /\ WF_vars(SaveNext)
-----------------------------------------------------------------------------
(* With no command in flight the copy is what the tables hold, unless a    *)
(* pass has written them since it was read: answers are shown in the order *)
(* in which the tables changed.                                            *)
ShownIsCurrent == ops = <<>> /\ ~outside => shown = db

(* A command that was given the revision of a collection or of a           *)
(* membership changes it only if it still is what the page showed: the     *)
(* number of memberships the user agreed to delete is the number deleted.  *)
ChangesWhatWasShownStep ==
  \A i \in DOMAIN ops :
    ops[i].stage = "called" /\ i \in DOMAIN ops' /\ ops'[i].stage = "ran" =>
      LET op == ops[i] IN
      /\ op.kind \in {"delete", "update", "add", "reorder"} => db[op.c] = op.saw
      /\ op.kind = "remove" => db[op.c].rows[op.recs[1]] = op.saw.rows[op.recs[1]]
ChangesWhatWasShown == [][ChangesWhatWasShownStep]_vars

(* The number of memberships the user agreed to delete is the number       *)
(* deleted, also when two devices have edited the collection.              *)
DeletesWhatItSaid ==
  [][\A i \in DOMAIN ops :
       ops[i].kind = "delete" /\ ops[i].stage = "called" /\ i \in DOMAIN ops' /\ ops'[i].stage = "ran"
         => Cardinality(Members(db, ops[i].c)) = Cardinality(DOMAIN ops[i].saw.rows)]_vars

(* Saving a record takes it out of a collection only if the user took its  *)
(* tick away in the form.                                                  *)
SaveKeepsUntouched ==
  \A i \in DOMAIN ops : ops[i].from = "form" /\ ops[i].kind = "remove" => ops[i].meant

(* After a message that asks the user to try again the page comes to show  *)
(* the collection as it is, so that trying again can work.                 *)
RetryCanWork ==
  notice = "retry" ~> notice # "retry" \/ (selected # None => shown[selected] = db[selected])
=============================================================================
