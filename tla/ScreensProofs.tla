--------------------------- MODULE ScreensProofs ---------------------------
(***************************************************************************)
(* The record screens show the database once everything is answered, and a *)
(* revision tells which content a user saw, for any number of records,     *)
(* values, revisions and commands under way, on both surfaces              *)
(* (RecordEditing).  A page of the mobile surface is its entry of the      *)
(* history, saved views stay as told, an option counts what it selects,    *)
(* and the metadata batch writes what it checked, for any history, views,  *)
(* library and other writers (Screens).                                    *)
(***************************************************************************)
EXTENDS Screens, FiniteSetTheorems, SequenceTheorems, WellFoundedInduction, TLAPS

(* A card action of the mobile surface carries the revision the user saw.  *)
QuickKinds == {"status", "lock", "unlock"}

SawItsRevision(c) ==
  surface = "mobile" /\ c.kind \in QuickKinds => c.seen \in Record /\ c.rev = c.seen.rev

(* What the parts of a command are good for: the record it names is one of *)
(* the page, and a new record comes with all its fields and was not seen.  *)
Meant(c) ==
  /\ c.command \in {"update", "delete"} => c.id \in Id
  /\ c.command = "all" /\ c.kind # None => c.id \in Id /\ surface = "mobile"
  /\ c.command = "insert" =>
       c.upd.imdb \in Imdb /\ c.upd.status \in Status /\ c.seen = None
  /\ SawItsRevision(c)

CallsAreMeant ==
  /\ \A k \in DOMAIN calls : Meant(calls[k])
  /\ \A k \in DOMAIN answers : answers[k].call.command = "all" => answers[k].ok /\ Meant(answers[k].call)

Types == TypeOK /\ Underway <= MaxCalls /\ CallsAreMeant

-----------------------------------------------------------------------------
(*                               Sequences                                 *)

(* The first element of a queue and the rest.                              *)
LEMMA HeadAndTail ==
  ASSUME NEW S, NEW s \in Seq(S), s # <<>>
  PROVE  /\ Head(s) \in S /\ Head(s) = s[1] /\ 1 \in DOMAIN s
         /\ Tail(s) \in Seq(S) /\ Len(s) \in Nat \ {0} /\ Len(Tail(s)) = Len(s) - 1
         /\ DOMAIN s = 1..Len(s) /\ DOMAIN Tail(s) = 1..(Len(s) - 1)
         /\ \A k \in 1..(Len(s) - 1) : Tail(s)[k] = s[k + 1]
<1>1. Head(s) \in S /\ Head(s) = s[1] /\ Tail(s) \in Seq(S)
  OBVIOUS
<1>2. Len(s) \in Nat \ {0} /\ Len(Tail(s)) = Len(s) - 1
  OBVIOUS
<1>3. DOMAIN s = 1..Len(s) /\ DOMAIN Tail(s) = 1..Len(Tail(s))
  BY <1>1
<1>4. \A k \in 1..(Len(s) - 1) : Tail(s)[k] = s[k + 1]
  OBVIOUS
<1>. QED
  BY <1>1, <1>2, <1>3, <1>4

(* A queue with one element more.                                          *)
LEMMA Appended ==
  ASSUME NEW S, NEW s \in Seq(S), NEW e \in S
  PROVE  /\ Append(s, e) \in Seq(S) /\ Len(s) \in Nat /\ Len(Append(s, e)) = Len(s) + 1
         /\ DOMAIN s = 1..Len(s) /\ DOMAIN Append(s, e) = 1..(Len(s) + 1)
         /\ \A k \in 1..Len(s) : Append(s, e)[k] = s[k]
         /\ Append(s, e)[Len(s) + 1] = e
<1>1. Append(s, e) \in Seq(S) /\ Len(s) \in Nat /\ Len(Append(s, e)) = Len(s) + 1
  OBVIOUS
<1>2. DOMAIN s = 1..Len(s) /\ DOMAIN Append(s, e) = 1..Len(Append(s, e))
  BY <1>1
<1>3. /\ \A k \in 1..Len(s) : Append(s, e)[k] = s[k]
      /\ Append(s, e)[Len(s) + 1] = e
  OBVIOUS
<1>. QED
  BY <1>1, <1>2, <1>3

-----------------------------------------------------------------------------
(*                          The kinds of steps                             *)

(* A form that is opened, typed into or closed: what it shows as seen is   *)
(* what the page shows, or what it showed as seen before.                  *)
FormOnly ==
  /\ UNCHANGED <<db, gone, screen, calls, answers, merged>>
  /\ \/ form' = None
     \/ /\ form' # None
        /\ \/ form'.id = NewId /\ form'.seen = None
           \/ form'.id \in Id /\ form'.seen = screen[form'.id]
           \/ form # None /\ form'.id = form.id /\ form'.seen = form.seen

(* What a command says that the user saw is what the page showed, or what  *)
(* the form says.                                                          *)
SeenSomewhere(c) ==
  \/ c.seen = None
  \/ c.id \in Id /\ c.seen = screen[c.id]
  \/ form # None /\ c.id = form.id /\ c.seen = form.seen

(* A command is sent.                                                      *)
Sends(c) ==
  /\ c \in Call /\ Meant(c) /\ SeenSomewhere(c)
  /\ Underway < MaxCalls
  /\ calls' = Append(calls, c)
  /\ UNCHANGED <<db, gone, screen, answers>>
  /\ form' = form \/ form' = None
  /\ merged' = merged \/ (merged' = FALSE /\ c.command = "all")

(* No more commands are under way than their bound, so one of the numbers  *)
(* of forms is free.                                                       *)
LEMMA ANumberIsFree ==
  ASSUME Types
  PROVE  \E n \in 0..MaxCalls : \A c \in Saves : c.form # n
<1>. DEFINE m == Len(calls)
            F == {c.form : c \in InFlight}
            f == [k \in 1..Underway |-> IF k <= m THEN calls[k].form ELSE answers[k - m].call.form]
<1>1. m \in Nat /\ Len(answers) \in Nat /\ Underway = m + Len(answers) /\ Underway \in 0..MaxCalls
      /\ DOMAIN calls = 1..m /\ DOMAIN answers = 1..Len(answers) /\ MaxCalls \in Nat
  BY RecordEditingAssumption DEF Types, TypeOK, Underway
<1>2. f \in Surjection(1..Underway, F)
  <2>1. \A k \in 1..Underway : f[k] \in F
    <3>. SUFFICES ASSUME NEW k \in 1..Underway PROVE f[k] \in F
      OBVIOUS
    <3>1. CASE k <= m
      <4>1. calls[k] \in InFlight
        BY <1>1, <3>1 DEF InFlight
      <4>. QED  BY <3>1, <4>1
    <3>2. CASE ~(k <= m)
      <4>1. k - m \in DOMAIN answers
        BY <1>1, <3>2
      <4>2. answers[k - m].call \in InFlight
        BY <4>1 DEF InFlight
      <4>. QED  BY <3>2, <4>2
    <3>. QED  BY <3>1, <3>2
  <2>2. \A x \in F : \E k \in 1..Underway : f[k] = x
    <3>. SUFFICES ASSUME NEW c \in InFlight PROVE \E k \in 1..Underway : f[k] = c.form
      OBVIOUS
    <3>1. CASE \E k \in DOMAIN calls : c = calls[k]
      <4>1. PICK k \in DOMAIN calls : c = calls[k]
        BY <3>1
      <4>2. k \in 1..Underway /\ k <= m
        BY <1>1
      <4>. QED  BY <4>1, <4>2
    <3>2. CASE \E k \in DOMAIN answers : c = answers[k].call
      <4>1. PICK k \in DOMAIN answers : c = answers[k].call
        BY <3>2
      <4>2. m + k \in 1..Underway /\ ~(m + k <= m) /\ (m + k) - m = k
        BY <1>1
      <4>. QED  BY <4>1, <4>2
    <3>. QED  BY <3>1, <3>2 DEF InFlight
  <2>. QED  BY <2>1, <2>2 DEF Surjection
<1>3. IsFiniteSet(F) /\ Cardinality(F) <= Underway
  <2>1. IsFiniteSet(1..Underway) /\ Cardinality(1..Underway) = Underway
    BY <1>1, FS_Interval
  <2>. HIDE DEF F, f
  <2>. QED  BY <1>2, <2>1, FS_Surjection
<1>4. ~(0..MaxCalls \subseteq F)
  <2>. SUFFICES ASSUME 0..MaxCalls \subseteq F PROVE FALSE
    OBVIOUS
  <2>1. Cardinality(0..MaxCalls) = MaxCalls + 1
    BY <1>1, FS_Interval
  <2>2. Cardinality(0..MaxCalls) <= Cardinality(F)
    <3>. HIDE DEF F, f
    <3>. QED  BY <1>3, FS_Subset
  <2>3. Cardinality(F) \in Nat
    <3>. HIDE DEF F, f
    <3>. QED  BY <1>3, FS_CardinalityType
  <2>. QED  BY <1>1, <1>3, <2>1, <2>2, <2>3
<1>. QED
  BY <1>4 DEF Saves

(* A form that opens has its types.                                        *)
LEMMA OpenedForm ==
  ASSUME Types, NEW i \in Id \cup {NewId}, NEW v \in Values, NEW seen \in Record \cup {None},
         Open(i, v, seen)
  PROVE  form' \in Form /\ form'.id = i /\ form'.seen = seen
<1>1. (CHOOSE n \in 0..MaxCalls : \A c \in Saves : c.form # n) \in 0..MaxCalls
  BY ANumberIsFree
<1>2. 0 \in 0..MaxCalls
  BY RecordEditingAssumption
<1>. QED
  BY <1>1, <1>2 DEF Open, Form

(* What the user does to the form without sending anything.                *)
FormAlone ==
  \/ OpenNew \/ CloseForm
  \/ \E v \in Values : Type(v)
  \/ \E i \in Id : OpenEdit(i) \/ OpenFromCollection(i)

(* What sends a command.                                                   *)
Requests ==
  \/ SyncReload \/ SaveNew \/ SaveEdit \/ DeleteFromForm
  \/ \E i \in Id : ChangeStatus(i) \/ ToggleLock(i) \/ Delete(i)

(* A record the page shows has its fields.                                 *)
LEMMA ShownIsARecord ==
  ASSUME Types, NEW i \in Id, screen[i] # None
  PROVE  screen[i] \in Record /\ DraftOf(screen[i]) \in Values
BY DEF Types, TypeOK, Table, Record, Values, DraftOf

(* The form that is open has its types.                                    *)
LEMMA FormIsTyped ==
  ASSUME Types, form # None
  PROVE  /\ form \in Form /\ form.id \in Id \cup {NewId} /\ form.draft \in Values
         /\ form.seen \in Record \cup {None} /\ form.no \in 0..MaxCalls
BY DEF Types, TypeOK, Form

(* A form comes from the page.                                             *)
LEMMA FormAloneStep ==
  ASSUME Types, FormAlone
  PROVE  /\ FormOnly /\ UNCHANGED confirmed
         /\ form' = None \/ form' \in Form
<1>1. CASE OpenNew
  <2>1. PICK v \in Values : Open(NewId, v, None)
    BY <1>1 DEF OpenNew
  <2>2. form' \in Form /\ form'.id = NewId /\ form'.seen = None
    BY <2>1, OpenedForm
  <2>. QED  BY <1>1, <2>2 DEF OpenNew, FormOnly
<1>2. CASE CloseForm
  BY <1>2 DEF CloseForm, FormOnly
<1>3. ASSUME NEW v \in Values, Type(v)
      PROVE  FormOnly /\ UNCHANGED confirmed /\ form' \in Form
  BY <1>3, FormIsTyped DEF Type, FormOnly, Form
<1>4. ASSUME NEW i \in Id, OpenEdit(i) \/ OpenFromCollection(i)
      PROVE  FormOnly /\ UNCHANGED confirmed /\ form' \in Form
  <2>1. screen[i] # None /\ Open(i, DraftOf(screen[i]), screen[i])
    BY <1>4 DEF OpenEdit, OpenFromCollection
  <2>2. form' \in Form /\ form'.id = i /\ form'.seen = screen[i]
    BY <2>1, ShownIsARecord, OpenedForm
  <2>. QED  BY <1>4, <2>2 DEF OpenEdit, OpenFromCollection, FormOnly
<1>. QED
  BY <1>1, <1>2, <1>3, <1>4 DEF FormAlone

(* What Send appends.                                                      *)
Sent(command, kind, i, upd, seen) ==
  [command |-> command, kind |-> kind, id |-> i, upd |-> upd, seen |-> seen,
   rev |-> IF surface = "desktop" \/ i = NewId \/ screen[i] = None THEN 0 ELSE screen[i].rev,
   form |-> IF form = None THEN 0 ELSE form.no]

(* A command has its types.                                                *)
LEMMA SentIsACall ==
  ASSUME Types, NEW command \in {"all", "insert", "update", "delete"},
         NEW kind \in Kinds \cup {None}, NEW i \in Id \cup {NewId}, NEW upd \in Update,
         NEW seen \in Record \cup {None}
  PROVE  /\ Sent(command, kind, i, upd, seen) \in Call
         /\ Sent(command, kind, i, upd, seen).command = command
         /\ Sent(command, kind, i, upd, seen).kind = kind
         /\ Sent(command, kind, i, upd, seen).id = i
         /\ Sent(command, kind, i, upd, seen).upd = upd
         /\ Sent(command, kind, i, upd, seen).seen = seen
<1>1. (IF form = None THEN 0 ELSE form.no) \in 0..MaxCalls
  BY FormIsTyped, RecordEditingAssumption
<1>2. (IF surface = "desktop" \/ i = NewId \/ screen[i] = None THEN 0 ELSE screen[i].rev) \in 0..MaxRev
  BY ShownIsARecord, RecordEditingAssumption DEF Record
<1>. QED
  BY <1>1, <1>2 DEF Sent, Call

(* The fields that commands write.                                         *)
LEMMA UpdatesAreTyped ==
  /\ Nothing \in Update
  /\ \A v \in Values : /\ FormFields(v) \in Update
                       /\ FormFields(v).imdb \in Imdb /\ FormFields(v).status \in Status
  /\ \A s \in Status : [Nothing EXCEPT !.status = s] \in Update
  /\ \A lock \in BOOLEAN : [Nothing EXCEPT !.locked = IF lock THEN "on" ELSE "off"] \in Update
BY DEF Nothing, Update, FormFields, Values

(* A write names a record; what it says was seen is on the page or in the  *)
(* form.                                                                   *)
LEMMA WriteSends ==
  ASSUME Types, NEW kind \in Kinds, NEW command \in {"update", "delete"}, NEW i \in Id,
         NEW upd \in Update, NEW seen \in Record \cup {None}, Write(command, kind, i, upd, seen),
         \/ seen = OnCard(i) /\ screen[i] # None
         \/ form # None /\ i = form.id /\ seen = form.seen /\ kind \notin QuickKinds,
         UNCHANGED <<db, gone, screen, answers, merged>>, form' = form \/ form' = None
  PROVE  \E c \in Call : Sends(c)
<1>. DEFINE cmd == IF surface = "mobile" THEN "all" ELSE command
            c == Sent(cmd, kind, i, upd, seen)
<1>1. /\ c \in Call /\ c.command = cmd /\ c.kind = kind /\ c.id = i /\ c.seen = seen
      /\ c.rev = IF surface = "desktop" \/ i = NewId \/ screen[i] = None THEN 0 ELSE screen[i].rev
  BY SentIsACall DEF Sent
<1>2. calls' = Append(calls, c) /\ Underway < MaxCalls
  BY DEF Write, Send, Sent
<1>3. SawItsRevision(c)
  BY <1>1, ShownIsARecord, RecordEditingAssumption DEF SawItsRevision, OnCard
<1>4. Meant(c) /\ SeenSomewhere(c)
  BY <1>1, <1>3 DEF Meant, SeenSomewhere, OnCard
<1>. HIDE DEF c
<1>. QED
  BY <1>1, <1>2, <1>4 DEF Sends

(* Every command is one of those.                                          *)
LEMMA RequestStep ==
  ASSUME Types, Requests
  PROVE  (\E c \in Call : Sends(c)) /\ confirmed' \subseteq Imdb
<1>1. CASE SyncReload
  <2>. DEFINE c == Sent("all", None, NewId, Nothing, None)
  <2>1. /\ c \in Call /\ c.command = "all" /\ c.kind = None /\ c.id = NewId /\ c.seen = None
    BY SentIsACall, UpdatesAreTyped
  <2>2. calls' = Append(calls, c) /\ Underway < MaxCalls
    BY <1>1 DEF SyncReload, Send, Sent
  <2>3. Meant(c) /\ SeenSomewhere(c)
    <3>. HIDE DEF c
    <3>1. None \notin QuickKinds
      BY NoneIsNothing DEF QuickKinds, Kinds
    <3>. QED  BY <2>1, <3>1 DEF Meant, SeenSomewhere, SawItsRevision
  <2>. HIDE DEF c
  <2>. QED  BY <1>1, <2>1, <2>2, <2>3 DEF Sends, SyncReload, Types, TypeOK
<1>2. CASE SaveNew
  <2>1. form.draft \in Values
    BY <1>2, FormIsTyped DEF SaveNew
  <2>. DEFINE u == FormFields(form.draft)
              c == Sent("insert", "add", NewId, u, None)
  <2>2. u \in Update /\ u.imdb \in Imdb /\ u.status \in Status
    BY <2>1, UpdatesAreTyped
  <2>3. "add" \in Kinds /\ "add" \notin QuickKinds
    BY DEF Kinds, QuickKinds
  <2>. HIDE DEF u
  <2>4. /\ c \in Call /\ c.command = "insert" /\ c.kind = "add" /\ c.id = NewId
        /\ c.upd = u /\ c.seen = None
    BY <2>2, <2>3, SentIsACall
  <2>5. calls' = Append(calls, c) /\ Underway < MaxCalls
    BY <1>2 DEF SaveNew, Send, Sent, u
  <2>6. confirmed' \subseteq Imdb
    BY <1>2, <2>1 DEF SaveNew, Confirmed, Values, Types, TypeOK
  <2>. HIDE DEF c
  <2>7. Meant(c) /\ SeenSomewhere(c)
    BY <2>2, <2>3, <2>4 DEF Meant, SeenSomewhere, SawItsRevision
  <2>. QED  BY <1>2, <2>4, <2>5, <2>6, <2>7 DEF Sends, SaveNew
<1>3. CASE SaveEdit
  <2>1. form.draft \in Values /\ form.id \in Id /\ form.seen \in Record \cup {None}
    BY <1>3, FormIsTyped DEF SaveEdit
  <2>2. FormFields(form.draft) \in Update /\ "edit" \in Kinds /\ "edit" \notin QuickKinds
    BY <2>1, UpdatesAreTyped DEF Kinds, QuickKinds
  <2>3. confirmed' \subseteq Imdb
    BY <1>3, <2>1 DEF SaveEdit, Confirmed, Values, Types, TypeOK
  <2>. QED  BY <1>3, <2>1, <2>2, <2>3, WriteSends DEF SaveEdit
<1>4. CASE DeleteFromForm
  <2>1. form.id \in Id /\ form.seen \in Record \cup {None}
    BY <1>4, FormIsTyped DEF DeleteFromForm
  <2>2. Nothing \in Update /\ "delete" \in Kinds /\ "delete" \notin QuickKinds
    BY UpdatesAreTyped DEF Kinds, QuickKinds
  <2>3. form' = form \/ form' = None
    BY <1>4 DEF DeleteFromForm
  <2>. QED  BY <1>4, <2>1, <2>2, <2>3, WriteSends DEF DeleteFromForm, Types, TypeOK
<1>5. ASSUME NEW i \in Id, ChangeStatus(i) \/ ToggleLock(i) \/ Delete(i)
      PROVE  (\E c \in Call : Sends(c)) /\ confirmed' \subseteq Imdb
  <2>1. screen[i] # None /\ OnCard(i) \in Record \cup {None}
    BY <1>5, ShownIsARecord DEF ChangeStatus, ToggleLock, Delete, OnCard
  <2>2. {"status", "lock", "unlock", "delete"} \subseteq Kinds
    BY DEF Kinds
  <2>3. \E kind \in Kinds, command \in {"update", "delete"}, upd \in Update :
           Write(command, kind, i, upd, OnCard(i))
    <3>1. CASE ChangeStatus(i)
      BY <3>1, <2>2, UpdatesAreTyped DEF ChangeStatus
    <3>2. CASE ToggleLock(i)
      <4>. DEFINE lock == ~screen[i].locked
      <4>1. lock \in BOOLEAN
        OBVIOUS
      <4>2. [Nothing EXCEPT !.locked = IF lock THEN "on" ELSE "off"] \in Update
        BY <4>1, UpdatesAreTyped
      <4>. QED  BY <3>2, <2>2, <4>2 DEF ToggleLock
    <3>3. CASE Delete(i)
      BY <3>3, <2>2, UpdatesAreTyped DEF Delete
    <3>. QED  BY <1>5, <3>1, <3>2, <3>3
  <2>4. UNCHANGED <<db, gone, screen, form, answers, merged, confirmed>>
    BY <1>5 DEF ChangeStatus, ToggleLock, Delete
  <2>. QED  BY <2>1, <2>3, <2>4, WriteSends DEF Types, TypeOK
<1>. QED
  BY <1>1, <1>2, <1>3, <1>4, <1>5 DEF Requests

-----------------------------------------------------------------------------
(*                                 Types                                   *)

(* The head of the commands, and what remains.                             *)
LEMMA NextCall ==
  ASSUME Types, calls # <<>>
  PROVE  /\ Head(calls) \in Call /\ Head(calls) = calls[1] /\ Meant(Head(calls))
         /\ Tail(calls) \in Seq(Call) /\ Len(calls) \in Nat \ {0}
         /\ Len(Tail(calls)) = Len(calls) - 1
         /\ DOMAIN calls = 1..Len(calls) /\ DOMAIN Tail(calls) = 1..(Len(calls) - 1)
         /\ \A k \in 1..(Len(calls) - 1) : Tail(calls)[k] = calls[k + 1]
<1>. HIDE DEF Call
<1>1. calls \in Seq(Call)
  BY DEF Types, TypeOK
<1>. QED
  BY <1>1, HeadAndTail DEF Types, CallsAreMeant

(* The head of the answers, and what remains.                              *)
LEMMA NextAnswer ==
  ASSUME Types, answers # <<>>
  PROVE  /\ Head(answers) \in Answer /\ Head(answers) = answers[1]
         /\ Tail(answers) \in Seq(Answer) /\ Len(answers) \in Nat \ {0}
         /\ Len(Tail(answers)) = Len(answers) - 1
         /\ DOMAIN answers = 1..Len(answers) /\ DOMAIN Tail(answers) = 1..(Len(answers) - 1)
         /\ \A k \in 1..(Len(answers) - 1) : Tail(answers)[k] = answers[k + 1]
<1>1. answers \in Seq(Answer)
  BY DEF Types, TypeOK
<1>. QED
  BY <1>1, HeadAndTail

(* What Execute answers: the rows are those the command found.             *)
Answers(c, row, ok) == [call |-> c, rows |-> db, row |-> row, ok |-> ok]

(* A row that an update wrote.                                             *)
LEMMA UpdatedIsARecord ==
  ASSUME NEW row \in Record, NEW upd \in Update, row.rev < MaxRev
  PROVE  Updated(row, upd) \in Record /\ Updated(row, upd).rev = row.rev + 1
<1>1. row.rev + 1 \in 0..MaxRev
  BY RecordEditingAssumption DEF Record
<1>2. (IF upd.imdb = "ignored" THEN row.imdb ELSE upd.imdb) \in Imdb
  BY DEF Record, Update
<1>3. (IF upd.status = "ignored" THEN row.status ELSE upd.status) \in Status
  BY DEF Record, Update
<1>4. (IF upd.locked = "ignored" THEN row.locked ELSE upd.locked = "on") \in BOOLEAN
  BY DEF Record, Update
<1>. QED
  BY <1>1, <1>2, <1>3, <1>4 DEF Updated, Record

(* What the execution of a command does: it reads, adds, changes or        *)
(* removes a record, or finds none; its answer carries the rows it found.  *)
Reads(c) == c.command = "all" /\ UNCHANGED <<db, gone>>
Adds(c, i, row) ==
  /\ c.command = "insert" /\ i \in Id \ gone /\ db[i] = None
  /\ row \in Record /\ db' = [db EXCEPT ![i] = row] /\ gone' = gone
Changes(c, row) ==
  /\ c.command = "update" /\ c.id \in Id /\ db[c.id] # None
  /\ row \in Record /\ row.rev = db[c.id].rev + 1
  /\ db' = [db EXCEPT ![c.id] = row] /\ gone' = gone
Removes(c) ==
  /\ c.command = "delete" /\ c.id \in Id /\ db[c.id] # None
  /\ db' = [db EXCEPT ![c.id] = None] /\ gone' = gone \cup {c.id}
Misses(c) == c.command \in {"update", "delete"} /\ c.id \in Id /\ UNCHANGED <<db, gone>>

Executes(a) ==
  LET c == Head(calls) IN
  /\ a \in Answer /\ a.rows = db
  /\ calls # <<>> /\ calls' = Tail(calls) /\ answers' = Append(answers, a)
  /\ UNCHANGED <<screen, form, merged, confirmed>>
  /\ \/ a.call = c /\ a.row = None /\ a.ok /\ (Reads(c) \/ Removes(c))
     \/ a.call = c /\ a.row = None /\ ~a.ok /\ Misses(c)
     \/ a.call = c /\ a.ok /\ Changes(c, a.row)
     \/ \E i \in Id : a.call = [c EXCEPT !.id = i] /\ a.ok /\ Adds(c, i, a.row)

(* Execute is one of those.                                                *)
LEMMA ExecuteStep ==
  ASSUME Types, Execute
  PROVE  \E a : Executes(a)
<1>. DEFINE c == Head(calls)
<1>1. /\ calls # <<>> /\ c \in Call /\ Meant(c) /\ calls' = Tail(calls)
      /\ UNCHANGED <<screen, form, merged, confirmed>>
  BY NextCall DEF Execute
<1>2. db \in Table
  BY DEF Types, TypeOK
<1>. HIDE DEF c
<1>3. ASSUME NEW d \in Call, NEW row \in Record \cup {None}, NEW ok \in BOOLEAN
      PROVE  Answers(d, row, ok) \in Answer
  BY <1>2 DEF Answers, Answer
<1>4. CASE c.command = "all" /\ Reply(c, db, None, TRUE) /\ UNCHANGED <<db, gone>>
  <2>. DEFINE a == Answers(c, None, TRUE)
  <2>1. answers' = Append(answers, a)
    BY <1>4 DEF Reply, Answers
  <2>2. a \in Answer
    BY <1>1, <1>3
  <2>3. a.call = c /\ a.rows = db /\ a.row = None /\ a.ok
    BY DEF Answers
  <2>. HIDE DEF a
  <2>. QED  BY <1>1, <1>4, <2>1, <2>2, <2>3 DEF Executes, Reads, c
<1>5. ASSUME NEW i \in {j \in Id \ gone : db[j] = None /\ screen[j] = None},
             NEW row, row = [imdb |-> c.upd.imdb, status |-> c.upd.status, locked |-> FALSE, rev |-> 1],
             c.command = "insert", db' = [db EXCEPT ![i] = row],
             Reply([c EXCEPT !.id = i], db, row, TRUE), UNCHANGED gone
      PROVE  \E a : Executes(a)
  <2>. DEFINE d == [c EXCEPT !.id = i]
              a == Answers(d, row, TRUE)
  <2>1. d \in Call
    BY <1>1 DEF Call
  <2>2. 1 \in 0..MaxRev
    BY RecordEditingAssumption
  <2>3. row \in Record
    BY <1>1, <1>5, <2>2 DEF Meant, Record
  <2>4. answers' = Append(answers, a)
    BY <1>5 DEF Reply, Answers
  <2>. HIDE DEF d
  <2>5. a \in Answer
    BY <1>3, <2>1, <2>3
  <2>6. a.call = d /\ a.rows = db /\ a.row = row /\ a.ok
    BY DEF Answers
  <2>. HIDE DEF a
  <2>7. Adds(c, i, a.row)
    BY <1>5, <2>3, <2>6 DEF Adds
  <2>. QED  BY <1>1, <2>4, <2>5, <2>6, <2>7 DEF Executes, c, d
<1>6. CASE /\ c.command = "update" /\ db[c.id] # None /\ db[c.id].rev < MaxRev
           /\ db' = [db EXCEPT ![c.id] = Updated(db[c.id], c.upd)]
           /\ Reply(c, db, Updated(db[c.id], c.upd), TRUE) /\ UNCHANGED gone
  <2>. DEFINE row == Updated(db[c.id], c.upd)
              a == Answers(c, row, TRUE)
  <2>1. c.id \in Id /\ db[c.id] \in Record /\ c.upd \in Update
    BY <1>1, <1>2, <1>6 DEF Meant, Table, Call
  <2>2. row \in Record /\ row.rev = db[c.id].rev + 1
    BY <1>6, <2>1, UpdatedIsARecord
  <2>3. answers' = Append(answers, a)
    BY <1>6 DEF Reply, Answers
  <2>4. Changes(c, row)
    BY <1>6, <2>1, <2>2 DEF Changes
  <2>. HIDE DEF row
  <2>5. a \in Answer
    BY <1>1, <1>3, <2>2
  <2>6. a.call = c /\ a.rows = db /\ a.row = row /\ a.ok
    BY DEF Answers
  <2>. HIDE DEF a
  <2>. QED  BY <1>1, <2>3, <2>4, <2>5, <2>6 DEF Executes, c
<1>7. CASE /\ c.command = "delete" /\ db[c.id] # None
           /\ db' = [db EXCEPT ![c.id] = None] /\ gone' = gone \cup {c.id}
           /\ Reply(c, db, None, TRUE)
  <2>. DEFINE a == Answers(c, None, TRUE)
  <2>1. answers' = Append(answers, a)
    BY <1>7 DEF Reply, Answers
  <2>2. a \in Answer
    BY <1>1, <1>3
  <2>3. a.call = c /\ a.rows = db /\ a.row = None /\ a.ok
    BY DEF Answers
  <2>4. Removes(c)
    BY <1>1, <1>7 DEF Removes, Meant
  <2>. HIDE DEF a
  <2>. QED  BY <1>1, <2>1, <2>2, <2>3, <2>4 DEF Executes, c
<1>8. CASE /\ c.command \in {"update", "delete"}
           /\ Reply(c, db, None, FALSE) /\ UNCHANGED <<db, gone>>
  <2>. DEFINE a == Answers(c, None, FALSE)
  <2>1. answers' = Append(answers, a)
    BY <1>8 DEF Reply, Answers
  <2>2. a \in Answer
    BY <1>1, <1>3
  <2>3. a.call = c /\ a.rows = db /\ a.row = None /\ ~a.ok
    BY DEF Answers
  <2>4. Misses(c)
    BY <1>1, <1>8 DEF Misses, Meant
  <2>. HIDE DEF a
  <2>. QED  BY <1>1, <2>1, <2>2, <2>3, <2>4 DEF Executes, c
<1>. QED
  BY <1>4, <1>5, <1>6, <1>7, <1>8 DEF Execute, c

(* The page takes an answer: it shows what the command did, closes the     *)
(* form whose save it answers, or sends the write that a reading precedes. *)
Follows(d, c) ==
  /\ d \in Call /\ Meant(d) /\ d.command # "all"
  /\ d.id = c.id /\ d.seen = c.seen
  /\ calls' = Append(calls, d)

Takes(a) ==
  /\ answers # <<>> /\ a = Head(answers) /\ answers' = Tail(answers)
  /\ screen' = IF a.ok THEN Shown(a) ELSE screen
  /\ UNCHANGED <<db, gone, merged, confirmed>>
  /\ form' = form \/ form' = None
  /\ calls' = calls \/ \E d \in Call : Follows(d, a.call)

(* Finish and CheckLatest are such steps; what follows a reading writes    *)
(* over what the reading found.                                            *)
LEMMA TakesStep ==
  ASSUME Types, Finish \/ CheckLatest
  PROVE  Takes(Head(answers))
<1>. DEFINE a == Head(answers)
            c == a.call
            d == [c EXCEPT !.command = CommandOf(c.kind)]
<1>1. answers # <<>> => a \in Answer /\ a.call \in Call
  BY NextAnswer DEF Answer
<1>2. CASE Finish
  BY <1>2 DEF Finish, Takes, Saved
<1>3. CASE CheckLatest
  <2>1. answers # <<>> /\ c \in Call /\ c.command = "all" /\ c.kind # None
    BY <1>1, <1>3 DEF CheckLatest
  <2>2. a = answers[1] /\ 1 \in DOMAIN answers
    BY <2>1, NextAnswer
  <2>3. a.ok /\ Meant(c)
    BY <2>1, <2>2 DEF Types, CallsAreMeant
  <2>4. d \in Call /\ d.command = CommandOf(c.kind) /\ d.id = c.id /\ d.seen = c.seen
        /\ d.kind = c.kind /\ d.rev = c.rev
    BY <2>1 DEF Call, CommandOf
  <2>. HIDE DEF d
  <2>5. Meant(d) /\ d.command # "all"
    BY <2>1, <2>3, <2>4 DEF Meant, SawItsRevision, CommandOf
  <2>6. calls' = calls \/ calls' = Append(calls, d)
    BY <1>3 DEF CheckLatest, d
  <2>7. calls' = calls \/ \E e \in Call : Follows(e, c)
    BY <2>4, <2>5, <2>6 DEF Follows
  <2>. QED  BY <1>3, <2>1, <2>3, <2>7 DEF CheckLatest, Takes
<1>. QED
  BY <1>2, <1>3

(* Commands appended, sent and answered keep their types.                  *)
LEMMA MoreCalls ==
  ASSUME Types, UNCHANGED surface, NEW c \in Call, Meant(c), calls' = Append(calls, c),
         \/ answers' = answers /\ Underway < MaxCalls
         \/ answers # <<>> /\ answers' = Tail(answers)
  PROVE  calls' \in Seq(Call) /\ answers' \in Seq(Answer) /\ (Underway <= MaxCalls)' /\ CallsAreMeant'
<1>1. calls \in Seq(Call) /\ answers \in Seq(Answer) /\ MaxCalls \in Nat
  BY RecordEditingAssumption DEF Types, TypeOK
<1>2. /\ calls' \in Seq(Call) /\ Len(calls) \in Nat /\ Len(calls') = Len(calls) + 1
      /\ DOMAIN calls = 1..Len(calls) /\ DOMAIN calls' = 1..(Len(calls) + 1)
      /\ \A k \in 1..Len(calls) : calls'[k] = calls[k]
      /\ calls'[Len(calls) + 1] = c
  <2>. HIDE DEF Call
  <2>. QED  BY <1>1, Appended
<1>3. \A k \in DOMAIN calls' : Meant(calls'[k])
  BY <1>2 DEF Types, CallsAreMeant
<1>4. CASE answers' = answers /\ Underway < MaxCalls
  <2>1. Len(answers) \in Nat
    BY <1>1
  <2>. QED  BY <1>1, <1>2, <1>3, <1>4, <2>1 DEF Types, CallsAreMeant, Meant, SawItsRevision, Underway
<1>5. CASE answers # <<>> /\ answers' = Tail(answers)
  BY <1>1, <1>2, <1>3, <1>5, NextAnswer DEF Types, CallsAreMeant, Meant, SawItsRevision, Underway
<1>. QED
  BY <1>4, <1>5

(* One command fewer, one answer more.                                     *)
LEMMA AnsweredStep ==
  ASSUME Types, UNCHANGED surface, NEW a, Executes(a)
  PROVE  calls' \in Seq(Call) /\ answers' \in Seq(Answer) /\ (Underway <= MaxCalls)' /\ CallsAreMeant'
<1>1. calls \in Seq(Call) /\ answers \in Seq(Answer) /\ MaxCalls \in Nat
  BY RecordEditingAssumption DEF Types, TypeOK
<1>2. a \in Answer /\ answers' = Append(answers, a) /\ calls # <<>> /\ calls' = Tail(calls)
  BY DEF Executes
<1>3. /\ answers' \in Seq(Answer) /\ Len(answers) \in Nat /\ Len(answers') = Len(answers) + 1
      /\ DOMAIN answers = 1..Len(answers) /\ DOMAIN answers' = 1..(Len(answers) + 1)
      /\ \A k \in 1..Len(answers) : answers'[k] = answers[k]
      /\ answers'[Len(answers) + 1] = a
  <2>. HIDE DEF Answer
  <2>. QED  BY <1>1, <1>2, Appended
<1>4. a.call.command = "all" => a.ok /\ Meant(a.call)
  <2>1. Head(calls) \in Call /\ Meant(Head(calls))
    BY <1>2, NextCall
  <2>2. \A i \in Id : [Head(calls) EXCEPT !.id = i].command = Head(calls).command
    BY <2>1 DEF Call
  <2>. QED  BY <2>1, <2>2 DEF Executes, Removes, Misses, Adds
<1>5. CallsAreMeant'
  BY <1>2, <1>3, <1>4, NextCall DEF Types, CallsAreMeant, Meant, SawItsRevision
<1>. QED
  BY <1>1, <1>2, <1>3, <1>5, NextCall DEF Types, Underway

(* An answer less, and nothing sent.                                       *)
LEMMA FewerAnswers ==
  ASSUME Types, UNCHANGED surface, calls' = calls, answers # <<>>, answers' = Tail(answers)
  PROVE  calls' \in Seq(Call) /\ answers' \in Seq(Answer) /\ (Underway <= MaxCalls)' /\ CallsAreMeant'
BY NextAnswer, RecordEditingAssumption DEF Types, TypeOK, CallsAreMeant, Meant, SawItsRevision, Underway

(* A pass that commits leaves the table typed.                             *)
LEMMA SyncCommitStep ==
  ASSUME Types, NEW i \in Id, NEW row \in Record \cup {None}, SyncCommit(i, row), UNCHANGED surface
  PROVE  Types'
<1>1. db' = [db EXCEPT ![i] = row] /\ merged' = TRUE
      /\ UNCHANGED <<screen, form, calls, answers>>
      /\ gone' = IF row = None THEN gone \cup {i} ELSE gone
  BY DEF SyncCommit
<1>2. db' \in Table
  BY <1>1 DEF Types, TypeOK, Table
<1>3. confirmed' \subseteq Imdb
  BY DEF SyncCommit, Types, TypeOK, Record
<1>. QED
  BY <1>1, <1>2, <1>3 DEF Types, TypeOK, CallsAreMeant, Meant, SawItsRevision, Underway

(* Every step keeps the types.                                             *)
LEMMA TypesInductive ==
  ASSUME Types, [Next]_vars
  PROVE  Types'
<1>0. UNCHANGED surface
  BY DEF Next, vars
<1>. USE <1>0
<1>1. CASE FormAlone
  BY <1>1, FormAloneStep DEF FormOnly, Types, TypeOK, CallsAreMeant, Meant, SawItsRevision, Underway
<1>2. CASE Requests
  <2>1. PICK c \in Call : Sends(c)
    BY <1>2, RequestStep
  <2>2. confirmed' \subseteq Imdb
    BY <1>2, RequestStep
  <2>3. calls' \in Seq(Call) /\ answers' \in Seq(Answer) /\ (Underway <= MaxCalls)' /\ CallsAreMeant'
    BY <2>1, MoreCalls DEF Sends
  <2>4. merged' \in BOOLEAN
    BY <2>1 DEF Sends, Types, TypeOK
  <2>. QED  BY <2>1, <2>2, <2>3, <2>4 DEF Sends, Types, TypeOK
<1>3. CASE Execute
  <2>1. PICK a : Executes(a)
    BY <1>3, ExecuteStep
  <2>2. calls' \in Seq(Call) /\ answers' \in Seq(Answer) /\ (Underway <= MaxCalls)' /\ CallsAreMeant'
    BY <2>1, AnsweredStep
  <2>3. db' \in Table /\ gone' \subseteq Id
    BY <2>1 DEF Executes, Reads, Adds, Changes, Removes, Misses, Types, TypeOK, Table
  <2>. QED  BY <2>1, <2>2, <2>3 DEF Executes, Types, TypeOK
<1>4. CASE Finish \/ CheckLatest
  <2>. DEFINE a == Head(answers)
  <2>1. Takes(a)
    BY <1>4, TakesStep
  <2>2. a \in Answer
    BY <2>1, NextAnswer DEF Takes
  <2>3. screen' \in Table
    BY <2>1, <2>2 DEF Takes, Shown, Answer, Call, Types, TypeOK, Table
  <2>4. calls' \in Seq(Call) /\ answers' \in Seq(Answer) /\ (Underway <= MaxCalls)' /\ CallsAreMeant'
    BY <2>1, MoreCalls, FewerAnswers DEF Takes, Follows
  <2>. QED  BY <2>1, <2>3, <2>4 DEF Takes, Types, TypeOK
<1>5. CASE \E i \in Id, row \in Record \cup {None} : SyncCommit(i, row)
  BY <1>5, SyncCommitStep
<1>6. CASE UNCHANGED vars
  BY <1>6 DEF vars, Types, TypeOK, CallsAreMeant, Meant, SawItsRevision, Underway
<1>. QED
  BY <1>1, <1>2, <1>3, <1>4, <1>5, <1>6
     DEF Next, FormAction, CardAction, Sync, Answered, FormAlone, Requests

-----------------------------------------------------------------------------
(*                      The page catches up with the table                 *)

(* What the page shows after an answer if it showed, before it, the rows   *)
(* that the command found.                                                 *)
After(a) ==
  IF ~a.ok THEN a.rows ELSE
  CASE a.call.command = "all"    -> a.rows
    [] a.call.command = "insert" -> [a.rows EXCEPT ![a.call.id] = a.row]
    [] a.call.command = "update" ->
         [a.rows EXCEPT ![a.call.id] = IF @ = None THEN None ELSE a.row]
    [] a.call.command = "delete" -> [a.rows EXCEPT ![a.call.id] = None]

(* What the page would show after k answers, and the rows that the next    *)
(* command found, or, after the last answer, those of the table.           *)
Held(k) == IF k = 0 THEN screen ELSE After(answers[k])
Found(k) == IF k = Len(answers) THEN db ELSE answers[k + 1].rows

(* A reading of the whole table is still to be shown after k answers.      *)
ReadingComes(k) ==
  \/ merged
  \/ \E m \in DOMAIN calls : calls[m].command = "all"
  \/ \E m \in DOMAIN answers : m > k /\ answers[m].call.command = "all"

(* After each answer the page shows what the next command found, unless a  *)
(* reading comes.                                                          *)
Caught == \A k \in 0..Len(answers) : Held(k) = Found(k) \/ ReadingComes(k)

(* Lengths are natural numbers.                                            *)
LEMMA Lengths ==
  ASSUME Types
  PROVE  /\ Len(calls) \in Nat /\ DOMAIN calls = 1..Len(calls)
         /\ Len(answers) \in Nat /\ DOMAIN answers = 1..Len(answers)
BY DEF Types, TypeOK

(* The page shows what it would if it shows what the command found.        *)
LEMMA TakenIsAfter ==
  ASSUME NEW a \in Answer, screen = a.rows \/ (a.ok /\ a.call.command = "all")
  PROVE  (IF a.ok THEN Shown(a) ELSE screen) = After(a)
<1>1. CASE screen = a.rows
  <2>1. a.call.command \in {"all", "insert", "update", "delete"}
    BY DEF Answer, Call
  <2>2. CASE ~a.ok
    BY <1>1, <2>2 DEF After
  <2>3. CASE a.ok /\ a.call.command = "all"
    BY <2>3 DEF Shown, After
  <2>4. CASE a.ok /\ a.call.command = "insert"
    BY <1>1, <2>4 DEF Shown, After
  <2>5. CASE a.ok /\ a.call.command = "update"
    BY <1>1, <2>5 DEF Shown, After
  <2>6. CASE a.ok /\ a.call.command = "delete"
    BY <1>1, <2>6 DEF Shown, After
  <2>. QED  BY <2>1, <2>2, <2>3, <2>4, <2>5, <2>6
<1>2. CASE a.ok /\ a.call.command = "all"
  BY <1>2 DEF Shown, After
<1>. QED
  BY <1>1, <1>2

(* The table is what an execution leaves of the rows it found.             *)
LEMMA ExecutedIsAfter ==
  ASSUME Types, NEW a, Executes(a)
  PROVE  a.rows = db /\ After(a) = db' /\ (a.call.command = "all" <=> Head(calls).command = "all")
<1>. DEFINE c == Head(calls)
<1>1. c \in Call /\ a.rows = db
  BY NextCall DEF Executes
<1>2. CASE a.call = c /\ a.row = None /\ a.ok /\ (Reads(c) \/ Removes(c))
  BY <1>1, <1>2 DEF Reads, Removes, After
<1>3. CASE a.call = c /\ a.row = None /\ ~a.ok /\ Misses(c)
  BY <1>1, <1>3 DEF Misses, After
<1>4. CASE a.call = c /\ a.ok /\ Changes(c, a.row)
  BY <1>1, <1>4 DEF Changes, After
<1>5. ASSUME NEW i \in Id, a.call = [c EXCEPT !.id = i], a.ok, Adds(c, i, a.row)
      PROVE  After(a) = db' /\ (a.call.command = "all" <=> c.command = "all")
  <2>1. a.call.command = "insert" /\ a.call.id = i
    BY <1>1, <1>5 DEF Call, Adds
  <2>. QED  BY <1>1, <1>5, <2>1 DEF Adds, After
<1>. QED
  BY <1>1, <1>2, <1>3, <1>4, <1>5 DEF Executes

(* Sending a command only adds readings.                                   *)
LEMMA SendsKeepsCaught ==
  ASSUME Types, Caught, NEW c \in Call, Sends(c)
  PROVE  Caught'
<1>1. /\ calls' = Append(calls, c) /\ UNCHANGED <<db, screen, answers>>
      /\ merged' = merged \/ (merged' = FALSE /\ c.command = "all")
  BY DEF Sends
<1>2. calls \in Seq(Call)
  BY DEF Types, TypeOK
<1>3. /\ Len(calls) \in Nat
      /\ DOMAIN calls = 1..Len(calls) /\ DOMAIN calls' = 1..(Len(calls) + 1)
      /\ \A k \in 1..Len(calls) : calls'[k] = calls[k]
      /\ calls'[Len(calls) + 1] = c
  <2>. HIDE DEF Call
  <2>. QED  BY <1>1, <1>2, Appended
<1>4. ASSUME NEW k \in 0..Len(answers), ReadingComes(k)
      PROVE  ReadingComes(k)'
  <2>1. CASE merged
    <3>1. CASE merged'
      BY <3>1 DEF ReadingComes
    <3>2. CASE ~merged'
      <4>1. Len(calls) + 1 \in DOMAIN calls' /\ calls'[Len(calls) + 1].command = "all"
        <5>1. c.command = "all"
          BY <1>1, <2>1, <3>2, Zenon
        <5>2. Len(calls) + 1 \in DOMAIN calls'
          BY <1>3
        <5>. QED  BY <1>3, <5>1, <5>2
      <4>. QED  BY <4>1 DEF ReadingComes
    <3>. QED  BY <3>1, <3>2
  <2>2. CASE \E m \in DOMAIN calls : calls[m].command = "all"
    BY <1>3, <2>2 DEF ReadingComes
  <2>3. CASE \E m \in DOMAIN answers : m > k /\ answers[m].call.command = "all"
    BY <1>1, <2>3 DEF ReadingComes
  <2>. QED  BY <1>4, <2>1, <2>2, <2>3 DEF ReadingComes
<1>5. ASSUME NEW k \in 0..Len(answers)
      PROVE  Held(k)' = Held(k) /\ Found(k)' = Found(k)
  BY <1>1 DEF Held, Found, After
<1>. QED
  BY <1>1, <1>4, <1>5 DEF Caught

(* An execution moves the rows it found, and a reading, to the answers.    *)
LEMMA ExecutesKeepsCaught ==
  ASSUME Types, Caught, NEW a, Executes(a)
  PROVE  Caught'
<1>. SUFFICES ASSUME NEW n, n = Len(answers) PROVE Caught'
  OBVIOUS
<1>1. /\ a \in Answer /\ answers' = Append(answers, a) /\ calls # <<>> /\ calls' = Tail(calls)
      /\ UNCHANGED <<screen, merged>>
  BY DEF Executes
<1>2. answers \in Seq(Answer)
  BY DEF Types, TypeOK
<1>3. /\ n \in Nat /\ Len(answers') = n + 1
      /\ DOMAIN answers = 1..n /\ DOMAIN answers' = 1..(n + 1)
      /\ \A k \in 1..n : answers'[k] = answers[k]
      /\ answers'[n + 1] = a
  <2>. HIDE DEF Answer
  <2>. QED  BY <1>1, <1>2, Appended
<1>4. a.rows = db /\ After(a) = db' /\ (a.call.command = "all" <=> calls[1].command = "all")
  BY <1>1, ExecutedIsAfter, NextCall
<1>5. ASSUME NEW k \in 0..n
      PROVE  ReadingComes(k) => ReadingComes(k)'
  <2>. SUFFICES ASSUME ReadingComes(k) PROVE ReadingComes(k)'
    OBVIOUS
  <2>1. CASE merged
    BY <1>1, <2>1 DEF ReadingComes
  <2>2. CASE \E m \in DOMAIN calls : calls[m].command = "all"
    <3>1. PICK m \in DOMAIN calls : calls[m].command = "all"
      BY <2>2
    <3>2. CASE m = 1
      <4>1. n + 1 \in DOMAIN answers' /\ n + 1 > k /\ answers'[n + 1].call.command = "all"
        BY <1>3, <1>4, <3>1, <3>2
      <4>. QED  BY <4>1 DEF ReadingComes
    <3>3. CASE m # 1
      <4>1. m - 1 \in DOMAIN calls' /\ calls'[m - 1] = calls[m]
        BY <1>1, <3>1, <3>3, NextCall
      <4>. QED  BY <3>1, <4>1 DEF ReadingComes
    <3>. QED  BY <3>2, <3>3
  <2>3. CASE \E m \in DOMAIN answers : m > k /\ answers[m].call.command = "all"
    BY <1>3, <2>3 DEF ReadingComes
  <2>. QED  BY <2>1, <2>2, <2>3 DEF ReadingComes
<1>6. ASSUME NEW k \in 0..n
      PROVE  Held(k)' = Held(k) /\ Found(k)' = Found(k)
  <2>1. Held(k)' = Held(k)
    BY <1>1, <1>3 DEF Held
  <2>2. Found(k)' = Found(k)
    BY <1>3, <1>4 DEF Found
  <2>. QED  BY <2>1, <2>2
<1>7. Held(n + 1)' = Found(n + 1)'
  <2>1. Held(n + 1)' = After(a)
    <3>1. (answers[n + 1])' = a /\ n + 1 # 0
      BY <1>3
    <3>. QED  BY <3>1 DEF Held
  <2>2. Found(n + 1)' = db'
    BY <1>3 DEF Found
  <2>. QED  BY <1>4, <2>1, <2>2
<1>8. \A k \in 0..(n + 1) : k \in 0..n \/ k = n + 1
  BY <1>3
<1>. QED
  BY <1>3, <1>5, <1>6, <1>7, <1>8 DEF Caught

(* The page takes an answer and is where it would be.                      *)
LEMMA TakesKeepsCaught ==
  ASSUME Types, Caught, NEW a, Takes(a)
  PROVE  Caught'
<1>. SUFFICES ASSUME NEW n, n = Len(answers) PROVE Caught'
  OBVIOUS
<1>1. /\ answers # <<>> /\ answers' = Tail(answers) /\ UNCHANGED <<db, merged>>
      /\ screen' = IF a.ok THEN Shown(a) ELSE screen
  BY DEF Takes
<1>2. /\ n \in Nat \ {0} /\ Len(answers') = n - 1 /\ a = answers[1]
      /\ DOMAIN answers = 1..n /\ DOMAIN answers' = 1..(n - 1)
      /\ \A k \in 1..(n - 1) : answers'[k] = answers[k + 1]
  BY <1>1, NextAnswer DEF Takes
<1>3. \A m \in DOMAIN calls : m \in DOMAIN calls' /\ calls'[m] = calls[m]
  <2>1. CASE calls' = calls
    BY <2>1
  <2>2. ASSUME NEW d \in Call, Follows(d, a.call)
        PROVE  \A m \in DOMAIN calls : m \in DOMAIN calls' /\ calls'[m] = calls[m]
    <3>1. calls \in Seq(Call) /\ calls' = Append(calls, d)
      BY <2>2 DEF Follows, Types, TypeOK
    <3>. HIDE DEF Call
    <3>. QED  BY <3>1, Appended
  <2>. QED  BY <2>1, <2>2 DEF Takes
<1>4. ASSUME NEW k \in 0..(n - 1), ReadingComes(k + 1)
      PROVE  ReadingComes(k)'
  <2>1. CASE merged
    BY <1>1, <2>1 DEF ReadingComes
  <2>2. CASE \E m \in DOMAIN calls : calls[m].command = "all"
    BY <1>3, <2>2 DEF ReadingComes
  <2>3. CASE \E m \in DOMAIN answers : m > k + 1 /\ answers[m].call.command = "all"
    <3>1. PICK m \in DOMAIN answers : m > k + 1 /\ answers[m].call.command = "all"
      BY <2>3
    <3>2. m - 1 \in DOMAIN answers' /\ m - 1 > k /\ answers'[m - 1] = answers[m]
      BY <1>2, <3>1
    <3>. QED  BY <3>1, <3>2 DEF ReadingComes
  <2>. QED  BY <1>4, <2>1, <2>2, <2>3 DEF ReadingComes
<1>5. ASSUME NEW k \in 0..(n - 1)
      PROVE  Found(k)' = Found(k + 1)
  BY <1>1, <1>2 DEF Found
<1>6. ASSUME NEW k \in 1..(n - 1)
      PROVE  Held(k)' = Held(k + 1)
  <2>1. (answers[k])' = answers[k + 1] /\ k # 0 /\ k + 1 # 0
    BY <1>2
  <2>. QED  BY <2>1 DEF Held
<1>7. Held(0)' = Held(1) \/ ReadingComes(1)
  <2>1. 1 \in 0..n /\ 0 \in 0..n /\ 0 # n /\ 1 \in DOMAIN answers
    BY <1>2
  <2>2. a.call.command = "all" => a.ok
    BY <1>2, <2>1 DEF Types, CallsAreMeant
  <2>3. Held(0)' = screen' /\ Held(1) = After(a)
    BY <1>2 DEF Held
  <2>4. CASE screen = a.rows \/ a.call.command = "all"
    BY <1>1, <2>2, <2>3, <2>4, NextAnswer, TakenIsAfter DEF Takes
  <2>5. CASE screen # a.rows /\ a.call.command # "all"
    <3>1. Held(0) = screen /\ Found(0) = a.rows
      BY <1>2, <2>1 DEF Held, Found
    <3>2. ReadingComes(0)
      BY <2>1, <2>5, <3>1 DEF Caught
    <3>3. \A m \in DOMAIN answers : m > 0 /\ answers[m].call.command = "all" => m > 1
      BY <1>2, <2>5
    <3>. QED  BY <3>2, <3>3 DEF ReadingComes
  <2>. QED  BY <2>4, <2>5
<1>8. ASSUME NEW k \in 0..(n - 1)
      PROVE  Held(k)' = Found(k)' \/ ReadingComes(k)'
  <2>1. k + 1 \in 0..n
    BY <1>2
  <2>2. Held(k + 1) = Found(k + 1) \/ ReadingComes(k + 1)
    BY <2>1 DEF Caught
  <2>3. Held(k)' = Held(k + 1) \/ ReadingComes(k + 1)
    BY <1>2, <1>6, <1>7
  <2>. QED  BY <1>4, <1>5, <2>2, <2>3
<1>. QED
  BY <1>2, <1>8 DEF Caught

(* Every step keeps it.                                                    *)
LEMMA CaughtInductive ==
  ASSUME Types, Caught, [Next]_vars
  PROVE  Caught'
<1>1. CASE UNCHANGED <<db, screen, calls, answers, merged>>
  BY <1>1 DEF Caught, Held, Found, After, ReadingComes
<1>2. CASE FormAlone
  BY <1>1, <1>2, FormAloneStep DEF FormOnly
<1>3. CASE Requests
  BY <1>3, RequestStep, SendsKeepsCaught
<1>4. CASE Execute
  BY <1>4, ExecuteStep, ExecutesKeepsCaught
<1>5. CASE Finish \/ CheckLatest
  BY <1>5, TakesStep, TakesKeepsCaught
<1>6. CASE \E i \in Id, row \in Record \cup {None} : SyncCommit(i, row)
  BY <1>6 DEF SyncCommit, Caught, ReadingComes
<1>. QED
  BY <1>1, <1>2, <1>3, <1>4, <1>5, <1>6
     DEF vars, Next, FormAction, CardAction, Sync, Answered, FormAlone, Requests

(* At the start the page shows the table and nothing is under way.         *)
LEMMA InitIsTyped ==
  ASSUME Init
  PROVE  Types /\ Caught
<1>1. PICK on \in SUBSET Id, v \in Imdb :
        db = [i \in Id |-> IF i \in on THEN [imdb |-> v, status |-> "todo", locked |-> FALSE, rev |-> 1] ELSE None]
  BY DEF Init
<1>2. 1 \in 0..MaxRev /\ MaxCalls \in Nat
  BY RecordEditingAssumption
<1>3. db \in Table
  BY <1>1, <1>2 DEF Table, Record, Status
<1>4. <<>> \in Seq(Call) /\ <<>> \in Seq(Answer) /\ Len(<<>>) = 0 /\ DOMAIN <<>> = {}
  OBVIOUS
<1>5. Types
  <2>1. /\ screen = db /\ gone = {} /\ form = None /\ merged = FALSE
        /\ calls = <<>> /\ answers = <<>> /\ confirmed = {} /\ surface \in {"desktop", "mobile"}
    BY DEF Init
  <2>2. TypeOK
    BY <1>3, <1>4, <2>1 DEF TypeOK
  <2>. QED  BY <1>2, <1>4, <2>1, <2>2 DEF Types, CallsAreMeant, Underway
<1>6. Caught
  BY <1>4 DEF Init, Caught, Held, Found
<1>. QED
  BY <1>5, <1>6

(* The types hold at all times.                                            *)
THEOREM EditingIsTyped == Spec => []TypeOK
<1>1. Init => Types
  BY InitIsTyped
<1>2. Types /\ [Next]_vars => Types'
  BY TypesInductive
<1>3. Types => TypeOK
  BY DEF Types
<1>. QED
  BY <1>1, <1>2, <1>3, PTL DEF Spec

(* When nothing is under way the page shows the table, in whatever order   *)
(* writes, readings and passes overlapped, on both surfaces.               *)
THEOREM ScreensAreCurrent == Spec => []ScreenIsCurrent
<1>1. Init => Types /\ Caught
  BY InitIsTyped
<1>2. Types /\ Caught /\ [Next]_vars => (Types /\ Caught)'
  BY TypesInductive, CaughtInductive
<1>3. Types /\ Caught => ScreenIsCurrent
  <2>. SUFFICES ASSUME Types, Caught, Quiet PROVE screen = db
    BY DEF ScreenIsCurrent
  <2>1. Len(calls) = 0 /\ Len(answers) = 0 /\ ~merged /\ DOMAIN calls = {} /\ DOMAIN answers = {}
    BY Lengths DEF Quiet, Underway
  <2>2. Held(0) = Found(0)
    BY <2>1 DEF Caught, ReadingComes
  <2>. QED  BY <2>1, <2>2 DEF Held, Found
<1>. QED
  BY <1>1, <1>2, <1>3, PTL DEF Spec

-----------------------------------------------------------------------------
(*                 A revision tells which content was seen                 *)

(* Row x of record i is somewhere: in the table, on the page, in the form, *)
(* in a command or in an answer.                                           *)
Copy(i, x) ==
  \/ x = db[i] \/ x = screen[i]
  \/ form # None /\ form.id = i /\ x = form.seen
  \/ \E k \in DOMAIN calls : calls[k].id = i /\ x = calls[k].seen
  \/ \E k \in DOMAIN answers : x = answers[k].rows[i]
  \/ \E k \in DOMAIN answers : answers[k].call.id = i /\ x \in {answers[k].call.seen, answers[k].row}

(* No copy is newer than the row of the table, a deleted record stays      *)
(* deleted, and two copies of a record with one revision are the same.     *)
RevisionsTell ==
  /\ \A i \in Id : i \in gone => db[i] = None
  /\ \A i \in Id, x \in Record : Copy(i, x) => i \in gone \/ (db[i] # None /\ x.rev <= db[i].rev)
  /\ \A i \in Id, x, y \in Record : Copy(i, x) /\ Copy(i, y) /\ x.rev = y.rev => x = y

(* Copies that come from copies tell the same.                             *)
LEMMA NoNewCopy ==
  ASSUME RevisionsTell, UNCHANGED <<db, gone>>,
         \A i \in Id, x \in Record : Copy(i, x)' => Copy(i, x)
  PROVE  RevisionsTell'
BY DEF RevisionsTell

(* A row that replaces that of the table is newer than every copy, and one *)
(* that is added is the first of its record.                               *)
LEMMA OneNewCopy ==
  ASSUME Types, RevisionsTell, NEW i \in Id \ gone, NEW row \in Record,
         db' = [db EXCEPT ![i] = row], gone' = gone,
         db[i] = None \/ row.rev = db[i].rev + 1,
         \A j \in Id, x \in Record : Copy(j, x)' => Copy(j, x) \/ (j = i /\ x = row)
  PROVE  RevisionsTell'
<1>1. db \in Table /\ row # None /\ db'[i] = row /\ \A j \in Id \ {i} : db'[j] = db[j]
  BY NoneIsNothing DEF Types, TypeOK, Table
<1>2. \A x \in Record : x.rev \in Nat
  BY RecordEditingAssumption DEF Record
<1>3. ASSUME NEW x \in Record, Copy(i, x)
      PROVE  x.rev < row.rev
  <2>1. db[i] # None /\ x.rev <= db[i].rev
    BY <1>3 DEF RevisionsTell
  <2>2. db[i] \in Record /\ row.rev = db[i].rev + 1
    BY <1>1, <2>1 DEF Table
  <2>. QED  BY <1>2, <2>1, <2>2
<1>4. \A j \in Id : j \in gone' => db'[j] = None
  BY <1>1 DEF RevisionsTell
<1>5. ASSUME NEW j \in Id, NEW x \in Record, Copy(j, x)'
      PROVE  j \in gone' \/ (db'[j] # None /\ x.rev <= db'[j].rev)
  <2>1. CASE j = i
    <3>1. x = row \/ x.rev < row.rev
      BY <1>3, <1>5, <2>1
    <3>. QED  BY <1>1, <1>2, <2>1, <3>1
  <2>2. CASE j # i
    <3>1. Copy(j, x)
      BY <1>5, <2>2
    <3>. QED  BY <1>1, <2>2, <3>1 DEF RevisionsTell
  <2>. QED  BY <2>1, <2>2
<1>6. ASSUME NEW j \in Id, NEW x \in Record, NEW y \in Record,
             Copy(j, x)', Copy(j, y)', x.rev = y.rev
      PROVE  x = y
  <2>1. /\ Copy(j, x) \/ (j = i /\ x = row)
        /\ Copy(j, y) \/ (j = i /\ y = row)
    BY <1>6
  <2>2. CASE Copy(j, x) /\ Copy(j, y)
    BY <1>6, <2>2 DEF RevisionsTell
  <2>3. CASE Copy(j, x) /\ ~Copy(j, y)
    <3>1. j = i /\ y = row /\ x.rev < row.rev
      BY <1>3, <2>1, <2>3
    <3>. QED  BY <1>2, <1>6, <3>1
  <2>4. CASE ~Copy(j, x) /\ Copy(j, y)
    <3>1. j = i /\ x = row /\ y.rev < row.rev
      BY <1>3, <2>1, <2>4
    <3>. QED  BY <1>2, <1>6, <3>1
  <2>. QED  BY <2>1, <2>2, <2>3, <2>4
<1>. QED
  BY <1>4, <1>5, <1>6 DEF RevisionsTell

(* A record that is deleted leaves its copies, and no new ones come.       *)
LEMMA CopyOfTheGone ==
  ASSUME Types, RevisionsTell, NEW i \in Id,
         db' = [db EXCEPT ![i] = None], gone' = gone \cup {i},
         \A j \in Id, x \in Record : Copy(j, x)' => Copy(j, x)
  PROVE  RevisionsTell'
<1>1. db'[i] = None /\ \A j \in Id \ {i} : db'[j] = db[j]
  BY DEF Types, TypeOK, Table
<1>. QED
  BY <1>1 DEF RevisionsTell

(* A form that opens shows a copy.                                         *)
LEMMA FormOnlyCopies ==
  ASSUME FormOnly, NEW i \in Id, NEW x \in Record, Copy(i, x)'
  PROVE  Copy(i, x)
<1>1. CASE (form # None /\ form.id = i /\ x = form.seen)'
  <2>1. x # None
    BY NoneIsNothing
  <2>2. i # NewId
    BY RecordEditingAssumption
  <2>. QED  BY <1>1, <2>1, <2>2 DEF FormOnly, Copy
<1>2. CASE ~(form # None /\ form.id = i /\ x = form.seen)'
  BY <1>2 DEF FormOnly, Copy
<1>. QED
  BY <1>1, <1>2

(* A command is sent with a copy.                                          *)
LEMMA SendsCopies ==
  ASSUME Types, NEW c \in Call, Sends(c), NEW i \in Id, NEW x \in Record, Copy(i, x)'
  PROVE  Copy(i, x)
<1>1. calls \in Seq(Call) /\ calls' = Append(calls, c) /\ UNCHANGED <<db, screen, answers>>
      /\ (form' = form \/ form' = None) /\ SeenSomewhere(c)
  BY DEF Sends, Types, TypeOK
<1>2. /\ DOMAIN calls = 1..Len(calls) /\ DOMAIN calls' = 1..(Len(calls) + 1) /\ Len(calls) \in Nat
      /\ \A k \in 1..Len(calls) : calls'[k] = calls[k]
      /\ calls'[Len(calls) + 1] = c
  <2>. HIDE DEF Call
  <2>. QED  BY <1>1, Appended
<1>3. CASE \E k \in DOMAIN calls' : calls'[k].id = i /\ x = calls'[k].seen
  <2>1. PICK k \in DOMAIN calls' : calls'[k].id = i /\ x = calls'[k].seen
    BY <1>3
  <2>2. CASE k = Len(calls) + 1
    <3>1. c.id = i /\ x = c.seen /\ x # None
      BY <1>2, <2>1, <2>2, NoneIsNothing
    <3>. QED  BY <1>1, <3>1 DEF SeenSomewhere, Copy
  <2>3. CASE k # Len(calls) + 1
    <3>1. k \in DOMAIN calls /\ calls'[k] = calls[k]
      BY <1>2, <2>1, <2>3
    <3>. QED  BY <2>1, <3>1 DEF Copy
  <2>. QED  BY <2>2, <2>3
<1>4. CASE ~\E k \in DOMAIN calls' : calls'[k].id = i /\ x = calls'[k].seen
  BY <1>1, <1>4 DEF Copy
<1>. QED
  BY <1>3, <1>4

(* What the page takes from an answer are copies.                          *)
LEMMA TakesCopies ==
  ASSUME Types, NEW a, Takes(a), NEW i \in Id, NEW x \in Record, Copy(i, x)'
  PROVE  Copy(i, x)
<1>1. /\ answers # <<>> /\ answers' = Tail(answers) /\ db' = db /\ (form' = form \/ form' = None)
      /\ screen' = IF a.ok THEN Shown(a) ELSE screen
  BY DEF Takes
<1>2. /\ Len(answers) \in Nat \ {0} /\ a \in Answer /\ a = answers[1] /\ 1 \in DOMAIN answers
      /\ \A k \in DOMAIN answers' : k + 1 \in DOMAIN answers /\ answers'[k] = answers[k + 1]
  BY <1>1, NextAnswer DEF Takes
<1>3. x # None /\ screen \in Table /\ a.rows \in Table
  BY <1>2, NoneIsNothing DEF Types, TypeOK, Answer
<1>4. CASE x = screen'[i]
  <2>1. CASE ~a.ok
    BY <1>1, <1>4, <2>1 DEF Copy
  <2>2. CASE a.ok
    <3>1. a.call.command \in {"all", "insert", "update", "delete"}
      BY <1>2 DEF Answer, Call
    <3>2. x \in {screen[i], a.rows[i]} \/ (a.call.id = i /\ x = a.row)
      <4>1. CASE a.call.command = "all"
        BY <1>1, <1>4, <2>2, <4>1 DEF Shown
      <4>2. CASE a.call.command = "insert"
        BY <1>1, <1>3, <1>4, <2>2, <4>2 DEF Shown, Table
      <4>3. CASE a.call.command = "update"
        BY <1>1, <1>3, <1>4, <2>2, <4>3 DEF Shown, Table
      <4>4. CASE a.call.command = "delete"
        BY <1>1, <1>3, <1>4, <2>2, <4>4 DEF Shown, Table
      <4>. QED  BY <3>1, <4>1, <4>2, <4>3, <4>4
    <3>. QED  BY <1>2, <3>2 DEF Copy
  <2>. QED  BY <2>1, <2>2
<1>5. CASE \E k \in DOMAIN calls' : calls'[k].id = i /\ x = calls'[k].seen
  <2>1. PICK k \in DOMAIN calls' : calls'[k].id = i /\ x = calls'[k].seen
    BY <1>5
  <2>2. CASE calls' = calls
    BY <2>1, <2>2 DEF Copy
  <2>3. ASSUME NEW d \in Call, Follows(d, a.call)
        PROVE  Copy(i, x)
    <3>1. calls \in Seq(Call) /\ calls' = Append(calls, d) /\ d.id = a.call.id /\ d.seen = a.call.seen
      BY <2>3 DEF Follows, Types, TypeOK
    <3>2. /\ DOMAIN calls = 1..Len(calls) /\ DOMAIN calls' = 1..(Len(calls) + 1) /\ Len(calls) \in Nat
          /\ \A m \in 1..Len(calls) : calls'[m] = calls[m]
          /\ calls'[Len(calls) + 1] = d
      <4>. HIDE DEF Call
      <4>. QED  BY <3>1, Appended
    <3>3. CASE k = Len(calls) + 1
      <4>1. a.call.id = i /\ x = a.call.seen
        BY <2>1, <3>1, <3>2, <3>3
      <4>. QED  BY <1>2, <4>1 DEF Copy
    <3>4. CASE k # Len(calls) + 1
      <4>1. k \in DOMAIN calls /\ calls'[k] = calls[k]
        BY <2>1, <3>2, <3>4
      <4>. QED  BY <2>1, <4>1 DEF Copy
    <3>. QED  BY <3>3, <3>4
  <2>. QED  BY <2>2, <2>3 DEF Takes
<1>6. CASE \E k \in DOMAIN answers' : x = answers'[k].rows[i]
  BY <1>2, <1>6 DEF Copy
<1>7. CASE \E k \in DOMAIN answers' :
             answers'[k].call.id = i /\ x \in {answers'[k].call.seen, answers'[k].row}
  BY <1>2, <1>7 DEF Copy
<1>8. CASE x = db'[i] \/ (form' # None /\ form'.id = i /\ x = form'.seen)
  BY <1>1, <1>8 DEF Copy
<1>. QED
  BY <1>4, <1>5, <1>6, <1>7, <1>8 DEF Copy

(* An execution makes no copy but the row it wrote.                        *)
LEMMA ExecutesCopies ==
  ASSUME Types, NEW a, Executes(a), NEW i \in Id, NEW x \in Record, Copy(i, x)', x # db'[i]
  PROVE  Copy(i, x) \/ (a.call.id = i /\ x = a.row)
<1>. DEFINE c == Head(calls)
<1>1. /\ a \in Answer /\ a.rows = db /\ calls # <<>> /\ calls' = Tail(calls)
      /\ answers' = Append(answers, a) /\ UNCHANGED <<screen, form>>
  BY DEF Executes
<1>2. answers \in Seq(Answer) /\ x # None
  BY NoneIsNothing DEF Types, TypeOK
<1>3. /\ Len(answers) \in Nat
      /\ DOMAIN answers = 1..Len(answers) /\ DOMAIN answers' = 1..(Len(answers) + 1)
      /\ \A k \in 1..Len(answers) : answers'[k] = answers[k]
      /\ answers'[Len(answers) + 1] = a
  <2>. HIDE DEF Answer
  <2>. QED  BY <1>1, <1>2, Appended
<1>4. /\ c \in Call /\ Meant(c) /\ c = calls[1] /\ 1 \in DOMAIN calls
      /\ \A k \in DOMAIN calls' : k + 1 \in DOMAIN calls /\ calls'[k] = calls[k + 1]
  BY <1>1, NextCall
<1>5. a.call.id = i /\ x = a.call.seen => Copy(i, x)
  <2>1. CASE a.call = c
    BY <1>4, <2>1 DEF Copy
  <2>2. ASSUME NEW j \in Id, a.call = [c EXCEPT !.id = j], Adds(c, j, a.row)
        PROVE  a.call.seen = None
    BY <1>4, <2>2 DEF Adds, Meant, Call
  <2>. QED  BY <1>2, <2>1, <2>2 DEF Executes
<1>6. CASE x = screen'[i] \/ (form' # None /\ form'.id = i /\ x = form'.seen)
  BY <1>1, <1>6 DEF Copy
<1>7. CASE \E k \in DOMAIN calls' : calls'[k].id = i /\ x = calls'[k].seen
  BY <1>4, <1>7 DEF Copy
<1>8. CASE \E k \in DOMAIN answers' : x = answers'[k].rows[i]
  <2>1. PICK k \in DOMAIN answers' : x = answers'[k].rows[i]
    BY <1>8
  <2>2. CASE k = Len(answers) + 1
    BY <1>1, <1>3, <2>1, <2>2 DEF Copy
  <2>3. CASE k # Len(answers) + 1
    <3>1. k \in DOMAIN answers /\ answers'[k] = answers[k]
      BY <1>3, <2>1, <2>3
    <3>. QED  BY <2>1, <3>1 DEF Copy
  <2>. QED  BY <2>2, <2>3
<1>9. CASE \E k \in DOMAIN answers' :
             answers'[k].call.id = i /\ x \in {answers'[k].call.seen, answers'[k].row}
  <2>1. PICK k \in DOMAIN answers' :
             answers'[k].call.id = i /\ x \in {answers'[k].call.seen, answers'[k].row}
    BY <1>9
  <2>2. CASE k = Len(answers) + 1
    BY <1>3, <1>5, <2>1, <2>2
  <2>3. CASE k # Len(answers) + 1
    <3>1. k \in DOMAIN answers /\ answers'[k] = answers[k]
      BY <1>3, <2>1, <2>3
    <3>. QED  BY <2>1, <3>1 DEF Copy
  <2>. QED  BY <2>2, <2>3
<1>. QED
  BY <1>6, <1>7, <1>8, <1>9 DEF Copy

(* So an execution keeps what revisions tell.                              *)
LEMMA ExecutesKeepsRevisions ==
  ASSUME Types, RevisionsTell, NEW a, Executes(a)
  PROVE  RevisionsTell'
<1>. DEFINE c == Head(calls)
<1>1. c \in Call /\ db \in Table /\ None \notin Record
  BY NextCall, NoneIsNothing DEF Executes, Types, TypeOK
<1>2. CASE a.row = None /\ UNCHANGED <<db, gone>>
  <2>1. ASSUME NEW i \in Id, NEW x \in Record, Copy(i, x)'
        PROVE  Copy(i, x)
    BY <1>1, <1>2, <2>1, ExecutesCopies DEF Copy
  <2>. QED  BY <1>2, <2>1, NoNewCopy
<1>3. CASE a.row = None /\ Removes(c)
  <2>1. ASSUME NEW i \in Id, NEW x \in Record, Copy(i, x)'
        PROVE  Copy(i, x)
    <3>1. x = db'[i] => x = db[i]
      BY <1>1, <1>3 DEF Removes, Table
    <3>. QED  BY <1>1, <1>3, <2>1, <3>1, ExecutesCopies DEF Copy
  <2>. QED  BY <1>3, <2>1, CopyOfTheGone DEF Removes
<1>4. ASSUME NEW i \in Id \ gone, a.call.id = i, a.row \in Record, db' = [db EXCEPT ![i] = a.row],
             gone' = gone, db[i] = None \/ a.row.rev = db[i].rev + 1
      PROVE  RevisionsTell'
  <2>1. ASSUME NEW j \in Id, NEW x \in Record, Copy(j, x)'
        PROVE  Copy(j, x) \/ (j = i /\ x = a.row)
    <3>1. x = db'[j] => x = db[j] \/ (j = i /\ x = a.row)
      BY <1>1, <1>4 DEF Table
    <3>. QED  BY <1>4, <2>1, <3>1, ExecutesCopies DEF Copy
  <2>. QED  BY <1>4, <2>1, OneNewCopy
<1>5. CASE a.call = c /\ Changes(c, a.row)
  <2>1. c.id \in Id \ gone
    BY <1>5 DEF Changes, RevisionsTell
  <2>. QED  BY <1>4, <1>5, <2>1 DEF Changes
<1>6. ASSUME NEW i \in Id, a.call = [c EXCEPT !.id = i], Adds(c, i, a.row)
      PROVE  RevisionsTell'
  <2>1. a.call.id = i
    BY <1>1, <1>6 DEF Call
  <2>. QED  BY <1>4, <1>6, <2>1 DEF Adds
<1>. QED
  BY <1>2, <1>3, <1>5, <1>6 DEF Executes, Reads, Misses

(* And so does a pass that commits.                                        *)
LEMMA PassKeepsRevisions ==
  ASSUME Types, RevisionsTell, NEW i \in Id, NEW row \in Record \cup {None}, SyncCommit(i, row)
  PROVE  RevisionsTell'
<1>1. /\ db \in Table /\ db' = [db EXCEPT ![i] = row] /\ UNCHANGED <<screen, form, calls, answers>>
      /\ gone' = IF row = None THEN gone \cup {i} ELSE gone
  BY DEF SyncCommit, Types, TypeOK
<1>2. ASSUME NEW j \in Id, NEW x \in Record, Copy(j, x)'
      PROVE  Copy(j, x) \/ (j = i /\ x = row)
  <2>1. x = db'[j] => x = db[j] \/ (j = i /\ x = row)
    BY <1>1 DEF Table
  <2>. QED  BY <1>1, <1>2, <2>1 DEF Copy
<1>3. CASE row = None
  <2>1. \A j \in Id, x \in Record : Copy(j, x)' => Copy(j, x)
    BY <1>2, <1>3, NoneIsNothing
  <2>. QED  BY <1>1, <1>3, <2>1, CopyOfTheGone
<1>4. CASE row # None
  <2>1. row \in Record /\ (db[i] # None => row.rev = db[i].rev + 1)
    BY <1>4 DEF SyncCommit
  <2>2. i \in Id \ gone
    BY DEF SyncCommit, RevisionsTell
  <2>3. /\ db' = [db EXCEPT ![i] = row] /\ gone' = gone
        /\ db[i] = None \/ row.rev = db[i].rev + 1
    BY <1>1, <1>4, <2>1
  <2>4. \A j \in Id, x \in Record : Copy(j, x)' => Copy(j, x) \/ (j = i /\ x = row)
    BY <1>2
  <2>. QED  BY <2>1, <2>2, <2>3, <2>4, OneNewCopy
<1>. QED
  BY <1>3, <1>4

(* Every step keeps it.                                                    *)
LEMMA RevisionsInductive ==
  ASSUME Types, RevisionsTell, [Next]_vars
  PROVE  RevisionsTell'
<1>1. CASE UNCHANGED vars
  BY <1>1 DEF vars, RevisionsTell, Copy
<1>2. CASE FormAlone
  <2>1. FormOnly
    BY <1>2, FormAloneStep
  <2>2. UNCHANGED <<db, gone>>
    BY <2>1 DEF FormOnly
  <2>3. \A i \in Id, x \in Record : Copy(i, x)' => Copy(i, x)
    BY <2>1, FormOnlyCopies
  <2>. QED  BY <2>2, <2>3, NoNewCopy
<1>3. CASE Requests
  <2>1. PICK c \in Call : Sends(c)
    BY <1>3, RequestStep
  <2>. QED  BY <2>1, SendsCopies, NoNewCopy DEF Sends
<1>4. CASE Execute
  BY <1>4, ExecuteStep, ExecutesKeepsRevisions
<1>5. CASE Finish \/ CheckLatest
  <2>1. Takes(Head(answers))
    BY <1>5, TakesStep
  <2>2. UNCHANGED <<db, gone>>
    BY <2>1 DEF Takes
  <2>3. \A i \in Id, x \in Record : Copy(i, x)' => Copy(i, x)
    BY <2>1, TakesCopies
  <2>. QED  BY <2>2, <2>3, NoNewCopy
<1>6. CASE \E i \in Id, row \in Record \cup {None} : SyncCommit(i, row)
  BY <1>6, PassKeepsRevisions
<1>. QED
  BY <1>1, <1>2, <1>3, <1>4, <1>5, <1>6
     DEF Next, FormAction, CardAction, Sync, Answered, FormAlone, Requests

(* At the start there is the table and the page, which is the same.        *)
LEMMA RevisionsInit ==
  ASSUME Init
  PROVE  RevisionsTell
<1>1. /\ screen = db /\ gone = {} /\ form = None /\ calls = <<>> /\ answers = <<>>
  BY DEF Init
<1>2. DOMAIN <<>> = {}
  OBVIOUS
<1>3. \A i, x : Copy(i, x) => x = db[i]
  BY <1>1, <1>2 DEF Copy
<1>4. \A x \in Record : x.rev <= x.rev /\ x # None
  BY NoneIsNothing, RecordEditingAssumption DEF Record
<1>. QED
  BY <1>1, <1>3, <1>4 DEF RevisionsTell

(* What a mobile card action that passed the check found is what its user  *)
(* saw: both have the revision the command carries.                        *)
LEMMA StepsWriteOverWhatWasSeen ==
  ASSUME Types, RevisionsTell, [Next]_vars
  PROVE  [WritesOverWhatItSaw]_vars
<1>. SUFFICES ASSUME Types, RevisionsTell, NEW k \in DOMAIN calls', CheckLatest, calls' # calls,
                     k = Len(calls'), calls'[k].kind \in QuickKinds
              PROVE  Content(Head(answers).rows[calls'[k].id]) = Content(calls'[k].seen)
  BY DEF WritesOverWhatItSaw, QuickKinds
<1>. DEFINE a == Head(answers)
            c == a.call
            d == [c EXCEPT !.command = CommandOf(c.kind)]
            row == a.rows[c.id]
<1>1. answers # <<>> /\ c.command = "all" /\ c.kind # None
      /\ ~Refused(c, row) /\ calls' = Append(calls, d)
  BY DEF CheckLatest
<1>2. a \in Answer /\ a = answers[1] /\ 1 \in DOMAIN answers
  BY <1>1, NextAnswer
<1>3. c \in Call /\ a.rows \in Table /\ Meant(c)
  BY <1>1, <1>2 DEF Answer, Types, CallsAreMeant
<1>4. d \in Call /\ d.id = c.id /\ d.seen = c.seen /\ d.kind = c.kind
  BY <1>3 DEF Call, CommandOf
<1>. HIDE DEF d
<1>5. calls'[k] = d
  <2>1. calls \in Seq(Call)
    BY DEF Types, TypeOK
  <2>. HIDE DEF Call
  <2>. QED  BY <1>1, <1>4, <2>1, Appended
<1>6. c.id \in Id /\ c.seen \in Record /\ c.rev = c.seen.rev
  BY <1>1, <1>3, <1>4, <1>5 DEF Meant, SawItsRevision
<1>7. row \in Record /\ row.rev = c.rev
  BY <1>1, <1>3, <1>6 DEF Refused, Table
<1>8. Copy(c.id, row) /\ Copy(c.id, c.seen)
  BY <1>2 DEF Copy
<1>9. row = c.seen
  BY <1>6, <1>7, <1>8 DEF RevisionsTell
<1>. QED  BY <1>4, <1>5, <1>9

(* A card action of the mobile surface that passed the check writes over   *)
(* the content the user saw when pressing it, whatever was changed, brought*)
(* or deleted meanwhile.                                                   *)
THEOREM QuickActionsSaw == Spec => QuickActionsSawTheRecord
<1>1. Init => Types /\ RevisionsTell
  BY InitIsTyped, RevisionsInit
<1>2. Types /\ RevisionsTell /\ [Next]_vars => (Types /\ RevisionsTell)'
  BY TypesInductive, RevisionsInductive
<1>3. Types /\ RevisionsTell /\ [Next]_vars => [WritesOverWhatItSaw]_vars
  BY StepsWriteOverWhatWasSeen
<1>. QED
  BY <1>1, <1>2, <1>3, PTL DEF Spec, QuickActionsSawTheRecord

-----------------------------------------------------------------------------
(*                                The pages                                *)

PagesInv ==
  /\ stack \in Seq(Pages!Entry) /\ pos \in 1..Len(stack)
  /\ Pages!PageIsTheEntry

(* A page is added behind the current one, and shown.                      *)
LEMMA PushedEntry ==
  ASSUME PagesInv, NEW e \in Pages!Entry, Pages!Push(e), page' = e
  PROVE  PagesInv'
<1>1. pos \in 1..Len(stack) /\ Len(stack) \in Nat /\ stack \in Seq(Pages!Entry)
  BY DEF PagesInv
<1>. DEFINE s == SubSeq(stack, 1, pos)
<1>2. s \in Seq(Pages!Entry) /\ Len(s) = pos
  BY <1>1
<1>3. stack' = Append(s, e) /\ pos' = pos + 1
  BY DEF Pages!Push
<1>. HIDE DEF s
<1>4. stack' \in Seq(Pages!Entry) /\ Len(stack') = pos + 1 /\ stack'[pos + 1] = e
  BY <1>1, <1>2, <1>3
<1>. QED
  BY <1>1, <1>3, <1>4 DEF PagesInv, Pages!PageIsTheEntry

(* The same when the current page gives way to another.                    *)
LEMMA ReplacedEntry ==
  ASSUME PagesInv, NEW e \in Pages!Entry, Pages!Replace(e), page' = e
  PROVE  PagesInv'
<1>1. pos \in 1..Len(stack) /\ Len(stack) \in Nat /\ stack \in Seq(Pages!Entry) /\ pos \in DOMAIN stack
  BY DEF PagesInv
<1>2. stack' = [stack EXCEPT ![pos] = e] /\ pos' = pos
  BY DEF Pages!Replace
<1>3. stack' \in Seq(Pages!Entry) /\ Len(stack') = Len(stack) /\ stack'[pos] = e
  BY <1>1, <1>2
<1>. QED
  BY <1>1, <1>2, <1>3 DEF PagesInv, Pages!PageIsTheEntry

(* Nothing of the history is touched.                                      *)
LEMMA SameHistory ==
  ASSUME PagesInv, UNCHANGED <<stack, pos, page>>
  PROVE  PagesInv'
BY DEF PagesInv, Pages!PageIsTheEntry

(* Show puts its entry on the screen.                                      *)
LEMMA ShowsEntry ==
  ASSUME NEW e, NEW live, Pages!Show(e, live)
  PROVE  page' = e
BY DEF Pages!Show

(* A tab or the library is gone to.                                        *)
LEMMA Went ==
  ASSUME PagesInv, NEW route \in {"library"} \cup Tabs, NEW live, Pages!Go(route, live)
  PROVE  PagesInv'
<1>. DEFINE e == [route |-> route, id |-> None]
<1>1. e \in Pages!Entry
  BY DEF Pages!Entry
<1>2. CASE page.route = route
  BY <1>2, SameHistory, ShowsEntry DEF Pages!Go
<1>3. CASE page.route # route
  <2>1. Pages!Show(e, live) /\ (Pages!Push(e) \/ Pages!Replace(e))
    BY <1>3 DEF Pages!Go
  <2>2. page' = e
    BY <2>1, ShowsEntry
  <2>. QED
    BY <1>1, <2>1, <2>2, PushedEntry, ReplacedEntry
<1>. QED
  BY <1>2, <1>3

(* The surface opens on the first page of an empty history.                *)
LEMMA PagesInit == Pages!Init => PagesInv
<1>. HAVE Pages!Init
<1>1. Pages!Root \in Pages!Entry
  BY DEF Pages!Root, Pages!Entry
<1>2. stack = <<Pages!Root>> /\ pos = 1 /\ page = Pages!Root
  BY DEF Pages!Init
<1>. QED
  BY <1>1, <1>2 DEF PagesInv, Pages!PageIsTheEntry

(* Every step keeps the page and its entry together.                       *)
LEMMA PagesStep ==
  ASSUME PagesInv, Pages!Next
  PROVE  PagesInv'
<1>1. ASSUME NEW t \in Tabs \cup {"library"}, Pages!Navigate(t) PROVE PagesInv'
  <2>1. Pages!Go(t, alive)
    BY <1>1 DEF Pages!Navigate
  <2>. QED
    BY <2>1, Went
<1>2. ASSUME NEW i \in PageId, Pages!NavigateDetail(i) PROVE PagesInv'
  <2>1. [route |-> "detail", id |-> i] \in Pages!Entry
    BY DEF Pages!Entry
  <2>2. Pages!Push([route |-> "detail", id |-> i]) /\ Pages!Show([route |-> "detail", id |-> i], alive)
    BY <1>2 DEF Pages!NavigateDetail
  <2>. QED
    BY <2>1, <2>2, PushedEntry, ShowsEntry
<1>3. ASSUME NEW i \in PageId \cup {None}, Pages!NavigateForm(i) PROVE PagesInv'
  <2>1. [route |-> "form", id |-> i] \in Pages!Entry
    BY DEF Pages!Entry
  <2>2. Pages!Push([route |-> "form", id |-> i]) /\ Pages!Show([route |-> "form", id |-> i], alive)
    BY <1>3 DEF Pages!NavigateForm
  <2>. QED
    BY <2>1, <2>2, PushedEntry, ShowsEntry
<1>4. CASE Pages!Back
  <2>1. CASE page.route = "library"
    <3>1. Pages!Root \in Pages!Entry
      BY DEF Pages!Root, Pages!Entry
    <3>2. stack' = <<Pages!Root>> /\ pos' = 1 /\ page' = Pages!Root
      BY <1>4, <2>1 DEF Pages!Back
    <3>. QED
      BY <3>1, <3>2 DEF PagesInv, Pages!PageIsTheEntry
  <2>2. CASE page.route # "library"
    BY <1>4, <2>2, SameHistory DEF Pages!Back
  <2>. QED
    BY <2>1, <2>2
<1>5. CASE Pages!Traverse
  <2>1. CASE pos = 1
    BY <1>5, <2>1, SameHistory DEF Pages!Traverse
  <2>2. CASE pos # 1
    <3>1. pos' = pos - 1 /\ stack' = stack /\ Pages!Show(stack[pos - 1], alive)
      BY <1>5, <2>2 DEF Pages!Traverse
    <3>2. page' = stack[pos - 1]
      BY <3>1, ShowsEntry
    <3>. QED
      BY <2>2, <3>1, <3>2 DEF PagesInv, Pages!PageIsTheEntry
  <2>. QED
    BY <2>1, <2>2
<1>6. CASE Pages!LeaveGone
  BY <1>6, SameHistory DEF Pages!LeaveGone
<1>7. CASE Pages!Command
  <2>1. CASE Pages!Type \/ Pages!Submit \/ \E n \in saves, ok \in BOOLEAN : Pages!SaveAnswered(n, ok)
    BY <2>1, SameHistory DEF Pages!Type, Pages!Submit, Pages!SaveAnswered
  <2>2. ASSUME NEW i \in PageId, Pages!Delete(i) \/ Pages!DeleteRefused(i) PROVE PagesInv'
    BY <2>2, SameHistory DEF Pages!Delete, Pages!DeleteRefused
  <2>3. ASSUME NEW i \in PageId, Pages!DeleteAnswered(i) PROVE PagesInv'
    BY <2>3, Went DEF Pages!DeleteAnswered
  <2>4. ASSUME NEW i \in PageId, Pages!Removed(i) PROVE PagesInv'
    BY <2>4, ShowsEntry, SameHistory DEF Pages!Removed
  <2>. QED
    BY <1>7, <2>1, <2>2, <2>3, <2>4 DEF Pages!Command
<1>. QED
  BY <1>1, <1>2, <1>3, <1>4, <1>5, <1>6, <1>7 DEF Pages!Next, Pages!Move

(* What the types say of the rest of the pages' state.                     *)
MountedForm == [no : 1..MaxForms, dirty : BOOLEAN, saving : BOOLEAN, saved : BOOLEAN, typed : BOOLEAN]
PagesTyped ==
  /\ pops \in 0..2 /\ forms \in 0..MaxForms /\ saves \subseteq 1..MaxForms
  /\ entered = None \/ entered \in MountedForm
  /\ deletes \subseteq PageId /\ alive \subseteq PageId /\ asked \in BOOLEAN

(* A form that is shown is the one there was or a new one.                 *)
LEMMA ShownForm ==
  ASSUME PagesTyped, NEW e, NEW live, Pages!Show(e, live)
  PROVE  forms' \in 0..MaxForms /\ (entered' = None \/ entered' \in MountedForm)
<1>1. MaxForms \in Nat
  BY ScreensAssumption DEF Pages!MobileNavigationAssumption
<1>2. ASSUME forms < MaxForms
      PROVE  /\ forms + 1 \in 1..MaxForms /\ forms + 1 \in 0..MaxForms
             /\ [no |-> forms + 1, dirty |-> FALSE, saving |-> FALSE, saved |-> FALSE, typed |-> FALSE] \in MountedForm
  BY <1>1, <1>2 DEF PagesTyped, MountedForm
<1>. QED
  BY <1>2 DEF Pages!Show, PagesTyped

(* Moving on to a page changes nothing else.                               *)
LEMMA WentTyped ==
  ASSUME PagesTyped, NEW route, NEW live, Pages!Go(route, live)
  PROVE  /\ forms' \in 0..MaxForms /\ (entered' = None \/ entered' \in MountedForm)
         /\ asked' \in BOOLEAN
<1>1. \E e : Pages!Show(e, live)
  BY DEF Pages!Go
<1>2. asked' = asked \/ asked' = FALSE
  BY DEF Pages!Go, Pages!Push, Pages!Replace
<1>. QED
  BY <1>1, <1>2, ShownForm DEF PagesTyped

(* The types of the start, and of the next state.                          *)
LEMMA PagesTypedInit == Pages!Init => PagesTyped
<1>1. MaxForms \in Nat
  BY ScreensAssumption DEF Pages!MobileNavigationAssumption
<1>2. ASSUME Pages!Init PROVE pops = 0 /\ forms = 0 /\ saves = {} /\ deletes = {} /\ entered = None /\ alive = PageId /\ asked = FALSE
  BY <1>2 DEF Pages!Init
<1>3. 0 \in 0..MaxForms /\ 0 \in 0..2
  BY <1>1
<1>. QED
  BY <1>2, <1>3 DEF PagesTyped

LEMMA PagesTypedStep ==
  ASSUME PagesTyped, Pages!Next
  PROVE  PagesTyped'
<1>1. ASSUME NEW t, Pages!Navigate(t) PROVE PagesTyped'
  <2>1. Pages!Go(t, alive) /\ UNCHANGED <<pops, saves, deletes, alive>>
    BY <1>1 DEF Pages!Navigate
  <2>2. forms' \in 0..MaxForms /\ (entered' = None \/ entered' \in MountedForm) /\ asked' \in BOOLEAN
    BY <2>1, WentTyped
  <2>. QED
    BY <2>1, <2>2 DEF PagesTyped
<1>2. ASSUME NEW i, Pages!NavigateDetail(i) \/ Pages!NavigateForm(i) PROVE PagesTyped'
  <2>1. \E e : Pages!Show(e, alive)
    BY <1>2 DEF Pages!NavigateDetail, Pages!NavigateForm
  <2>2. asked' = FALSE /\ UNCHANGED <<pops, saves, deletes, alive>>
    BY <1>2 DEF Pages!NavigateDetail, Pages!NavigateForm, Pages!Push
  <2>3. forms' \in 0..MaxForms /\ (entered' = None \/ entered' \in MountedForm)
    BY <2>1, ShownForm
  <2>. QED
    BY <2>2, <2>3 DEF PagesTyped
<1>3. CASE Pages!Back
  <2>1. CASE page.route = "library"
    <3>1. pops' = 0 /\ entered' = None /\ saves' = {} /\ deletes' = {} /\ asked' = FALSE /\ UNCHANGED <<forms, alive>>
      BY <1>3, <2>1 DEF Pages!Back
    <3>2. 0 \in 0..2
      OBVIOUS
    <3>. QED
      BY <3>1, <3>2 DEF PagesTyped
  <2>2. CASE page.route # "library"
    <3>1. asked' = (asked \/ Pages!MustAsk) /\ pops < 2 /\ pops' = pops + 1
          /\ UNCHANGED <<entered, forms, saves, deletes, alive>>
      BY <1>3, <2>2 DEF Pages!Back, Pages!HistoryBack
    <3>2. asked' \in BOOLEAN
      BY <3>1
    <3>3. pops' \in 0..2
      BY <3>1 DEF PagesTyped
    <3>. QED
      BY <3>1, <3>2, <3>3 DEF PagesTyped
  <2>. QED
    BY <2>1, <2>2
<1>4. CASE Pages!Traverse
  <2>1. (entered' = entered /\ forms' = forms) \/ \E e : Pages!Show(e, alive)
    BY <1>4 DEF Pages!Traverse
  <2>2. pops > 0 /\ pops' = pops - 1 /\ asked' = FALSE /\ UNCHANGED <<saves, deletes, alive>>
    BY <1>4 DEF Pages!Traverse
  <2>3. forms' \in 0..MaxForms /\ (entered' = None \/ entered' \in MountedForm)
    BY <2>1, ShownForm DEF PagesTyped
  <2>4. pops' \in 0..2
    BY <2>2 DEF PagesTyped
  <2>. QED
    BY <2>2, <2>3, <2>4 DEF PagesTyped
<1>5. CASE Pages!LeaveGone
  BY <1>5 DEF Pages!LeaveGone, Pages!HistoryBack, PagesTyped
<1>6. CASE Pages!Type
  BY <1>6 DEF Pages!Type, PagesTyped, MountedForm
<1>7. CASE Pages!Submit
  BY <1>7 DEF Pages!Submit, PagesTyped, MountedForm
<1>8. ASSUME NEW n \in saves, NEW ok \in BOOLEAN, Pages!SaveAnswered(n, ok) PROVE PagesTyped'
  <2>1. entered' = None \/ entered' \in MountedForm
    BY <1>8 DEF Pages!SaveAnswered, PagesTyped, MountedForm
  <2>2. pops' \in 0..2 /\ saves' \subseteq saves /\ UNCHANGED <<forms, deletes, alive, asked>>
    BY <1>8 DEF Pages!SaveAnswered, Pages!HistoryBack, PagesTyped
  <2>. QED
    BY <2>1, <2>2 DEF PagesTyped
<1>9. ASSUME NEW i \in PageId, Pages!Delete(i) \/ Pages!DeleteRefused(i) PROVE PagesTyped'
  BY <1>9 DEF Pages!Delete, Pages!DeleteRefused, PagesTyped
<1>10. ASSUME NEW i \in PageId, Pages!DeleteAnswered(i) PROVE PagesTyped'
  <2>1. Pages!Go("library", alive') /\ deletes' \subseteq deletes /\ alive' \subseteq alive /\ UNCHANGED <<pops, saves>>
    BY <1>10 DEF Pages!DeleteAnswered
  <2>2. forms' \in 0..MaxForms /\ (entered' = None \/ entered' \in MountedForm) /\ asked' \in BOOLEAN
    BY <2>1, WentTyped
  <2>. QED
    BY <2>1, <2>2 DEF PagesTyped
<1>11. ASSUME NEW i \in PageId, Pages!Removed(i) PROVE PagesTyped'
  BY <1>11, ShownForm DEF Pages!Removed, PagesTyped
<1>. QED
  BY <1>1, <1>2, <1>3, <1>4, <1>5, <1>6, <1>7, <1>8, <1>9, <1>10, <1>11 DEF Pages!Next, Pages!Move, Pages!Command

(* Both parts together are the type invariant.                             *)
LEMMA PagesTypes == PagesInv /\ PagesTyped => Pages!TypeOK
BY DEF PagesInv, PagesTyped, MountedForm, Pages!TypeOK, Pages!PageIsTheEntry

-----------------------------------------------------------------------------
(*                             The saved views                             *)

(* What a call would store differs from what is stored only in its view.   *)
Alone(c, lists) == \A i : i # c.id => Views!At(c.next, i) = Views!At(lists, i)

Pending(c, lists) ==
  /\ c.op \in {"create", "update"} => c.id \in DOMAIN c.next /\ Alone(c, lists)
  /\ c.op \in {"delete", "delete_startup"} => c.id \notin DOMAIN c.next /\ Alone(c, lists)

OneCallAtMost ==
  \/ writes = <<>> /\ loaded
  \/ \E c : writes = <<c>> /\ Pending(c, stored) /\ (~loaded => c.op = "load")

ViewsInv ==
  /\ OneCallAtMost
  /\ loaded => views = stored
  /\ Views!AnswersAreKept

(* A queue of one call.                                                    *)
LEMMA OneCall ==
  ASSUME NEW c, NEW d
  PROVE  /\ <<c>>[1] = c /\ Tail(<<c>>) = <<>> /\ Append(<<>>, c) = <<c>>
         /\ <<c>> # <<>> /\ Append(Tail(<<c>>), d) = <<d>>
OBVIOUS

(* At the start nothing is stored, told or under way.                      *)
LEMMA ViewsInit == Views!Init => ViewsInv
BY DEF Views!Init, ViewsInv, OneCallAtMost, Views!NoViews, Views!AnswersAreKept, Pending

(* A list with one view put into it, the others as they were.              *)
LEMMA WithOne ==
  ASSUME NEW f, NEW i, NEW v, NEW g, g = Views!With(f, i, v)
  PROVE  /\ i \in DOMAIN g /\ g[i] = v
         /\ \A j : j # i => Views!At(g, j) = Views!At(f, j)
         /\ \A j \in DOMAIN g : j # i => j \in DOMAIN f /\ g[j] = f[j]
BY DEF Views!With, Views!At

(* A list with one view taken out, the others as they were.                *)
LEMMA WithoutOne ==
  ASSUME NEW f, NEW i, NEW g, g = Views!Without(f, i)
  PROVE  /\ i \notin DOMAIN g
         /\ \A j : j # i => Views!At(g, j) = Views!At(f, j)
         /\ \A j \in DOMAIN g : j # i /\ j \in DOMAIN f /\ g[j] = f[j]
BY DEF Views!Without, Views!At, Views!Restrict

ToldLess == \A i \in DOMAIN told' : i \in DOMAIN told /\ told'[i] = told[i]

(* An operation sends its call when there is no other.                     *)
LEMMA CallSent ==
  ASSUME ViewsInv, NEW c, Views!Ready, Pending(c, stored), writes' = Append(writes, c),
         UNCHANGED <<stored, loaded, views>>, ToldLess
  PROVE  ViewsInv'
<1>1. writes = <<>> /\ loaded
  BY OneCall DEF ViewsInv, OneCallAtMost, Views!Ready
<1>2. writes' = <<c>>
  BY <1>1, OneCall
<1>3. OneCallAtMost'
  BY <1>1, <1>2 DEF OneCallAtMost
<1>4. Views!AnswersAreKept'
  BY DEF ViewsInv, Views!AnswersAreKept, ToldLess
<1>. QED
  BY <1>3, <1>4 DEF ViewsInv

(* Every step keeps what was told, and what the call under way will leave. *)
LEMMA ViewsStep ==
  ASSUME ViewsInv, Views!Next
  PROVE  ViewsInv'
<1>0. Views!Ready => writes = <<>> /\ loaded /\ views = stored
  BY OneCall DEF ViewsInv, OneCallAtMost, Views!Ready
<1>1. ASSUME NEW name \in ViewName, Views!Create(name) PROVE ViewsInv'
  <2>1. PICK id \in ViewId \ used : Views!Persist("create", id, Views!With(views, id, [name |-> name, cond |-> cond]))
    BY <1>1 DEF Views!Create
  <2>2. PICK c : c = [op |-> "create", id |-> id, next |-> Views!With(views, id, [name |-> name, cond |-> cond])]
    OBVIOUS
  <2>3. Pending(c, stored)
    <3>1. c.id = id /\ c.op = "create" /\ c.next = Views!With(stored, id, [name |-> name, cond |-> cond])
      BY <1>0, <1>1, <2>2 DEF Views!Create
    <3>. QED
      BY <3>1, WithOne DEF Pending, Alone
  <2>4. Views!Ready /\ writes' = Append(writes, c) /\ UNCHANGED <<stored, loaded, views>> /\ ToldLess
    BY <1>1, <2>1, <2>2 DEF Views!Create, Views!Persist, ToldLess
  <2>. QED
    BY <2>3, <2>4, CallSent
<1>2. ASSUME Views!Update PROVE ViewsInv'
  <2>1. PICK c : c = [op |-> "update", id |-> active, next |-> [views EXCEPT ![active].cond = cond]]
    OBVIOUS
  <2>2. active \in DOMAIN views
    BY <1>2 DEF Views!Update, Views!Active
  <2>3. Pending(c, stored)
    BY <1>0, <1>2, <2>1, <2>2 DEF Pending, Alone, Views!Update, Views!At
  <2>4. Views!Ready /\ writes' = Append(writes, c) /\ UNCHANGED <<stored, loaded, views>> /\ ToldLess
    BY <1>2, <2>1 DEF Views!Update, Views!Persist, ToldLess
  <2>. QED
    BY <2>3, <2>4, CallSent
<1>3. ASSUME Views!Delete PROVE ViewsInv'
  <2>1. PICK c : c = [op |-> IF startup = active THEN "delete_startup" ELSE "delete",
                      id |-> active, next |-> Views!Without(views, active)]
    OBVIOUS
  <2>2. Pending(c, stored)
    <3>1. c.id = active /\ c.op \notin {"create", "update"} /\ c.next = Views!Without(stored, active)
      BY <1>0, <1>3, <2>1 DEF Views!Delete
    <3>. QED
      BY <3>1, WithoutOne DEF Pending, Alone
  <2>3. Views!Ready /\ writes' = Append(writes, c) /\ UNCHANGED <<stored, loaded, views>>
    BY <1>3, <2>1 DEF Views!Delete, Views!Persist
  <2>4. ToldLess
    <3>1. told' = Views!Without(told, active)
      BY <1>3 DEF Views!Delete
    <3>. QED
      BY <3>1, WithoutOne DEF ToldLess
  <2>. QED
    BY <2>2, <2>3, <2>4, CallSent
<1>4. ASSUME Views!ToggleStartup PROVE ViewsInv'
  <2>1. PICK c : c = [op |-> "startup", id |-> IF startup = active THEN None ELSE active, next |-> Views!NoViews]
    OBVIOUS
  <2>2. Pending(c, stored)
    BY <2>1 DEF Pending
  <2>3. Views!Ready /\ writes' = Append(writes, c) /\ UNCHANGED <<stored, loaded, views>> /\ ToldLess
    BY <1>4, <2>1 DEF Views!ToggleStartup, ToldLess
  <2>. QED
    BY <2>2, <2>3, CallSent
<1>5. ASSUME Views!Answer PROVE ViewsInv'
  <2>1. PICK c : writes = <<c>> /\ Pending(c, stored) /\ (~loaded => c.op = "load")
    BY <1>5 DEF Views!Answer, ViewsInv, OneCallAtMost
  <2>2. Views!Head1 = c /\ Tail(writes) = <<>>
    BY <2>1, OneCall DEF Views!Head1
  <2>3. ASSUME Views!Answered, loaded' PROVE OneCallAtMost'
    BY <2>2, <2>3 DEF Views!Answered, OneCallAtMost
  <2>4. CASE Views!ReadStored
    BY <2>3, <2>4 DEF Views!ReadStored, ViewsInv, Views!AnswersAreKept, Views!At
  <2>5. CASE Views!ReadFails
    BY <2>5 DEF Views!ReadFails
  <2>6. CASE Views!WriteViews
    <3>1. loaded /\ loaded' /\ stored' = c.next /\ views' = c.next
      BY <2>1, <2>2, <2>6 DEF Views!WriteViews
    <3>2. c.id \in DOMAIN c.next /\ Alone(c, stored)
      BY <2>1, <2>2, <2>6 DEF Views!WriteViews, Pending
    <3>3. told' = Views!With(told, c.id, c.next[c.id])
      BY <2>2, <2>6 DEF Views!WriteViews
    <3>4. ASSUME NEW i \in DOMAIN told' PROVE Views!At(stored', i) = told'[i]
      <4>1. CASE i = c.id
        BY <3>1, <3>2, <3>3, <4>1, WithOne DEF Views!At
      <4>2. CASE i # c.id
        <5>1. i \in DOMAIN told /\ told'[i] = told[i]
          BY <3>3, <4>2, WithOne
        <5>. QED
          BY <3>1, <3>2, <4>2, <5>1 DEF Alone, ViewsInv, Views!AnswersAreKept
      <4>. QED
        BY <4>1, <4>2
    <3>. QED
      BY <2>3, <2>6, <3>1, <3>4 DEF ViewsInv, Views!AnswersAreKept, Views!WriteViews, Views!At
  <2>7. CASE Views!WriteDeleted
    <3>1. loaded /\ loaded' /\ stored' = c.next /\ views' = c.next
      BY <2>1, <2>2, <2>7 DEF Views!WriteDeleted
    <3>2. c.id \notin DOMAIN c.next /\ Alone(c, stored)
      BY <2>1, <2>2, <2>7 DEF Views!WriteDeleted, Pending
    <3>3. told' = Views!With(told, c.id, None)
      BY <2>2, <2>7 DEF Views!WriteDeleted
    <3>4. ASSUME NEW i \in DOMAIN told' PROVE Views!At(stored', i) = told'[i]
      <4>1. CASE i = c.id
        BY <3>1, <3>2, <3>3, <4>1, WithOne DEF Views!At
      <4>2. CASE i # c.id
        <5>1. i \in DOMAIN told /\ told'[i] = told[i]
          BY <3>3, <4>2, WithOne
        <5>. QED
          BY <3>1, <3>2, <4>2, <5>1 DEF Alone, ViewsInv, Views!AnswersAreKept
      <4>. QED
        BY <4>1, <4>2
    <3>5. OneCallAtMost'
      <4>1. CASE c.op = "delete_startup"
        <5>1. PICK d : d = [op |-> "unstar", id |-> c.id, next |-> Views!NoViews]
          OBVIOUS
        <5>2. writes' = <<d>>
          BY <2>1, <2>2, <2>7, <4>1, <5>1, OneCall DEF Views!WriteDeleted
        <5>3. Pending(d, stored')
          BY <5>1 DEF Pending
        <5>. QED
          BY <3>1, <5>2, <5>3 DEF OneCallAtMost
      <4>2. CASE c.op # "delete_startup"
        BY <2>2, <2>3, <2>7, <3>1, <4>2 DEF Views!WriteDeleted
      <4>. QED
        BY <4>1, <4>2
    <3>. QED
      BY <3>1, <3>4, <3>5 DEF ViewsInv, Views!AnswersAreKept, Views!At
  <2>8. CASE Views!WriteStartup
    BY <2>1, <2>2, <2>3, <2>8 DEF Views!WriteStartup, ViewsInv, Views!AnswersAreKept, Views!At
  <2>9. CASE Views!WriteFails
    BY <2>1, <2>2, <2>3, <2>9 DEF Views!WriteFails, ViewsInv, Views!AnswersAreKept, Views!At
  <2>. QED
    BY <1>5, <2>4, <2>5, <2>6, <2>7, <2>8, <2>9 DEF Views!Answer
<1>6. ASSUME UNCHANGED <<stored, views, loaded, writes, told>> PROVE ViewsInv'
  BY <1>6 DEF ViewsInv, OneCallAtMost, Views!AnswersAreKept, Views!At
<1>7. ASSUME Views!Restart PROVE ViewsInv'
  <2>1. PICK c : c = [op |-> "load", id |-> None, next |-> Views!NoViews]
    OBVIOUS
  <2>2. writes' = <<c>> /\ Pending(c, stored') /\ c.op = "load"
    BY <1>7, <2>1 DEF Views!Restart, Pending
  <2>. QED
    BY <1>7, <2>2 DEF Views!Restart, ViewsInv, OneCallAtMost, Views!AnswersAreKept, Views!At
<1>. QED
  BY <1>1, <1>2, <1>3, <1>4, <1>5, <1>6, <1>7
     DEF Views!Next, Views!Apply, Views!ResetToAll, Views!Change

(* What the types say, of identifiers that were given out.                 *)
SomeViews(f, u) ==
  /\ f \in Views!Lists /\ DOMAIN f \subseteq u
  /\ IsFiniteSet(DOMAIN f) /\ Cardinality(DOMAIN f) \in 0..MaxViews

TypedCall(c, u) ==
  /\ c.op \in Views!Op /\ SomeViews(c.next, u)
  /\ c.op \in {"create", "update", "delete", "delete_startup"} => c.id \in u
  /\ c.op = "startup" => c.id \in ViewId \cup {None}

ViewsTyped ==
  /\ SomeViews(stored, used) /\ SomeViews(views, used)
  /\ {storedStartup, startup, active, wish} \subseteq ViewId \cup {None}
  /\ cond \in Cond /\ loaded \in BOOLEAN /\ edited \in BOOLEAN
  /\ used \subseteq ViewId /\ DOMAIN told \subseteq used
  /\ writes = <<>> \/ \E c : writes = <<c>> /\ TypedCall(c, used)

(* What is assumed of the constants.                                       *)
LEMMA ViewsConstants == All \in Cond /\ None \notin ViewId \cup Cond /\ MaxViews \in Nat
BY ScreensAssumption DEF Views!SavedViewsAssumption

(* Lists of views: the functions on some of the identifiers.               *)
LEMMA AList == ASSUME NEW f PROVE f \in Views!Lists <=> DOMAIN f \subseteq ViewId /\ f \in [DOMAIN f -> Views!View]
BY DEF Views!Lists

(* No views are such views.                                                *)
LEMMA NoSavedViews == ASSUME NEW u PROVE SomeViews(Views!NoViews, u)
<1>1. DOMAIN Views!NoViews = {} /\ Views!NoViews \in [{} -> Views!View]
  BY DEF Views!NoViews
<1>2. Views!NoViews \in Views!Lists
  BY <1>1, AList
<1>. QED
  BY <1>1, <1>2, FS_EmptySet, ViewsConstants DEF SomeViews

(* One more view, if there is room for it.                                 *)
LEMMA AddedView ==
  ASSUME NEW u, NEW f, SomeViews(f, u), Cardinality(DOMAIN f) < MaxViews,
         NEW i \in ViewId, NEW v \in Views!View
  PROVE  SomeViews(Views!With(f, i, v), u \cup {i})
<1>. DEFINE g == Views!With(f, i, v)
<1>1. g = [j \in DOMAIN f \cup {i} |-> IF j = i THEN v ELSE f[j]] /\ DOMAIN g = DOMAIN f \cup {i}
  BY DEF Views!With
<1>2. DOMAIN f \subseteq ViewId /\ \A j \in DOMAIN f : f[j] \in Views!View
  BY AList DEF SomeViews
<1>3. g \in Views!Lists
  <2>1. g \in [DOMAIN g -> Views!View]
    BY <1>1, <1>2
  <2>. HIDE DEF g
  <2>. QED  BY <1>1, <1>2, <2>1, AList
<1>4. IsFiniteSet(DOMAIN f \cup {i}) /\ Cardinality(DOMAIN f \cup {i}) \in 0..MaxViews
  <2>1. IsFiniteSet(DOMAIN f) /\ Cardinality(DOMAIN f) \in Nat
    BY FS_CardinalityType DEF SomeViews
  <2>. QED  BY <2>1, FS_AddElement, ViewsConstants
<1>. HIDE DEF g
<1>5. DOMAIN g \subseteq u \cup {i}
  BY <1>1 DEF SomeViews
<1>6. SomeViews(g, u \cup {i})
  BY <1>1, <1>3, <1>4, <1>5 DEF SomeViews
<1>. QED  BY <1>6 DEF g

(* One view changed.                                                       *)
LEMMA ChangedView ==
  ASSUME NEW u, NEW f, SomeViews(f, u), NEW i \in DOMAIN f, NEW c \in Cond
  PROVE  SomeViews([f EXCEPT ![i].cond = c], u)
<1>. DEFINE g == [f EXCEPT ![i].cond = c]
<1>1. DOMAIN g = DOMAIN f
  OBVIOUS
<1>2. DOMAIN f \subseteq ViewId /\ f \in [DOMAIN f -> Views!View]
  BY AList DEF SomeViews
<1>3. g \in [DOMAIN f -> Views!View]
  BY <1>2 DEF Views!View
<1>. HIDE DEF g
<1>4. g \in Views!Lists
  BY <1>1, <1>2, <1>3, AList
<1>5. SomeViews(g, u)
  BY <1>1, <1>4 DEF SomeViews
<1>. QED  BY <1>5 DEF g

(* One view less.                                                          *)
LEMMA RemovedView ==
  ASSUME NEW u, NEW f, SomeViews(f, u), NEW i
  PROVE  SomeViews(Views!Without(f, i), u)
<1>. DEFINE g == Views!Without(f, i)
<1>1. g = [j \in DOMAIN f \ {i} |-> f[j]] /\ DOMAIN g = DOMAIN f \ {i}
  BY DEF Views!Without, Views!Restrict
<1>2. DOMAIN f \subseteq ViewId /\ f \in [DOMAIN f -> Views!View]
  BY AList DEF SomeViews
<1>3. g \in [DOMAIN g -> Views!View]
  BY <1>1, <1>2
<1>4. IsFiniteSet(DOMAIN f \ {i}) /\ Cardinality(DOMAIN f \ {i}) \in 0..MaxViews
  <2>1. IsFiniteSet(DOMAIN f) /\ Cardinality(DOMAIN f) \in 0..MaxViews
    BY DEF SomeViews
  <2>2. IsFiniteSet(DOMAIN f \ {i}) /\ Cardinality(DOMAIN f \ {i}) <= Cardinality(DOMAIN f)
    <3>1. DOMAIN f \ {i} \subseteq DOMAIN f
      OBVIOUS
    <3>. QED  BY <2>1, <3>1, FS_Subset
  <2>3. Cardinality(DOMAIN f) \in Nat /\ Cardinality(DOMAIN f \ {i}) \in Nat
    BY <2>1, <2>2, FS_CardinalityType
  <2>. QED  BY <2>1, <2>2, <2>3, ViewsConstants
<1>. HIDE DEF g
<1>5. g \in Views!Lists
  BY <1>1, <1>2, <1>3, AList
<1>6. SomeViews(g, u)
  BY <1>1, <1>4, <1>5 DEF SomeViews
<1>. QED  BY <1>6 DEF g

(* Nothing is stored at the start.                                         *)
LEMMA ViewsTypedInit == Views!Init => ViewsTyped
<1>. SUFFICES ASSUME Views!Init PROVE ViewsTyped
  OBVIOUS
<1>1. PICK c : c = [op |-> "load", id |-> None, next |-> Views!NoViews]
  OBVIOUS
<1>2. writes = <<c>> /\ TypedCall(c, used)
  BY <1>1, NoSavedViews DEF Views!Init, TypedCall, Views!Op
<1>3. SomeViews(stored, used) /\ SomeViews(views, used)
  BY NoSavedViews DEF Views!Init
<1>4. cond \in Cond /\ DOMAIN told = {} /\ used = {} /\ loaded = FALSE /\ edited = FALSE
      /\ storedStartup = None /\ startup = None /\ active = None /\ wish = None
  BY ViewsConstants DEF Views!Init, Views!NoViews
<1>. QED
  BY <1>2, <1>3, <1>4 DEF ViewsTyped

(* Identifiers given out make no difference to what was typed.             *)
LEMMA MoreIdentifiers ==
  ASSUME NEW f, NEW u, SomeViews(f, u), NEW w, u \subseteq w
  PROVE  SomeViews(f, w)
BY DEF SomeViews

(* The sizes that the model compares.                                      *)
LEMMA SavedViewSizes == \A S : Views!Cardinality(S) = Cardinality(S)
BY DEF Views!Cardinality, Cardinality, Views!IsFiniteSet, IsFiniteSet

(* A call for the list of a moment at which none is under way.             *)
LEMMA TypedCallSent ==
  ASSUME ViewsTyped, NEW c, writes = <<>>, writes' = Append(writes, c), TypedCall(c, used'),
         used' \subseteq ViewId, used \subseteq used', DOMAIN told' \subseteq DOMAIN told,
         UNCHANGED <<stored, storedStartup, views, startup, loaded, cond, active, wish, edited>>
  PROVE  ViewsTyped'
<1>1. writes' = <<c>>
  BY OneCall
<1>2. SomeViews(stored, used') /\ SomeViews(views, used')
  BY MoreIdentifiers DEF ViewsTyped
<1>. QED
  BY <1>1, <1>2 DEF ViewsTyped

(* Every step keeps the types.                                             *)
LEMMA ViewsTypedStep ==
  ASSUME ViewsInv, ViewsTyped, Views!Next
  PROVE  ViewsTyped'
<1>0. /\ Views!Ready => writes = <<>>
      /\ SomeViews(stored, used) /\ SomeViews(views, used) /\ used \subseteq ViewId /\ cond \in Cond
  BY OneCall DEF ViewsInv, OneCallAtMost, Views!Ready, ViewsTyped
<1>1. ASSUME NEW name \in ViewName, Views!Create(name) PROVE ViewsTyped'
  <2>1. PICK id \in ViewId \ used :
          /\ used' = used \cup {id}
          /\ Views!Persist("create", id, Views!With(views, id, [name |-> name, cond |-> cond]))
    BY <1>1 DEF Views!Create
  <2>2. PICK v, c : v = [name |-> name, cond |-> cond] /\ c = [op |-> "create", id |-> id, next |-> Views!With(views, id, v)]
    OBVIOUS
  <2>3. v \in Views!View /\ Cardinality(DOMAIN views) < MaxViews
    BY <1>0, <1>1, <2>2, SavedViewSizes DEF Views!View, Views!Create
  <2>4. SomeViews(Views!With(views, id, v), used \cup {id})
    BY <1>0, <2>3, AddedView
  <2>5. TypedCall(c, used')
    BY <2>1, <2>2, <2>4 DEF TypedCall, Views!Op
  <2>6. /\ Views!Ready /\ writes' = Append(writes, c) /\ told' = told
        /\ UNCHANGED <<stored, storedStartup, views, startup, loaded, cond, active, wish, edited>>
    BY <1>1, <2>1, <2>2 DEF Views!Create, Views!Persist
  <2>. QED
    BY <1>0, <2>1, <2>5, <2>6, TypedCallSent
<1>2. ASSUME Views!Update PROVE ViewsTyped'
  <2>1. PICK next, c : next = [views EXCEPT ![active].cond = cond] /\ c = [op |-> "update", id |-> active, next |-> next]
    OBVIOUS
  <2>2. active \in DOMAIN views /\ active \in used
    BY <1>0, <1>2 DEF Views!Update, Views!Active, SomeViews
  <2>3. SomeViews(next, used)
    BY <1>0, <2>1, <2>2, ChangedView
  <2>4. TypedCall(c, used)
    BY <2>1, <2>2, <2>3 DEF TypedCall, Views!Op
  <2>5. /\ Views!Ready /\ writes' = Append(writes, c) /\ told' = told /\ used' = used
        /\ UNCHANGED <<stored, storedStartup, views, startup, loaded, cond, active, wish, edited>>
    BY <1>2, <2>1 DEF Views!Update, Views!Persist
  <2>. QED
    BY <1>0, <2>4, <2>5, TypedCallSent
<1>3. ASSUME Views!Delete PROVE ViewsTyped'
  <2>1. PICK next, c : /\ next = Views!Without(views, active)
                       /\ c = [op |-> IF startup = active THEN "delete_startup" ELSE "delete",
                               id |-> active, next |-> next]
    OBVIOUS
  <2>2. active \in DOMAIN views /\ active \in used
    BY <1>0, <1>3 DEF Views!Delete, Views!Active, SomeViews
  <2>3. SomeViews(next, used)
    BY <1>0, <2>1, RemovedView
  <2>4. TypedCall(c, used)
    BY <2>1, <2>2, <2>3 DEF TypedCall, Views!Op
  <2>5. /\ Views!Ready /\ writes' = Append(writes, c) /\ told' = Views!Without(told, active) /\ used' = used
        /\ UNCHANGED <<stored, storedStartup, views, startup, loaded, cond, active, wish, edited>>
    BY <1>3, <2>1 DEF Views!Delete, Views!Persist
  <2>6. DOMAIN told' \subseteq DOMAIN told
    BY <2>5, WithoutOne
  <2>. QED
    BY <1>0, <2>4, <2>5, <2>6, TypedCallSent
<1>4. ASSUME Views!ToggleStartup PROVE ViewsTyped'
  <2>1. PICK c : c = [op |-> "startup", id |-> IF startup = active THEN None ELSE active, next |-> Views!NoViews]
    OBVIOUS
  <2>2. c.op = "startup" /\ c.id \in ViewId \cup {None} /\ c.next = Views!NoViews
    BY <2>1 DEF ViewsTyped
  <2>3. TypedCall(c, used)
    BY <2>2, NoSavedViews DEF TypedCall, Views!Op
  <2>4. /\ Views!Ready /\ writes' = Append(writes, c) /\ told' = told /\ used' = used
        /\ UNCHANGED <<stored, storedStartup, views, startup, loaded, cond, active, wish, edited>>
    BY <1>4, <2>1 DEF Views!ToggleStartup
  <2>. QED
    BY <1>0, <2>3, <2>4, TypedCallSent
<1>5. ASSUME Views!Answer PROVE ViewsTyped'
  <2>1. PICK c : writes = <<c>> /\ TypedCall(c, used)
    BY <1>5 DEF Views!Answer, ViewsTyped
  <2>2. Views!Head1 = c /\ Tail(writes) = <<>>
    BY <2>1, OneCall DEF Views!Head1
  <2>3. CASE Views!ReadStored
    <3>1. startup' \in ViewId \cup {None}
      BY <1>0, <2>3 DEF Views!ReadStored, SomeViews
    <3>2. cond' \in Cond /\ active' \in ViewId \cup {None} /\ edited' \in BOOLEAN
      <4>1. CASE startup' = None
        BY <2>3, <4>1 DEF Views!ReadStored, ViewsTyped
      <4>2. CASE startup' # None
        <5>1. startup' \in DOMAIN stored /\ cond' = stored[startup'].cond /\ active' = startup' /\ edited' = FALSE
          BY <2>3, <4>2 DEF Views!ReadStored
        <5>2. stored \in [DOMAIN stored -> Views!View]
          BY <1>0, AList DEF SomeViews
        <5>. QED
          BY <3>1, <5>1, <5>2 DEF Views!View
      <4>. QED
        BY <4>1, <4>2
    <3>3. writes' = <<>> /\ views' = stored /\ loaded' = TRUE /\ UNCHANGED <<stored, storedStartup, used, told, wish>>
      BY <2>2, <2>3 DEF Views!ReadStored, Views!Answered
    <3>. QED
      BY <3>1, <3>2, <3>3 DEF ViewsTyped
  <2>4. CASE Views!ReadFails \/ Views!WriteFails
    <3>1. writes' = <<>> /\ loaded' \in BOOLEAN
      BY <2>2, <2>4 DEF Views!ReadFails, Views!WriteFails, Views!Answered, ViewsTyped
    <3>2. UNCHANGED <<stored, storedStartup, views, startup, cond, active, used, told, wish, edited>>
      BY <2>4 DEF Views!ReadFails, Views!WriteFails
    <3>. QED
      BY <3>1, <3>2 DEF ViewsTyped
  <2>5. CASE Views!WriteViews
    <3>1. c.id \in used /\ SomeViews(c.next, used)
      BY <2>1, <2>2, <2>5 DEF Views!WriteViews, TypedCall
    <3>2. /\ writes' = <<>> /\ stored' = c.next /\ views' = c.next
          /\ told' = Views!With(told, c.id, c.next[c.id]) /\ (active' = c.id \/ active' = active)
          /\ edited' \in BOOLEAN /\ UNCHANGED <<storedStartup, startup, loaded, cond, used, wish>>
      BY <2>2, <2>5 DEF Views!WriteViews, Views!Answered
    <3>3. DOMAIN told' \subseteq used
      BY <3>1, <3>2 DEF Views!With, ViewsTyped
    <3>. QED
      BY <1>0, <3>1, <3>2, <3>3 DEF ViewsTyped
  <2>6. CASE Views!WriteDeleted
    <3>1. c.id \in used /\ SomeViews(c.next, used)
      BY <2>1, <2>2, <2>6 DEF Views!WriteDeleted, TypedCall
    <3>2. /\ stored' = c.next /\ views' = c.next /\ told' = Views!With(told, c.id, None)
          /\ (active' = None \/ active' = active)
          /\ UNCHANGED <<cond, edited, storedStartup, startup, loaded, used, wish>>
      BY <2>2, <2>6 DEF Views!WriteDeleted
    <3>3. DOMAIN told' \subseteq used
      BY <3>1, <3>2 DEF Views!With, ViewsTyped
    <3>4. writes' = <<>> \/ \E d : writes' = <<d>> /\ TypedCall(d, used)
      <4>1. PICK d : d = [op |-> "unstar", id |-> c.id, next |-> Views!NoViews]
        OBVIOUS
      <4>2. TypedCall(d, used)
        BY <4>1, NoSavedViews DEF TypedCall, Views!Op
      <4>3. writes' = <<>> \/ writes' = <<d>>
        BY <2>1, <2>2, <2>6, <4>1, OneCall DEF Views!WriteDeleted, Views!Answered
      <4>. QED
        BY <4>2, <4>3
    <3>. QED
      BY <1>0, <3>1, <3>2, <3>3, <3>4 DEF ViewsTyped
  <2>7. CASE Views!WriteStartup
    <3>1. c.op = "startup" => c.id \in ViewId \cup {None}
      BY <2>1 DEF TypedCall
    <3>2. /\ writes' = <<>> /\ UNCHANGED <<stored, views, loaded, cond, used, told, edited>>
          /\ storedStartup' \in {None, c.id} /\ startup' = storedStartup'
          /\ wish' \in {None, c.id, wish} /\ active' \in {None, active}
          /\ (c.op # "startup" => storedStartup' = None /\ wish' \in {None, wish})
      BY <2>2, <2>7 DEF Views!WriteStartup, Views!Answered
    <3>. QED
      BY <1>0, <3>1, <3>2 DEF ViewsTyped
  <2>. QED
    BY <1>5, <2>3, <2>4, <2>5, <2>6, <2>7 DEF Views!Answer
<1>6. ASSUME NEW id \in ViewId, Views!Apply(id) PROVE ViewsTyped'
  <2>1. views \in [DOMAIN views -> Views!View]
    BY <1>0, AList DEF SomeViews
  <2>2. /\ cond' = views[id].cond /\ id \in DOMAIN views /\ active' = id /\ edited' = FALSE
        /\ UNCHANGED <<stored, storedStartup, views, startup, loaded, writes, used, told, wish>>
    BY <1>6 DEF Views!Apply
  <2>3. cond' \in Cond
    BY <2>1, <2>2 DEF Views!View
  <2>. QED
    BY <2>2, <2>3 DEF ViewsTyped
<1>7. CASE Views!ResetToAll
  BY <1>7, ViewsConstants DEF Views!ResetToAll, ViewsTyped
<1>8. CASE Views!Change
  BY <1>8 DEF Views!Change, ViewsTyped
<1>9. CASE Views!Restart
  <2>1. PICK c : c = [op |-> "load", id |-> None, next |-> Views!NoViews]
    OBVIOUS
  <2>2. TypedCall(c, used)
    BY <2>1, NoSavedViews DEF TypedCall, Views!Op
  <2>3. /\ writes' = <<c>> /\ views' = Views!NoViews /\ startup' = None /\ loaded' = FALSE
        /\ cond' = All /\ active' = None /\ edited' = FALSE
        /\ UNCHANGED <<stored, storedStartup, used, told, wish>>
    BY <1>9, <2>1 DEF Views!Restart
  <2>. QED
    BY <1>0, <2>2, <2>3, NoSavedViews, ViewsConstants DEF ViewsTyped
<1>. QED
  BY <1>1, <1>2, <1>3, <1>4, <1>5, <1>6, <1>7, <1>8, <1>9 DEF Views!Next

(* These are the types of the saved views.                                 *)
LEMMA ViewsTypes == ViewsTyped => Views!TypeOK
<1>. SUFFICES ASSUME ViewsTyped PROVE Views!TypeOK
  OBVIOUS
<1>1. Cardinality(DOMAIN stored) \in 0..MaxViews /\ stored \in Views!Lists /\ views \in Views!Lists
  BY DEF ViewsTyped, SomeViews
<1>2. Views!Cardinality(DOMAIN stored) <= MaxViews
  BY <1>1, SavedViewSizes, ViewsConstants
<1>3. \A k \in 1..Len(writes) : writes[k].op \in Views!Op /\ writes[k].next \in Views!Lists
  <2>1. CASE writes = <<>>
    BY <2>1
  <2>2. ASSUME NEW c, writes = <<c>>, TypedCall(c, used)
        PROVE  \A k \in 1..Len(writes) : writes[k].op \in Views!Op /\ writes[k].next \in Views!Lists
    <3>1. \A k \in 1..Len(writes) : writes[k] = c
      BY <2>2
    <3>. QED
      BY <2>2, <3>1 DEF TypedCall, SomeViews
  <2>. QED
    BY <2>1, <2>2 DEF ViewsTyped
<1>. QED
  BY <1>1, <1>2, <1>3 DEF ViewsTyped, Views!TypeOK

-----------------------------------------------------------------------------
(*                        The conditions of the list                       *)

(* A set of numbers has a least one.                                       *)
LEMMA LeastNumber ==
  ASSUME NEW S, S \subseteq Nat, S # {}
  PROVE  \E x \in S : \A y \in S : x =< y
<1>. DEFINE R == {p \in Nat \X Nat : p[1] < p[2]}
<1>1. R = OpToRel(<, Nat)
  BY DEF OpToRel
<1>2. IsWellFoundedOn(R, Nat)
  BY <1>1, NatLessThanWellFounded
<1>. HIDE DEF R
<1>3. PICK x \in S : \A y \in S : ~(<<y, x>> \in R)
  BY <1>2, WFMin
<1>4. ASSUME NEW y \in S PROVE x =< y
  <2>1. <<y, x>> \notin R /\ x \in Nat /\ y \in Nat
    BY <1>3
  <2>. QED
    BY <2>1 DEF R
<1>. QED
  BY <1>4

(* Conditions with their six dimensions, of which the platforms are texts. *)
Conditions(q) ==
  /\ DOMAIN q = {"search", "media", "regions", "platforms", "lock", "year"}
  /\ q.platforms \subseteq Query!Text

QueryInv == lib \in Seq(Pool) /\ Conditions(query)

(* At the start no condition is set.                                       *)
LEMMA QueryInit == Query!Init => QueryInv
BY DEF Query!Init, QueryInv, Conditions, Query!Empty

(* Normalising drops conditions and sets none.                             *)
LEMMA NormalConditions ==
  ASSUME NEW q, Conditions(q)
  PROVE  Conditions(Query!Normalize(q))
BY DEF Conditions, Query!Normalize

(* Every step keeps the library and the conditions typed.                  *)
LEMMA QueryStep ==
  ASSUME QueryInv, Query!Next
  PROVE  QueryInv'
<1>0. lib \in Seq(Pool) /\ Conditions(query)
  BY DEF QueryInv
<1>1. ASSUME NEW q, Conditions(q), query' = q \/ query' = Query!Normalize(q), lib' = lib
      PROVE  QueryInv'
  BY <1>0, <1>1, NormalConditions DEF QueryInv
<1>2. ASSUME NEW q \in Query!Stored, Query!ApplyStored(q) PROVE QueryInv'
  <2>1. Conditions(q)
    BY DEF Query!Stored, Conditions
  <2>. QED
    BY <1>1, <1>2, <2>1 DEF Query!ApplyStored
<1>3. CASE Query!LibraryChanges
  <2>1. ASSUME NEW r \in Pool, lib' = <<r>> \o lib PROVE lib' \in Seq(Pool)
    BY <1>0, <2>1
  <2>2. ASSUME NEW i \in 1..Len(lib), lib' = SubSeq(lib, 1, i - 1) \o SubSeq(lib, i + 1, Len(lib))
        PROVE  lib' \in Seq(Pool)
    <3>1. SubSeq(lib, 1, i - 1) \in Seq(Pool) /\ SubSeq(lib, i + 1, Len(lib)) \in Seq(Pool)
      BY <1>0
    <3>. QED
      BY <2>2, <3>1
  <2>. QED
    BY <1>0, <1>3, <2>1, <2>2 DEF Query!LibraryChanges, QueryInv
<1>4. CASE Query!Search
  <2>1. PICK w : query' = [query EXCEPT !.search = w] /\ lib' = lib
    BY <1>4 DEF Query!Search, Query!Edited
  <2>2. Conditions([query EXCEPT !.search = w])
    BY <1>0 DEF Conditions
  <2>. QED
    BY <1>1, <2>1, <2>2
<1>5. ASSUME NEW m \in Media, Query!SelectMedia(m) PROVE QueryInv'
  <2>1. PICK v : query' = [query EXCEPT !.media = v] /\ lib' = lib
    BY <1>5 DEF Query!SelectMedia, Query!Edited
  <2>2. Conditions([query EXCEPT !.media = v])
    BY <1>0 DEF Conditions
  <2>. QED
    BY <1>1, <2>1, <2>2
<1>6. ASSUME NEW c \in Code, Query!SelectRegion(c) PROVE QueryInv'
  <2>1. PICK v : query' = [query EXCEPT !.regions = v] /\ lib' = lib
    BY <1>6 DEF Query!SelectRegion, Query!Edited
  <2>2. Conditions([query EXCEPT !.regions = v])
    BY <1>0 DEF Conditions
  <2>. QED
    BY <1>1, <2>1, <2>2
<1>7. CASE Query!CycleLock
  <2>1. PICK v : query' = [query EXCEPT !.lock = v] /\ lib' = lib
    BY <1>7 DEF Query!CycleLock, Query!Edited
  <2>2. Conditions([query EXCEPT !.lock = v])
    BY <1>0 DEF Conditions
  <2>. QED
    BY <1>1, <2>1, <2>2
<1>8. ASSUME NEW t \in Query!Text, Query!Toggle(t) PROVE QueryInv'
  <2>1. PICK v : v \subseteq query.platforms \cup {t} /\ lib' = lib
                 /\ query' = Query!Normalize([query EXCEPT !.platforms = v])
    BY <1>8 DEF Query!Toggle, Query!Panel, Query!Edited
  <2>2. Conditions([query EXCEPT !.platforms = v])
    BY <1>0, <2>1 DEF Conditions
  <2>. QED
    BY <1>1, <2>1, <2>2
<1>9. ASSUME NEW v, query' = Query!Normalize([query EXCEPT !.year = v]), lib' = lib PROVE QueryInv'
  <2>1. Conditions([query EXCEPT !.year = v])
    BY <1>0 DEF Conditions
  <2>. QED
    BY <1>1, <1>9, <2>1
<1>10. ASSUME NEW d \in Digit, Query!TypeDigit(d) PROVE QueryInv'
  <2>1. PICK n : query' = Query!Normalize([query EXCEPT !.year.min = n]) /\ lib' = lib
    BY <1>10 DEF Query!TypeDigit, Query!Panel, Query!Edited
  <2>2. [query EXCEPT !.year.min = n] = [query EXCEPT !.year = [@ EXCEPT !.min = n]]
    OBVIOUS
  <2>. QED
    BY <1>9, <2>1, <2>2
<1>11. ASSUME NEW end \in {"min", "max"}, Query!EmptyField(end) PROVE QueryInv'
  <2>1. query' = Query!Normalize([query EXCEPT !.year[end] = None]) /\ lib' = lib
    BY <1>11 DEF Query!EmptyField, Query!Panel, Query!Edited
  <2>2. [query EXCEPT !.year[end] = None] = [query EXCEPT !.year = [@ EXCEPT ![end] = None]]
    OBVIOUS
  <2>. QED
    BY <1>9, <2>1, <2>2
<1>12. ASSUME NEW y \in Lower..Upper, Query!PasteMax(y) PROVE QueryInv'
  <2>1. query' = Query!Normalize([query EXCEPT !.year.max = y]) /\ lib' = lib
    BY <1>12 DEF Query!PasteMax, Query!Panel, Query!Edited
  <2>2. [query EXCEPT !.year.max = y] = [query EXCEPT !.year = [@ EXCEPT !.max = y]]
    OBVIOUS
  <2>. QED
    BY <1>9, <2>1, <2>2
<1>13. ASSUME NEW d \in Query!Dims, Query!ClearDimension(d) PROVE QueryInv'
  <2>1. Conditions([query EXCEPT ![d] = Query!Empty[d]])
    BY <1>0 DEF Conditions, Query!Empty, Query!Dims
  <2>. QED
    BY <1>1, <1>13, <2>1 DEF Query!ClearDimension, Query!Panel, Query!Edited
<1>14. CASE Query!ClearAdvanced
  <2>1. Conditions([d \in Query!Dims |-> IF d \in Query!Advanced THEN Query!Empty[d] ELSE query[d]])
    BY <1>0 DEF Conditions, Query!Empty, Query!Dims, Query!Advanced
  <2>. QED
    BY <1>1, <1>14, <2>1 DEF Query!ClearAdvanced, Query!Panel, Query!Edited
<1>15. CASE Query!ResetConditions
  <2>1. Conditions(Query!Empty)
    BY DEF Conditions, Query!Empty
  <2>. QED
    BY <1>1, <1>15, <2>1 DEF Query!ResetConditions, Query!Edited
<1>. QED
  BY <1>2, <1>3, <1>4, <1>5, <1>6, <1>7, <1>8, <1>10, <1>11, <1>12, <1>13, <1>14, <1>15
     DEF Query!Next

-----------------------------------------------------------------------------
(* The records that have a platform with the key.                          *)
Having(k) == {i \in 1..Len(lib) : lib[i].platform # None /\ lib[i].platform.key = k}
First(k) == CHOOSE i \in Having(k) : \A j \in Having(k) : i <= j

(* The numbers are those of the library's module of finite sets.           *)
LEMMA NoneAtAll == Query!Cardinality({}) = 0
<1>1. Query!Cardinality({}) = Cardinality({})
  BY DEF Query!Cardinality, Cardinality
<1>. QED
  BY <1>1, FS_EmptySet

(* There is an option for each platform that some record has.              *)
LEMMA OptionsByKey ==
  Query!Options = {[text |-> lib[First(k)].platform, count |-> Query!Cardinality(Having(k))]
                     : k \in {l \in Key : Having(l) # {}}}
BY DEF Query!Options, First, Having

(* The record an option takes its wording from has the platform.           *)
LEMMA FirstHas ==
  ASSUME NEW k, Having(k) # {}
  PROVE  First(k) \in Having(k)
<1>1. Having(k) \subseteq Nat
  BY DEF Having
<1>. QED
  BY <1>1, LeastNumber DEF First

(* One platform alone shows the records that have it.                      *)
LEMMA ShownByKey ==
  ASSUME NEW t
  PROVE  Query!Shown(Query!Only("platforms", {t})) = Having(t.key)
<1>. DEFINE q == Query!Normalize(Query!Only("platforms", {t}))
<1>1. /\ q.search = None /\ q.media = {} /\ q.regions = {} /\ q.platforms = {t} /\ q.lock = "all"
      /\ q.year.min = None /\ q.year.max = None
  BY DEF Query!Normalize, Query!Only, Query!Empty, Query!NormalRange, Query!Clamp
<1>. HIDE DEF q
<1>2. ASSUME NEW r PROVE Query!Matches(r, q) <=> r.platform # None /\ r.platform.key = t.key
  BY <1>1 DEF Query!Matches, Query!MatchesAny, Query!MatchesRange
<1>3. Query!Shown(Query!Only("platforms", {t})) = {i \in 1..Len(lib) : Query!Matches(lib[i], q)}
  BY DEF Query!Shown, q
<1>. QED
  BY <1>2, <1>3 DEF Having

(* The options of any library and any conditions count right.              *)
LEMMA QueryTells == QueryInv => Query!CountsAreMatches /\ Query!SelectedKeepsItsButton
<1>. SUFFICES ASSUME QueryInv PROVE Query!CountsAreMatches
  BY DEF Query!SelectedKeepsItsButton, Query!RegionOptions
<1>1. ASSUME NEW o \in Query!Options
      PROVE  o.count = Query!Cardinality(Query!Shown(Query!Only("platforms", {o.text})))
  <2>1. PICK k \in Key : Having(k) # {} /\ o = [text |-> lib[First(k)].platform, count |-> Query!Cardinality(Having(k))]
    BY OptionsByKey
  <2>2. o.text.key = k
    BY <2>1, FirstHas DEF Having
  <2>. QED
    BY <2>1, <2>2, ShownByKey
<1>2. ASSUME NEW t \in query.platforms \ {o.text : o \in Query!Options}
      PROVE  Query!Cardinality(Query!Shown(Query!Only("platforms", {t}))) = 0
  <2>1. t \in Query!Text
    BY <1>2 DEF QueryInv, Conditions
  <2>2. ASSUME Having(t.key) # {} PROVE FALSE
    <3>. DEFINE i == First(t.key)
    <3>1. i \in Having(t.key)
      BY <2>2, FirstHas
    <3>2. lib[i] \in Pool /\ lib[i].platform # None /\ lib[i].platform.key = t.key
      BY <3>1 DEF QueryInv, Having
    <3>3. lib[i].platform \in Query!Text
      BY <3>2, ScreensAssumption DEF Query!WatchlistQueryAssumption, Query!Record
    <3>4. lib[i].platform = t
      BY <2>1, <3>2, <3>3 DEF Query!Text
    <3>5. [text |-> lib[i].platform, count |-> Query!Cardinality(Having(t.key))] \in Query!Options
      BY <2>1, <2>2, OptionsByKey DEF Query!Text
    <3>. QED
      BY <1>2, <3>4, <3>5
  <2>. QED
    BY <2>2, ShownByKey, NoneAtAll
<1>3. ASSUME NEW b \in Query!Buttons
      PROVE  b.count = Query!Cardinality(Query!Shown(Query!Only("platforms", {b.text})))
  BY <1>1, <1>2, <1>3 DEF Query!Buttons
<1>. QED
  BY <1>3 DEF Query!CountsAreMatches

(* A bound of a range as it is typed or pasted.                            *)
Bound == Int \cup {None}

(* Conditions as they are before they are normalised, and afterwards.      *)
ReadConditions(q) ==
  /\ Conditions(q) /\ q.media \subseteq Media \cup FutureMedia /\ q.search \in Word \cup {None}
  /\ Query!OnePerKey(q.platforms)
  /\ DOMAIN q.year = {"min", "max"} /\ q.year.min \in Bound /\ q.year.max \in Bound
Normal(q) ==
  /\ ReadConditions(q) /\ q.regions \subseteq Code /\ q.lock \in {"all", "locked", "unlocked"}
  /\ {q.year.min, q.year.max} \subseteq Lower..Upper \cup {None}

QueryTyped == Len(lib) <= MaxLib /\ Normal(query)

(* What is assumed of the constants.                                       *)
LEMMA QueryConstants == /\ Lower \in Nat /\ Upper \in Nat /\ Lower < Upper
                        /\ MaxLib \in Nat /\ Digit \subseteq 0..9
BY ScreensAssumption DEF Query!WatchlistQueryAssumption

(* A bound brought within the limits, and both in their order.             *)
LEMMA Clamped == ASSUME NEW n \in Bound PROVE Query!Clamp(n) \in Lower..Upper \cup {None}
BY QueryConstants DEF Query!Clamp, Bound

LEMMA NormalRange ==
  ASSUME NEW r, r.min \in Bound, r.max \in Bound, NEW y, y = Query!NormalRange(r)
  PROVE  /\ DOMAIN y = {"min", "max"} /\ {y.min, y.max} \subseteq Lower..Upper \cup {None}
<1>. DEFINE min == Query!Clamp(r.min)
            max == Query!Clamp(r.max)
<1>1. min \in Lower..Upper \cup {None} /\ max \in Lower..Upper \cup {None}
  BY Clamped
<1>2. y = [min |-> max, max |-> min] \/ y = [min |-> min, max |-> max]
  BY DEF Query!NormalRange
<1>. HIDE DEF min, max
<1>. QED
  BY <1>1, <1>2

(* Normalised conditions are normal.                                       *)
LEMMA Normalized ==
  ASSUME NEW q, ReadConditions(q)
  PROVE  Normal(Query!Normalize(q))
<1>. DEFINE n == Query!Normalize(q)
<1>1. Conditions(n)
  BY NormalConditions DEF ReadConditions
<1>2. n.media = q.media /\ n.search = q.search /\ n.platforms = q.platforms
  BY DEF Query!Normalize, ReadConditions, Conditions
<1>3. n.regions = q.regions \cap Code /\ n.lock = (IF q.lock \in {"locked", "unlocked"} THEN q.lock ELSE "all")
  BY DEF Query!Normalize, ReadConditions, Conditions
<1>4. n.year = Query!NormalRange(q.year)
  BY DEF Query!Normalize, ReadConditions, Conditions
<1>. HIDE DEF n
<1>5. DOMAIN n.year = {"min", "max"} /\ {n.year.min, n.year.max} \subseteq Lower..Upper \cup {None}
  BY <1>4, NormalRange DEF ReadConditions
<1>6. n.year.min \in Bound /\ n.year.max \in Bound
  BY <1>5, QueryConstants DEF Bound
<1>7. Normal(n)
  BY <1>1, <1>2, <1>3, <1>5, <1>6 DEF ReadConditions, Normal
<1>. QED
  BY <1>7 DEF n

(* Nothing set is normal.                                                  *)
LEMMA EmptyConditions == Normal(Query!Empty)
<1>1. Conditions(Query!Empty) /\ Query!Empty.media = {} /\ Query!Empty.regions = {} /\ Query!Empty.platforms = {}
      /\ Query!Empty.lock = "all" /\ Query!Empty.search = None
      /\ Query!Empty.year = [min |-> None, max |-> None]
  BY DEF Conditions, Query!Empty
<1>. QED
  BY <1>1 DEF Normal, ReadConditions, Bound, Query!OnePerKey

LEMMA QueryTypedInit == Query!Init => QueryTyped
<1>. SUFFICES ASSUME Query!Init PROVE QueryTyped
  OBVIOUS
<1>1. lib = <<>> /\ query = Query!Empty
  BY DEF Query!Init
<1>. QED
  BY <1>1, EmptyConditions, QueryConstants DEF QueryTyped

(* Every step keeps the types.                                             *)
LEMMA QueryTypedStep ==
  ASSUME QueryInv, QueryTyped, Query!Next
  PROVE  QueryTyped'
<1>0. /\ Normal(query) /\ lib \in Seq(Pool) /\ Len(lib) <= MaxLib
      /\ DOMAIN query = {"search", "media", "regions", "platforms", "lock", "year"}
  BY DEF QueryInv, QueryTyped, Normal, ReadConditions, Conditions
<1>1. ASSUME NEW q, \/ ReadConditions(q) /\ query' = Query!Normalize(q)
                    \/ Normal(q) /\ query' = q,
             lib' = lib
      PROVE  QueryTyped'
  BY <1>0, <1>1, Normalized DEF QueryTyped
<1>2. ASSUME NEW q \in Query!Stored, Query!ApplyStored(q) PROVE QueryTyped'
  <2>1. /\ Conditions(q) /\ q.media \subseteq Media \cup FutureMedia /\ q.search \in Word \cup {None}
        /\ q.platforms = {} /\ q.year = Query!Empty.year
    BY DEF Query!Stored, Conditions
  <2>2. Query!Empty.year = [min |-> None, max |-> None]
    BY DEF Query!Empty
  <2>3. ReadConditions(q)
    BY <2>1, <2>2 DEF ReadConditions, Bound, Query!OnePerKey
  <2>. QED
    BY <1>1, <1>2, <2>3 DEF Query!ApplyStored
<1>3. CASE Query!LibraryChanges
  <2>1. ASSUME NEW r \in Pool, lib' = <<r>> \o lib, Len(lib) < MaxLib PROVE Len(lib') <= MaxLib
    BY <1>0, <2>1, QueryConstants
  <2>2. ASSUME NEW i \in 1..Len(lib), lib' = SubSeq(lib, 1, i - 1) \o SubSeq(lib, i + 1, Len(lib))
        PROVE  Len(lib') <= MaxLib
    <3>1. /\ SubSeq(lib, 1, i - 1) \in Seq(Pool) /\ SubSeq(lib, i + 1, Len(lib)) \in Seq(Pool)
      BY <1>0
    <3>3. Len(SubSeq(lib, 1, i - 1)) = i - 1
      BY <1>0
    <3>4. Len(SubSeq(lib, i + 1, Len(lib))) = Len(lib) - i
      BY <1>0
    <3>2. Len(lib') = Len(SubSeq(lib, 1, i - 1)) + Len(SubSeq(lib, i + 1, Len(lib)))
      BY <2>2, <3>1, ConcatProperties
    <3>. QED
      <4>1. Len(lib') = (i - 1) + (Len(lib) - i)
        BY <3>2, <3>3, <3>4
      <4>2. Len(lib) \in Nat /\ i \in Nat /\ Len(lib) <= MaxLib
        BY <1>0
      <4>. QED
        BY <4>1, <4>2, QueryConstants
  <2>. QED
    BY <1>0, <1>3, <2>1, <2>2 DEF Query!LibraryChanges, QueryTyped
<1>4. CASE Query!Search
  <2>1. PICK w, q : w \in Word \cup {None} /\ q = [query EXCEPT !.search = w] /\ query' = q /\ lib' = lib
    BY <1>4 DEF Query!Search, Query!Edited
  <2>2. /\ DOMAIN q = DOMAIN query /\ q.search = w
        /\ \A f \in DOMAIN query \ {"search"} : q[f] = query[f]
    BY <1>0, <2>1
  <2>3. Normal(q)
    BY <1>0, <2>1, <2>2 DEF Normal, ReadConditions, Conditions
  <2>. QED
    BY <1>1, <2>1, <2>3
<1>5. ASSUME NEW m \in Media, Query!SelectMedia(m) PROVE QueryTyped'
  <2>1. PICK v, q : v \in {{}, {m}} /\ q = [query EXCEPT !.media = v] /\ query' = q /\ lib' = lib
    BY <1>5 DEF Query!SelectMedia, Query!Edited
  <2>2. /\ DOMAIN q = DOMAIN query /\ q.media = v
        /\ \A f \in DOMAIN query \ {"media"} : q[f] = query[f]
    BY <1>0, <2>1
  <2>3. Normal(q)
    BY <1>0, <2>1, <2>2 DEF Normal, ReadConditions, Conditions
  <2>. QED
    BY <1>1, <2>1, <2>3
<1>6. ASSUME NEW c \in Code, Query!SelectRegion(c) PROVE QueryTyped'
  <2>1. PICK v, q : v \in {{}, {c}} /\ q = [query EXCEPT !.regions = v] /\ query' = q /\ lib' = lib
    BY <1>6 DEF Query!SelectRegion, Query!Edited
  <2>2. /\ DOMAIN q = DOMAIN query /\ q.regions = v
        /\ \A f \in DOMAIN query \ {"regions"} : q[f] = query[f]
    BY <1>0, <2>1
  <2>3. Normal(q)
    BY <1>0, <2>1, <2>2 DEF Normal, ReadConditions, Conditions
  <2>. QED
    BY <1>1, <2>1, <2>3
<1>7. CASE Query!CycleLock
  <2>1. PICK v, q : v \in {"all", "locked", "unlocked"} /\ q = [query EXCEPT !.lock = v] /\ query' = q /\ lib' = lib
    <3>1. PICK v : v = CASE query.lock = "all" -> "locked" [] query.lock = "locked" -> "unlocked" [] OTHER -> "all"
      OBVIOUS
    <3>2. v \in {"all", "locked", "unlocked"}
      BY <3>1
    <3>3. query' = [query EXCEPT !.lock = v] /\ lib' = lib
      BY <1>7, <3>1 DEF Query!CycleLock, Query!Edited
    <3>. QED
      BY <3>2, <3>3
  <2>2. /\ DOMAIN q = DOMAIN query /\ q.lock = v
        /\ \A f \in DOMAIN query \ {"lock"} : q[f] = query[f]
    BY <1>0, <2>1
  <2>3. Normal(q)
    BY <1>0, <2>1, <2>2 DEF Normal, ReadConditions, Conditions
  <2>. QED
    BY <1>1, <2>1, <2>3
<1>8. ASSUME NEW t \in Query!Text, Query!Toggle(t) PROVE QueryTyped'
  <2>1. PICK v, q : /\ v = (IF t \in query.platforms THEN query.platforms \ {t}
                            ELSE IF \E u \in query.platforms : u.key = t.key THEN query.platforms ELSE query.platforms \cup {t})
                    /\ q = [query EXCEPT !.platforms = v] /\ query' = Query!Normalize(q) /\ lib' = lib
    BY <1>8 DEF Query!Toggle, Query!Panel, Query!Edited
  <2>2. /\ DOMAIN q = DOMAIN query /\ q.platforms = v
        /\ \A f \in DOMAIN query \ {"platforms"} : q[f] = query[f]
    BY <1>0, <2>1
  <2>3. v \subseteq Query!Text /\ Query!OnePerKey(v)
    BY <1>0, <2>1 DEF Normal, ReadConditions, Conditions, Query!OnePerKey
  <2>4. ReadConditions(q)
    BY <1>0, <2>2, <2>3 DEF Normal, ReadConditions, Conditions
  <2>. QED
    BY <1>1, <2>1, <2>4
<1>9. ASSUME NEW y, DOMAIN y = {"min", "max"}, y.min \in Bound, y.max \in Bound, NEW q, q = [query EXCEPT !.year = y]
      PROVE  ReadConditions(q)
  <2>1. /\ DOMAIN q = DOMAIN query /\ q.year = y
        /\ \A f \in DOMAIN query \ {"year"} : q[f] = query[f]
    BY <1>0, <1>9
  <2>. QED
    BY <1>0, <1>9, <2>1 DEF Normal, ReadConditions, Conditions
<1>10. ASSUME NEW end \in {"min", "max"}, NEW n \in Bound,
              query' = Query!Normalize([query EXCEPT !.year = [@ EXCEPT ![end] = n]]), lib' = lib
       PROVE  QueryTyped'
  <2>1. PICK y, q : y = [query.year EXCEPT ![end] = n] /\ q = [query EXCEPT !.year = y] /\ query' = Query!Normalize(q)
    BY <1>10
  <2>2. DOMAIN query.year = {"min", "max"} /\ query.year.min \in Bound /\ query.year.max \in Bound
    BY <1>0 DEF Normal, ReadConditions
  <2>3. DOMAIN y = {"min", "max"} /\ y.min \in Bound /\ y.max \in Bound
    BY <2>1, <2>2
  <2>4. ReadConditions(q)
    BY <1>9, <2>1, <2>3
  <2>. QED
    BY <1>1, <1>10, <2>1, <2>4
<1>11. ASSUME NEW d \in Digit, Query!TypeDigit(d) PROVE QueryTyped'
  <2>1. PICK n : n = (IF query.year.min = None THEN d ELSE 10 * query.year.min + d)
    OBVIOUS
  <2>2. query' = Query!Normalize([query EXCEPT !.year.min = n]) /\ lib' = lib
    BY <1>11, <2>1 DEF Query!TypeDigit, Query!Panel, Query!Edited
  <2>3. query.year.min \in Bound
    BY <1>0 DEF Normal, ReadConditions
  <2>4. n \in Bound
    BY <2>1, <2>3, QueryConstants DEF Bound
  <2>5. [query EXCEPT !.year.min = n] = [query EXCEPT !.year = [@ EXCEPT !["min"] = n]]
    OBVIOUS
  <2>. QED
    BY <1>10, <2>2, <2>4, <2>5
<1>12. ASSUME NEW end \in {"min", "max"}, Query!EmptyField(end) PROVE QueryTyped'
  <2>1. query' = Query!Normalize([query EXCEPT !.year[end] = None]) /\ lib' = lib
    BY <1>12 DEF Query!EmptyField, Query!Panel, Query!Edited
  <2>2. [query EXCEPT !.year[end] = None] = [query EXCEPT !.year = [@ EXCEPT ![end] = None]]
    OBVIOUS
  <2>3. None \in Bound
    BY DEF Bound
  <2>. QED
    BY <1>10, <2>1, <2>2, <2>3
<1>13. ASSUME NEW y \in Lower..Upper, Query!PasteMax(y) PROVE QueryTyped'
  <2>1. query' = Query!Normalize([query EXCEPT !.year.max = y]) /\ lib' = lib
    BY <1>13 DEF Query!PasteMax, Query!Panel, Query!Edited
  <2>2. [query EXCEPT !.year.max = y] = [query EXCEPT !.year = [@ EXCEPT !["max"] = y]]
    OBVIOUS
  <2>3. y \in Bound
    BY QueryConstants DEF Bound
  <2>. QED
    BY <1>10, <2>1, <2>2, <2>3
<1>14. Conditions(Query!Empty) /\ Query!Empty.platforms = {} /\ Query!Empty.year = [min |-> None, max |-> None]
       /\ Query!OnePerKey({}) /\ None \in Bound
  BY DEF Conditions, Query!Empty, Bound, Query!OnePerKey
<1>15. ASSUME NEW d \in Query!Dims, Query!ClearDimension(d) PROVE QueryTyped'
  <2>1. PICK q : q = [query EXCEPT ![d] = Query!Empty[d]] /\ query' = Query!Normalize(q) /\ lib' = lib
    BY <1>15 DEF Query!ClearDimension, Query!Panel, Query!Edited
  <2>2. d \in {"platforms", "year"}
    BY <1>15 DEF Query!ClearDimension, Query!Summary, Query!Advanced
  <2>3. /\ DOMAIN q = DOMAIN query /\ q[d] = Query!Empty[d]
        /\ \A f \in DOMAIN query \ {d} : q[f] = query[f]
    BY <1>0, <2>1, <2>2
  <2>4. ReadConditions(q)
    <3>1. CASE d = "platforms"
      BY <1>0, <1>14, <2>3, <3>1 DEF Normal, ReadConditions, Conditions
    <3>2. CASE d = "year"
      BY <1>0, <1>14, <2>3, <3>2 DEF Normal, ReadConditions, Conditions
    <3>. QED
      BY <2>2, <3>1, <3>2
  <2>. QED
    BY <1>1, <2>1, <2>4
<1>16. CASE Query!ClearAdvanced
  <2>1. PICK q : /\ q = [d \in Query!Dims |-> IF d \in Query!Advanced THEN Query!Empty[d] ELSE query[d]]
                 /\ query' = Query!Normalize(q) /\ lib' = lib
    BY <1>16 DEF Query!ClearAdvanced, Query!Panel, Query!Edited
  <2>2. /\ DOMAIN q = DOMAIN query /\ q.platforms = Query!Empty.platforms /\ q.year = Query!Empty.year
        /\ \A f \in DOMAIN query \ {"platforms", "year"} : q[f] = query[f]
    BY <1>0, <1>14, <2>1 DEF Query!Dims, Query!Advanced, Conditions
  <2>3. ReadConditions(q)
    BY <1>0, <1>14, <2>2 DEF Normal, ReadConditions, Conditions
  <2>. QED
    BY <1>1, <2>1, <2>3
<1>17. CASE Query!ResetConditions
  BY <1>1, <1>17, EmptyConditions DEF Query!ResetConditions, Query!Edited
<1>. QED
  BY <1>2, <1>3, <1>4, <1>5, <1>6, <1>7, <1>8, <1>11, <1>12, <1>13, <1>15, <1>16, <1>17 DEF Query!Next

(* These are the types of the conditions.                                  *)
LEMMA QueryTypes == QueryInv /\ QueryTyped => Query!TypeOK
BY DEF QueryInv, QueryTyped, Normal, ReadConditions, Conditions, Query!TypeOK

-----------------------------------------------------------------------------
(*                                The batch                                *)

(* A table of rows, and what the batch has begun to write fits the row.    *)
Rows(t) == DOMAIN t = Listed /\ \A r \in Listed : t[r] = None \/ Batch!IsRow(t[r])

WrittenFits ==
  writing # None =>
    /\ phase = "applying" /\ writing.r \in Listed /\ writing.r \notin DOMAIN queue
    /\ {"r", "left"} \subseteq DOMAIN writing
    /\ list[writing.r] = table[writing.r]
    /\ table[writing.r] # None =>
         ~table[writing.r].locked /\ writing.left \subseteq Batch!Missing(table[writing.r])

QueueIsCurrent == phase = "applying" => \A r \in DOMAIN queue : list[r] = table[r]

RowsOfRecords ==
  /\ DOMAIN queue \subseteq Listed /\ DOMAIN failed \subseteq Listed
  /\ DOMAIN plan \subseteq Listed /\ DOMAIN todo \subseteq Listed

BatchInv ==
  /\ Rows(table) /\ DOMAIN list = Listed
  /\ RowsOfRecords
  /\ WrittenFits
  /\ QueueIsCurrent

(* The records of a queue that lost or gained one.                         *)
LEMMA RowDomains ==
  /\ DOMAIN Batch!NoRows = {}
  /\ \A f, r : \A q : q \in DOMAIN Batch!Rest(f, r) <=> q \in DOMAIN f /\ q # r
  /\ \A f, r, x : \A q : q \in DOMAIN Batch!With(f, r, x) <=> q \in DOMAIN f \/ q = r
BY DEF Batch!NoRows, Batch!Rest, Batch!With

(* At the start nothing is queued.                                         *)
LEMMA BatchInit == Batch!Init => BatchInv
<1>. HAVE Batch!Init
<1>1. Rows(table) /\ DOMAIN list = Listed
  BY ScreensAssumption DEF Batch!Init, Rows, Batch!BatchAssumption
<1>. QED
  BY <1>1, RowDomains DEF Batch!Init, BatchInv, WrittenFits, QueueIsCurrent, RowsOfRecords

(* A row after the write of one of its fields.                             *)
Filled(x, f, v) == [[x EXCEPT ![f] = v] EXCEPT !.rev = @ + 1]

(* A row with a field filled is a row.                                     *)
LEMMA FilledRow ==
  ASSUME NEW x, Batch!IsRow(x), NEW f \in {"name", "ident"}, NEW v
  PROVE  /\ Batch!IsRow(Filled(x, f, v))
         /\ Filled(x, f, v).locked = x.locked
         /\ \A g \in {"name", "ident"} \ {f} : Filled(x, f, v)[g] = x[g]
<1>1. DOMAIN Filled(x, f, v) = DOMAIN x
  BY DEF Filled
<1>2. Filled(x, f, v).locked = x.locked /\ Filled(x, f, v).rev = x.rev + 1
  BY DEF Filled, Batch!IsRow
<1>3. ASSUME NEW g \in {"name", "ident"} \ {f} PROVE Filled(x, f, v)[g] = x[g]
  BY DEF Filled, Batch!IsRow
<1>. QED
  BY <1>1, <1>2, <1>3 DEF Batch!IsRow

(* Whatever does not touch the tables, the queue and the row that is being *)
(* written.                                                                *)
LEMMA NothingWritten ==
  ASSUME BatchInv, UNCHANGED <<table, list, queue, writing, failed, phase>>,
         DOMAIN plan' \subseteq Listed, DOMAIN todo' \subseteq Listed
  PROVE  BatchInv' /\ Batch!WritesMissing
BY DEF BatchInv, RowsOfRecords, WrittenFits, QueueIsCurrent, Rows, Batch!WritesMissing, Batch!Written

(* Nor does a step while no row is being written, if it ends in no new     *)
(* row to write.                                                           *)
LEMMA NoRowWritten ==
  ASSUME BatchInv, writing = None, writing' = None, Rows(table'), DOMAIN list' = Listed,
         RowsOfRecords', QueueIsCurrent'
  PROVE  BatchInv' /\ Batch!WritesMissing
BY DEF BatchInv, WrittenFits, Batch!WritesMissing, Batch!Written

(* The batch takes one of the records that are queued.                     *)
LEMMA LeastRecord ==
  ASSUME NEW S, S \subseteq Listed, S # {}
  PROVE  Batch!Min(S) \in S
<1>1. S \subseteq Nat
  BY ScreensAssumption DEF Batch!BatchAssumption
<1>. QED
  BY <1>1, LeastNumber DEF Batch!Min

(* One field of the row is written.                                        *)
LEMMA OneFieldWritten ==
  ASSUME BatchInv, NEW r \in Listed, writing # None, writing.r = r, table[r] # None,
         NEW f \in {"name", "ident"}, f \in writing.left, NEW v,
         table' = [table EXCEPT ![r] = Filled(table[r], f, v)],
         \A q \in Listed \ {r} : list'[q] = list[q], DOMAIN list' = Listed,
         UNCHANGED <<queue, phase>>
  PROVE  Rows(table') /\ Batch!WritesMissing /\ QueueIsCurrent'
<1>1. /\ r \notin DOMAIN queue /\ Rows(table) /\ ~table[r].locked
      /\ table[r][f] = None /\ DOMAIN queue \subseteq Listed
  BY DEF BatchInv, WrittenFits, RowsOfRecords, Batch!Missing
<1>2. Batch!IsRow(table[r])
  BY <1>1 DEF Rows
<1>3. /\ table'[r] = Filled(table[r], f, v) /\ DOMAIN table' = Listed
      /\ \A q \in Listed \ {r} : table'[q] = table[q]
  BY <1>1 DEF Rows
<1>4. Batch!IsRow(table'[r]) /\ \A g \in {"name", "ident"} \ {f} : table'[r][g] = table[r][g]
  BY <1>2, <1>3, FilledRow
<1>5. Rows(table')
  BY <1>1, <1>3, <1>4 DEF Rows
<1>6. Batch!WritesMissing
  <2>1. \A q \in Listed : table'[q] # table[q] => q = r
    BY <1>3
  <2>2. table[r].name # None => table'[r].name = table[r].name
    BY <1>1, <1>4
  <2>3. table[r].ident # None => table'[r].ident = table[r].ident
    BY <1>1, <1>4
  <2>. QED
    BY <1>1, <2>1, <2>2, <2>3 DEF Batch!WritesMissing
<1>7. QueueIsCurrent'
  BY <1>1, <1>3 DEF QueueIsCurrent, BatchInv
<1>. QED
  BY <1>5, <1>6, <1>7

(* Every step keeps the queue on the table, and writes missing fields only.*)
LEMMA BatchStep ==
  ASSUME BatchInv, Batch!Next
  PROVE  BatchInv' /\ Batch!WritesMissing
<1>0. RowsOfRecords /\ Rows(table) /\ DOMAIN list = Listed /\ (phase # "applying" => writing = None)
  BY DEF BatchInv, WrittenFits
<1>1. CASE Batch!Prepare
  <2>. DEFINE targets == {r \in Listed : Batch!Candidate(Batch!Prune(remembered, list), r, list[r])}
  <2>1. CASE targets = {}
    <3>1. UNCHANGED <<table, list, queue, writing, failed, phase, plan, todo>>
      BY <1>1, <2>1 DEF Batch!Prepare, Batch!applying
    <3>. QED
      BY <1>0, <3>1, NothingWritten DEF RowsOfRecords
  <2>2. CASE targets # {}
    <3>1. phase' = "planning" /\ todo' = [r \in targets |-> list[r]] /\ plan' = Batch!NoRows
          /\ queue' = Batch!NoRows /\ failed' = Batch!NoRows /\ UNCHANGED <<writing, table, list>>
      BY <1>1, <2>2 DEF Batch!Prepare
    <3>2. RowsOfRecords' /\ QueueIsCurrent'
      BY <3>1, RowDomains DEF RowsOfRecords, QueueIsCurrent
    <3>3. writing = None
      BY <1>0, <1>1 DEF Batch!Prepare
    <3>. QED
      BY <1>0, <3>1, <3>2, <3>3, NoRowWritten
  <2>. QED
    BY <2>1, <2>2
<1>2. CASE Batch!Preview
  <2>1. RowsOfRecords' /\ QueueIsCurrent' /\ UNCHANGED <<table, list, writing>>
    BY <1>0, <1>2, RowDomains DEF Batch!Preview, Batch!applying, RowsOfRecords, QueueIsCurrent
  <2>. QED
    BY <1>0, <1>2, <2>1, NoRowWritten DEF Batch!Preview
<1>3. CASE Batch!Clear
  <2>1. UNCHANGED <<table, list, queue, writing, failed, phase, plan, todo>>
    BY <1>3 DEF Batch!Clear, Batch!analysis, Batch!applying
  <2>. QED
    BY <1>0, <2>1, NothingWritten DEF RowsOfRecords
<1>4. CASE Batch!Reset
  <2>1. RowsOfRecords' /\ QueueIsCurrent' /\ UNCHANGED <<table, list, writing>>
    BY <1>0, <1>4, RowDomains DEF Batch!Reset, Batch!analysis, RowsOfRecords, QueueIsCurrent
  <2>. QED
    BY <1>0, <1>4, <2>1, NoRowWritten DEF Batch!Reset
<1>5. CASE Batch!Apply
  <2>1. list = table /\ writing = None /\ UNCHANGED <<table, list, writing>>
    BY <1>0, <1>5 DEF Batch!Apply
  <2>2. DOMAIN queue' \subseteq Listed
    <3>1. CASE queue' = [r \in Batch!Ready |-> plan[r]]
      BY <1>0, <3>1 DEF Batch!Ready, RowsOfRecords
    <3>2. CASE queue' = failed
      BY <1>0, <3>2 DEF RowsOfRecords
    <3>. QED
      BY <1>5, <3>1, <3>2 DEF Batch!Apply
  <2>3. RowsOfRecords' /\ QueueIsCurrent'
    BY <1>0, <1>5, <2>1, <2>2, RowDomains DEF Batch!Apply, Batch!analysis, RowsOfRecords, QueueIsCurrent
  <2>. QED
    BY <1>0, <2>1, <2>3, NoRowWritten
<1>6. CASE Batch!BeginRow
  <2>. DEFINE r == Batch!Min(DOMAIN queue)
              safe == queue[r].fields \cap Batch!Missing(list[r])
  <2>2. r \in DOMAIN queue /\ r \in Listed
    BY <1>0, <1>6, LeastRecord DEF Batch!BeginRow, RowsOfRecords
  <2>3. queue' = Batch!Rest(queue, r) /\ UNCHANGED <<table, list, phase, plan, todo, failed>>
        /\ phase = "applying" /\ writing = None
    BY <1>6 DEF Batch!BeginRow, Batch!analysis
  <2>4. list[r] = table[r]
    BY <2>2, <2>3 DEF BatchInv, QueueIsCurrent
  <2>5. WrittenFits'
    <3>1. CASE writing' # None
      <4>1. /\ list[r] # None /\ ~list[r].locked
            /\ writing' = [r |-> r, row |-> queue[r], fields |-> safe, left |-> safe,
                           rev |-> list[r].rev, imdb |-> list[r].imdb]
        BY <1>6, <3>1 DEF Batch!BeginRow
      <4>2. writing'.r = r /\ writing'.left = safe /\ {"r", "left"} \subseteq DOMAIN writing'
        BY <4>1
      <4>3. r \notin DOMAIN queue'
        BY <2>3, RowDomains
      <4>4. safe \subseteq Batch!Missing(table[r])
        BY <2>4 DEF Batch!Missing
      <4>. HIDE DEF r, safe
      <4>. QED
        BY <2>2, <2>3, <2>4, <4>1, <4>2, <4>3, <4>4 DEF WrittenFits
    <3>. QED
      BY <3>1 DEF WrittenFits
  <2>6. RowsOfRecords' /\ QueueIsCurrent'
    BY <1>0, <2>3, RowDomains DEF RowsOfRecords, QueueIsCurrent, BatchInv
  <2>. QED
    BY <1>0, <2>3, <2>5, <2>6 DEF BatchInv, Batch!WritesMissing, Batch!Written
<1>7. CASE Batch!WriteName
  <2>. DEFINE r == writing.r
  <2>1. /\ writing # None /\ "name" \in writing.left /\ r \in Listed /\ phase = "applying"
        /\ {"r", "left"} \subseteq DOMAIN writing /\ r \notin DOMAIN queue
    BY <1>7 DEF Batch!WriteName, BatchInv, WrittenFits
  <2>2. CASE table[r] = None
    <3>1. /\ failed' = Batch!With(failed, r, writing.row) /\ writing' = None
          /\ UNCHANGED <<table, list, queue, phase, plan, todo>>
      BY <1>7, <2>2 DEF Batch!WriteName, Batch!analysis
    <3>2. RowsOfRecords' /\ QueueIsCurrent'
      BY <1>0, <2>1, <3>1, RowDomains DEF RowsOfRecords, QueueIsCurrent, BatchInv
    <3>. QED
      BY <1>0, <3>1, <3>2 DEF BatchInv, WrittenFits, Batch!WritesMissing
  <2>3. CASE table[r] # None
    <3>1. /\ table' = [table EXCEPT ![r].name = writing.row.entity, ![r].rev = @ + 1]
          /\ list' = [list EXCEPT ![r] = table'[r]]
          /\ writing' = IF "ident" \in writing.left
                        THEN [writing EXCEPT !.left = {"ident"}, !.rev = @ + 1] ELSE None
          /\ UNCHANGED <<queue, phase, plan, todo, failed>>
      BY <1>7, <2>3 DEF Batch!WriteName, Batch!analysis
    <3>2. table' = [table EXCEPT ![r] = Filled(table[r], "name", writing.row.entity)]
      BY <3>1 DEF Filled
    <3>3. DOMAIN list' = Listed /\ list'[r] = table'[r] /\ \A q \in Listed \ {r} : list'[q] = list[q]
      BY <1>0, <2>1, <3>1
    <3>4. Rows(table') /\ Batch!WritesMissing /\ QueueIsCurrent'
      BY <2>1, <2>3, <3>1, <3>2, <3>3, OneFieldWritten
    <3>5. Batch!IsRow(table[r]) /\ table'[r] = Filled(table[r], "name", writing.row.entity)
      BY <1>0, <2>1, <2>3, <3>2 DEF Rows
    <3>6. ~table'[r].locked /\ ("ident" \in writing.left => table'[r].ident = None)
      <4>1. ~table[r].locked /\ writing.left \subseteq Batch!Missing(table[r])
        BY <2>1, <2>3 DEF BatchInv, WrittenFits
      <4>. QED
        BY <3>5, <4>1, FilledRow DEF Batch!Missing
    <3>7. WrittenFits'
      <4>1. CASE "ident" \in writing.left
        <5>1. writing'.r = r /\ writing'.left = {"ident"} /\ {"r", "left"} \subseteq DOMAIN writing'
          BY <2>1, <3>1, <4>1
        <5>2. writing'.left \subseteq Batch!Missing(table'[r])
          BY <3>6, <4>1, <5>1 DEF Batch!Missing
        <5>. QED
          BY <2>1, <3>1, <3>3, <3>6, <5>1, <5>2 DEF WrittenFits
      <4>2. CASE "ident" \notin writing.left
        BY <3>1, <4>2 DEF WrittenFits
      <4>. QED
        BY <4>1, <4>2
    <3>. QED
      BY <1>0, <3>1, <3>3, <3>4, <3>7 DEF BatchInv, RowsOfRecords
  <2>. QED
    BY <2>2, <2>3
<1>8. CASE Batch!WriteIdentity
  <2>. DEFINE r == writing.r
  <2>1. /\ writing # None /\ "ident" \in writing.left /\ writing' = None /\ r \in Listed
        /\ UNCHANGED <<queue, phase, plan, todo, list>>
    BY <1>8 DEF Batch!WriteIdentity, Batch!analysis, BatchInv, WrittenFits
  <2>2. RowsOfRecords'
    <3>1. failed' = failed \/ failed' = Batch!With(failed, r, writing.row)
      BY <1>8 DEF Batch!WriteIdentity
    <3>2. DOMAIN failed' \subseteq Listed
      BY <1>0, <2>1, <3>1, RowDomains DEF RowsOfRecords
    <3>. QED
      BY <1>0, <2>1, <3>2 DEF RowsOfRecords
  <2>3. CASE Batch!Refused(r, writing.row.entity)
    <3>1. table' = table
      BY <1>8, <2>3 DEF Batch!WriteIdentity
    <3>. QED
      BY <1>0, <2>1, <2>2, <3>1 DEF BatchInv, WrittenFits, QueueIsCurrent, Batch!WritesMissing
  <2>4. CASE ~Batch!Refused(r, writing.row.entity)
    <3>1. table' = [table EXCEPT ![r].ident = writing.row.entity, ![r].rev = @ + 1]
      BY <1>8, <2>4 DEF Batch!WriteIdentity
    <3>2. table' = [table EXCEPT ![r] = Filled(table[r], "ident", writing.row.entity)]
      BY <3>1 DEF Filled
    <3>3. table[r] # None
      BY <2>4 DEF Batch!Refused
    <3>4. Rows(table') /\ Batch!WritesMissing /\ QueueIsCurrent'
      BY <1>0, <2>1, <3>2, <3>3, OneFieldWritten
    <3>. QED
      BY <1>0, <2>1, <2>2, <3>4 DEF BatchInv, WrittenFits
  <2>. QED
    BY <2>3, <2>4
<1>9. CASE Batch!EndApply
  <2>1. RowsOfRecords' /\ QueueIsCurrent' /\ UNCHANGED <<table, writing>> /\ DOMAIN list' = Listed
    BY <1>0, <1>9, RowDomains DEF Batch!EndApply, Batch!analysis, RowsOfRecords, QueueIsCurrent, Rows
  <2>. QED
    BY <1>0, <1>9, <2>1, NoRowWritten DEF Batch!EndApply
<1>10. CASE Batch!Refresh
  BY <1>10 DEF Batch!Refresh, Batch!analysis, Batch!applying, BatchInv, RowsOfRecords, WrittenFits, QueueIsCurrent, Rows, Batch!WritesMissing, Batch!Written
<1>11. ASSUME NEW answered \in BOOLEAN, Batch!Analyse(answered)
       PROVE  BatchInv' /\ Batch!WritesMissing
  <2>. DEFINE r == Batch!Min(DOMAIN todo)
  <2>1. r \in Listed
    BY <1>0, <1>11, LeastRecord DEF Batch!Analyse, RowsOfRecords
  <2>2. todo' = Batch!Rest(todo, r) /\ \E x : plan' = Batch!With(plan, r, x)
    BY <1>11 DEF Batch!Analyse
  <2>3. UNCHANGED <<table, list, queue, writing, failed, phase>>
    BY <1>11 DEF Batch!Analyse, Batch!applying
  <2>. HIDE DEF r
  <2>4. DOMAIN plan' \subseteq Listed /\ DOMAIN todo' \subseteq Listed
    BY <1>0, <2>1, <2>2, RowDomains DEF RowsOfRecords
  <2>. QED
    BY <2>3, <2>4, NothingWritten
<1>12. ASSUME NEW r \in Listed, Batch!Changed(r) PROVE BatchInv' /\ Batch!WritesMissing
  <2>1. phase # "applying"
    BY <1>12 DEF Batch!Changed
  <2>2. PICK x : (x = None \/ Batch!IsRow(x)) /\ table' = [table EXCEPT ![r] = x]
    BY <1>12 DEF Batch!Changed
  <2>3. Rows(table')
    BY <1>0, <2>2 DEF Rows
  <2>4. UNCHANGED <<list, queue, writing, failed, phase, plan, todo>>
    BY <1>12 DEF Batch!Changed, Batch!analysis, Batch!applying
  <2>. QED
    BY <1>0, <2>1, <2>3, <2>4, NoRowWritten DEF RowsOfRecords, QueueIsCurrent
<1>13. ASSUME NEW r \in Listed, NEW e, Batch!Choose(r, e) PROVE BatchInv' /\ Batch!WritesMissing
  <2>1. UNCHANGED <<table, list, queue, writing, failed, phase, plan, todo>>
    BY <1>13 DEF Batch!Choose, Batch!analysis, Batch!applying
  <2>. QED
    BY <1>0, <2>1, NothingWritten DEF RowsOfRecords
<1>14. ASSUME NEW c \in choosing, Batch!ChoiceRead(c) \/ Batch!ChoiceFailed(c) PROVE BatchInv' /\ Batch!WritesMissing
  <2>1. UNCHANGED <<table, list, queue, writing, failed, phase, plan, todo>>
    BY <1>14 DEF Batch!ChoiceRead, Batch!ChoiceFailed, Batch!analysis, Batch!applying
  <2>. QED
    BY <1>0, <2>1, NothingWritten DEF RowsOfRecords
<1>15. ASSUME NEW c \in choosing, Batch!ChoiceWritten(c) PROVE BatchInv' /\ Batch!WritesMissing
  <2>1. UNCHANGED <<table, list, queue, writing, failed, phase, todo>> /\ DOMAIN plan' = DOMAIN plan
    BY <1>15 DEF Batch!ChoiceWritten, Batch!analysis, Batch!applying
  <2>. QED
    BY <1>0, <2>1, NothingWritten DEF RowsOfRecords
<1>. QED
  BY <1>1, <1>2, <1>3, <1>4, <1>5, <1>6, <1>7, <1>8, <1>9, <1>10, <1>11, <1>12, <1>13, <1>14, <1>15
     DEF Batch!Next

(* The two instances have the same rows.                                   *)
LEMMA SameRows == \A x : Busy!IsRow(x) <=> Batch!IsRow(x)
BY DEF Busy!IsRow, Batch!IsRow

(* At the start the table holds rows.                                      *)
LEMMA BusyInit == Busy!Init => Rows(table)
BY ScreensAssumption DEF Busy!Init, Rows, Batch!BatchAssumption

(* What fills a field changes no other row.                                *)
LEMMA FieldFilled ==
  ASSUME Rows(table), NEW r, NEW f \in {"name", "ident"}, NEW v, table[r] # None,
         table' = [table EXCEPT ![r] = Filled(table[r], f, v)]
  PROVE  /\ Rows(table')
         /\ \A q \in Listed : q # r => table'[q] = table[q]
         /\ r \in Listed /\ f = "name" => table'[r].ident = table[r].ident
<1>1. DOMAIN table' = Listed /\ \A q \in Listed : q # r => table'[q] = table[q]
  BY DEF Rows
<1>2. ASSUME r \in Listed
      PROVE  Batch!IsRow(table'[r]) /\ (f = "name" => table'[r].ident = table[r].ident)
  <2>1. table'[r] = Filled(table[r], f, v) /\ Batch!IsRow(table[r])
    BY <1>2 DEF Rows
  <2>. QED
    BY <2>1, FilledRow
<1>3. Rows(table')
  BY <1>1, <1>2 DEF Rows
<1>. QED
  BY <1>1, <1>2, <1>3

(* Beside other writers, a step gives no entity to a second record.        *)
LEMMA BusyStep ==
  ASSUME Rows(table), Busy!Next
  PROVE  Rows(table') /\ Busy!IdentityOnceStep
<1>1. ASSUME table' = table, writing' = writing \/ writing = None
      PROVE  Rows(table') /\ Busy!IdentityOnceStep
  BY <1>1 DEF Busy!IdentityOnceStep, Busy!Written
<1>2. CASE Busy!Prepare \/ Busy!Preview \/ Busy!Clear \/ Busy!Reset \/ Busy!Apply \/ Busy!BeginRow
           \/ Busy!EndApply \/ Busy!Refresh
  BY <1>1, <1>2 DEF Busy!Prepare, Busy!Preview, Busy!Clear, Busy!Reset, Busy!Apply, Busy!BeginRow,
     Busy!EndApply, Busy!Refresh, Busy!applying
<1>3. CASE \/ \E answered \in BOOLEAN : Busy!Analyse(answered)
           \/ \E r \in Listed, e \in UNION {HitsOf[i] : i \in DOMAIN HitsOf} : Busy!Choose(r, e)
           \/ \E c \in choosing : Busy!ChoiceRead(c) \/ Busy!ChoiceWritten(c) \/ Busy!ChoiceFailed(c)
  BY <1>1, <1>3 DEF Busy!Analyse, Busy!Choose, Busy!ChoiceRead, Busy!ChoiceWritten, Busy!ChoiceFailed, Busy!applying
<1>4. CASE Busy!WriteName
  <2>1. CASE table' = table
    BY <2>1 DEF Busy!IdentityOnceStep
  <2>2. CASE table' # table
    <3>1. table[writing.r] # None /\
          table' = [table EXCEPT ![writing.r].name = writing.row.entity, ![writing.r].rev = @ + 1]
      BY <1>4, <2>2 DEF Busy!WriteName
    <3>2. PICK r, v : r = writing.r /\ v = writing.row.entity
      OBVIOUS
    <3>3. table[r] # None /\ table' = [table EXCEPT ![r] = Filled(table[r], "name", v)]
      BY <3>1, <3>2 DEF Filled
    <3>4. /\ Rows(table') /\ \A q \in Listed : q # r => table'[q] = table[q]
          /\ r \in Listed => table'[r].ident = table[r].ident
      BY <3>3, FieldFilled
    <3>. QED
      BY <3>4 DEF Busy!IdentityOnceStep
  <2>. QED
    BY <2>1, <2>2
<1>5. CASE Busy!WriteIdentity
  <2>1. CASE table' = table
    BY <2>1 DEF Busy!IdentityOnceStep
  <2>2. CASE table' # table
    <3>1. PICK r, v : r = writing.r /\ v = writing.row.entity
      OBVIOUS
    <3>2. ~Busy!Refused(r, v) /\ table' = [table EXCEPT ![r].ident = v, ![r].rev = @ + 1]
      BY <1>5, <2>2, <3>1 DEF Busy!WriteIdentity
    <3>3. ~Busy!Refused(r, v) /\ table' = [table EXCEPT ![r] = Filled(table[r], "ident", v)]
      BY <3>2 DEF Filled
    <3>4. table[r] # None /\ \A q \in Listed \ {r} : table[q] = None \/ table[q].ident # v
      BY <3>3 DEF Busy!Refused
    <3>5. Rows(table') /\ \A q \in Listed : q # r => table'[q] = table[q]
      BY <3>3, <3>4, FieldFilled
    <3>6. ASSUME NEW p \in Listed, NEW q \in Listed, p # q, table'[p] # table[p], table'[q] # None
          PROVE  table'[q].ident # table'[p].ident
      <4>1. p = r /\ table'[q] = table[q] /\ table[q].ident # v /\ Batch!IsRow(table[r])
        BY <3>4, <3>5, <3>6 DEF Rows
      <4>2. table'[r].ident = v
        BY <3>3, <3>6, <4>1 DEF Rows, Filled, Batch!IsRow
      <4>. QED
        BY <4>1, <4>2
    <3>. QED
      BY <3>5, <3>6 DEF Busy!IdentityOnceStep
  <2>. QED
    BY <2>1, <2>2
<1>6. ASSUME NEW r \in Listed, Busy!Changed(r) PROVE Rows(table') /\ Busy!IdentityOnceStep
  <2>1. PICK x : (x = None \/ Busy!IsRow(x)) /\ table' = [table EXCEPT ![r] = x]
    BY <1>6 DEF Busy!Changed
  <2>2. Rows(table')
    BY <2>1, SameRows DEF Rows
  <2>3. writing' = writing
    BY <1>6 DEF Busy!Changed, Busy!applying
  <2>. QED
    BY <2>2, <2>3 DEF Busy!IdentityOnceStep, Busy!Written
<1>. QED
  BY <1>2, <1>3, <1>4, <1>5, <1>6 DEF Busy!Next

(* A step of the batch but for what bounds the two instances differently:  *)
(* their runs and changes, and whether others write while it does.         *)
PreparesPlan ==
  LET m == Batch!Prune(remembered, list)
      targets == {r \in Listed : Batch!Candidate(m, r, list[r])}
  IN  /\ phase \in {"idle", "done", "preview"}
      /\ IF targets = {} THEN remembered' = m /\ UNCHANGED <<phase, todo, draft, plan, queue, writing, failed>>
         ELSE /\ phase' = "planning" /\ todo' = [r \in targets |-> list[r]]
              /\ draft' = m /\ plan' = Batch!NoRows /\ queue' = Batch!NoRows /\ failed' = Batch!NoRows
              /\ UNCHANGED <<remembered, writing>>
      /\ UNCHANGED choosing
AppliesPlan ==
  /\ \/ phase = "preview" /\ queue' = [r \in Batch!Ready |-> plan[r]]
     \/ phase = "done" /\ queue' = failed
  /\ phase' = "applying" /\ failed' = Batch!NoRows
  /\ UNCHANGED <<remembered, todo, draft, plan, choosing, writing>>
OthersStep == UNCHANGED <<remembered, phase, todo, draft, plan, choosing, queue, writing, failed>>
AnyBatchStep ==
  \/ PreparesPlan \/ AppliesPlan \/ OthersStep
  \/ Batch!Preview \/ Batch!Clear \/ Batch!Reset \/ Batch!BeginRow \/ Batch!WriteName
  \/ Batch!WriteIdentity \/ Batch!EndApply
  \/ \E answered \in BOOLEAN : Batch!Analyse(answered)
  \/ \E r, e : Batch!Choose(r, e)
  \/ \E c \in choosing : Batch!ChoiceRead(c) \/ Batch!ChoiceWritten(c) \/ Batch!ChoiceFailed(c)

(* The steps of both instances are such steps.                             *)
LEMMA BatchSteps == Batch!Next => AnyBatchStep
<1>1. Batch!Prepare => PreparesPlan
  BY DEF Batch!Prepare, PreparesPlan, Batch!applying
<1>2. Batch!Apply => AppliesPlan
  BY DEF Batch!Apply, AppliesPlan, Batch!analysis
<1>3. ASSUME NEW r, Batch!Changed(r) PROVE OthersStep
  BY <1>3 DEF Batch!Changed, OthersStep, Batch!analysis, Batch!applying
<1>4. Batch!Refresh => OthersStep
  BY DEF Batch!Refresh, OthersStep, Batch!analysis, Batch!applying
<1>. QED
  BY <1>1, <1>2, <1>3, <1>4 DEF Batch!Next, AnyBatchStep

(* The operators of the two instances are the same.                        *)
LEMMA SameOperators ==
  /\ Busy!NoRows = Batch!NoRows /\ Busy!Nothing = Batch!Nothing /\ Busy!Ready = Batch!Ready
  /\ \A x : Busy!Missing(x) = Batch!Missing(x)
  /\ \A m, r, x : Busy!Candidate(m, r, x) <=> Batch!Candidate(m, r, x)
  /\ \A m, rows : Busy!Prune(m, rows) = Batch!Prune(m, rows)
  /\ \A f, r : Busy!Rest(f, r) = Batch!Rest(f, r)
  /\ \A f, r, x : Busy!With(f, r, x) = Batch!With(f, r, x)
  /\ \A s, i, e, F : Busy!Row(s, i, e, F) = Batch!Row(s, i, e, F)
  /\ \A m, r, x, e : Busy!RowFor(m, r, x, e) = Batch!RowFor(m, r, x, e)
  /\ \A m, r, x, e : Busy!Lacking(m, r, x, e) = Batch!Lacking(m, r, x, e)
  /\ \A m, r, i, F : Busy!Remember(m, r, i, F) = Batch!Remember(m, r, i, F)
  /\ \A r, e : Busy!Refused(r, e) <=> Batch!Refused(r, e)
  /\ \A S : Busy!Min(S) = Batch!Min(S)
  /\ \A S : Busy!Cardinality(S) = Batch!Cardinality(S)
BY DEF Busy!NoRows, Batch!NoRows, Busy!Nothing, Batch!Nothing, Busy!Entry, Batch!Entry, Busy!Ready, Batch!Ready,
   Busy!Missing, Batch!Missing, Busy!NoData, Batch!NoData, Busy!Candidate, Batch!Candidate, Busy!Prune, Batch!Prune,
   Busy!Rest, Batch!Rest, Busy!With, Batch!With, Busy!Row, Batch!Row, Busy!RowFor, Batch!RowFor,
   Busy!Offered, Batch!Offered, Busy!Lacking, Batch!Lacking, Busy!Remember, Batch!Remember,
   Busy!Refused, Batch!Refused, Busy!Min, Batch!Min, Busy!Cardinality, Batch!Cardinality, Busy!IsFiniteSet, Batch!IsFiniteSet

LEMMA BusySteps == Busy!Next => AnyBatchStep
<1>1. Busy!Prepare => PreparesPlan
  BY SameOperators DEF Busy!Prepare, PreparesPlan, Busy!applying
<1>2. Busy!Apply => AppliesPlan
  BY SameOperators DEF Busy!Apply, AppliesPlan, Busy!analysis
<1>3. ASSUME NEW r, Busy!Changed(r) PROVE OthersStep
  BY <1>3 DEF Busy!Changed, OthersStep, Busy!analysis, Busy!applying
<1>4. Busy!Refresh => OthersStep
  BY DEF Busy!Refresh, OthersStep, Busy!analysis, Busy!applying
<1>5. Busy!Preview => Batch!Preview
  BY SameOperators DEF Busy!Preview, Batch!Preview, Busy!applying, Batch!applying, Busy!bounds, Batch!bounds
<1>6. Busy!Clear => Batch!Clear
  BY SameOperators DEF Busy!Clear, Batch!Clear, Busy!analysis, Batch!analysis, Busy!applying, Batch!applying, Busy!bounds, Batch!bounds
<1>7. Busy!Reset => Batch!Reset
  BY SameOperators DEF Busy!Reset, Batch!Reset, Busy!analysis, Batch!analysis, Busy!bounds, Batch!bounds
<1>8. Busy!BeginRow => Batch!BeginRow
  BY SameOperators DEF Busy!BeginRow, Batch!BeginRow, Busy!analysis, Batch!analysis, Busy!bounds, Batch!bounds
<1>9. Busy!WriteName => Batch!WriteName
  BY SameOperators DEF Busy!WriteName, Batch!WriteName, Busy!analysis, Batch!analysis, Busy!bounds, Batch!bounds
<1>10. Busy!WriteIdentity => Batch!WriteIdentity
  BY SameOperators DEF Busy!WriteIdentity, Batch!WriteIdentity, Busy!analysis, Batch!analysis, Busy!bounds, Batch!bounds
<1>11. Busy!EndApply => Batch!EndApply
  BY SameOperators DEF Busy!EndApply, Batch!EndApply, Busy!analysis, Batch!analysis, Busy!bounds, Batch!bounds
<1>12. ASSUME NEW answered \in BOOLEAN, Busy!Analyse(answered) PROVE Batch!Analyse(answered)
  BY <1>12, SameOperators DEF Busy!Analyse, Batch!Analyse, Busy!applying, Batch!applying, Busy!bounds, Batch!bounds
<1>13. ASSUME NEW r, NEW e, Busy!Choose(r, e) PROVE Batch!Choose(r, e)
  BY <1>13 DEF Busy!Choose, Batch!Choose, Busy!analysis, Batch!analysis, Busy!applying, Batch!applying, Busy!bounds, Batch!bounds
<1>14. ASSUME NEW c \in choosing
       PROVE  /\ Busy!ChoiceRead(c) => Batch!ChoiceRead(c)
              /\ Busy!ChoiceWritten(c) => Batch!ChoiceWritten(c)
              /\ Busy!ChoiceFailed(c) => Batch!ChoiceFailed(c)
  BY SameOperators DEF Busy!ChoiceRead, Batch!ChoiceRead, Busy!ChoiceWritten, Batch!ChoiceWritten,
     Busy!ChoiceFailed, Batch!ChoiceFailed, Busy!analysis, Batch!analysis, Busy!applying, Batch!applying, Busy!bounds, Batch!bounds
<1>. QED
  BY <1>1, <1>2, <1>3, <1>4, <1>5, <1>6, <1>7, <1>8, <1>9, <1>10, <1>11, <1>12, <1>13, <1>14
     DEF Busy!Next, AnyBatchStep

(* A row that is ready has fields to write, and what is remembered of a    *)
(* record is which of its fields TMDB does not have.                       *)
ToWrite(x) == x.status = "ready" /\ x.fields # {}
Memory(m) == DOMAIN m = Listed /\ \A r \in Listed : m[r].fields \subseteq {"name", "ident"}

BatchTyped ==
  /\ phase \in {"idle", "planning", "preview", "applying", "done"}
  /\ (todo # Batch!NoRows => phase = "planning") /\ (queue # Batch!NoRows \/ writing # None => phase = "applying")
  /\ RowsOfRecords
  /\ \A r \in DOMAIN plan : plan[r].status = "ready" => plan[r].fields # {}
  /\ \A r \in DOMAIN queue : ToWrite(queue[r])
  /\ \A r \in DOMAIN failed : ToWrite(failed[r])
  /\ writing # None => writing.r \in Listed /\ ToWrite(writing.row) /\ {"r", "row"} \subseteq DOMAIN writing
  /\ Memory(remembered) /\ Memory(draft)
  /\ \A c \in choosing : c.read = None \/ Memory(c.read)

(* What a table with a row left out or put in keeps.                       *)
LEMMA RowsKept ==
  /\ \A f, r : \A q \in DOMAIN Batch!Rest(f, r) : Batch!Rest(f, r)[q] = f[q]
  /\ \A f, r, x : \A q \in DOMAIN Batch!With(f, r, x) : Batch!With(f, r, x)[q] = IF q = r THEN x ELSE f[q]
BY DEF Batch!Rest, Batch!With

LEMMA FieldsMissing == \A x : Batch!Missing(x) \subseteq {"name", "ident"}
BY DEF Batch!Missing

(* What is remembered stays so when it is pruned or adds missing fields.   *)
LEMMA MemoryOfNothing == Memory(Batch!Nothing)
BY DEF Memory, Batch!Nothing, Batch!Entry

LEMMA MemoryPruned == ASSUME NEW m, Memory(m), NEW rows PROVE Memory(Batch!Prune(m, rows))
<1>. DEFINE p == Batch!Prune(m, rows)
<1>1. DOMAIN p = Listed /\ \A r \in Listed : p[r] = m[r] \/ p[r] = Batch!Entry(None, {})
  BY DEF Batch!Prune
<1>. HIDE DEF p
<1>2. Memory(p)
  BY <1>1 DEF Memory, Batch!Entry
<1>. QED  BY <1>2 DEF p

LEMMA MemoryGrown ==
  ASSUME NEW m, Memory(m), NEW r, NEW i, NEW F, F \subseteq {"name", "ident"}
  PROVE  Memory(Batch!Remember(m, r, i, F))
<1>. DEFINE p == Batch!Remember(m, r, i, F)
<1>1. PICK G : G = Batch!NoData(m, r, i) \cup F
  OBVIOUS
<1>2. r \in Listed => G \subseteq {"name", "ident"}
  BY <1>1 DEF Batch!NoData, Memory
<1>3. DOMAIN p = Listed /\ \A q \in Listed : p[q] = m[q] \/ (q = r /\ p[q] = Batch!Entry(i, G))
  BY <1>1 DEF Batch!Remember, Memory
<1>. HIDE DEF p
<1>4. Batch!Entry(i, G).fields = G
  BY DEF Batch!Entry
<1>5. Memory(p)
  BY <1>2, <1>3, <1>4 DEF Memory
<1>. QED  BY <1>5 DEF p

LEMMA LackingFields == \A m, r, x, e : Batch!Lacking(m, r, x, e) \subseteq {"name", "ident"}
BY FieldsMissing DEF Batch!Lacking

(* A row of the plan that is ready has something to write.                 *)
LEMMA RowsFor ==
  /\ \A m, r, x, e : Batch!RowFor(m, r, x, e).status = "ready" => Batch!RowFor(m, r, x, e).fields # {}
  /\ \A s, i, e, F : Batch!Row(s, i, e, F).status = s /\ Batch!Row(s, i, e, F).fields = F
BY DEF Batch!RowFor, Batch!Row

(* A row that could not be written joins the failed ones.                  *)
LEMMA FailedRow ==
  ASSUME BatchTyped, NEW r \in Listed, NEW x, ToWrite(x), failed' = Batch!With(failed, r, x)
  PROVE  DOMAIN failed' \subseteq Listed /\ \A q \in DOMAIN failed' : ToWrite(failed'[q])
<1>1. \A q \in DOMAIN failed' : q = r \/ q \in DOMAIN failed
  BY RowDomains
<1>2. \A q \in DOMAIN failed' : failed'[q] = IF q = r THEN x ELSE failed[q]
  BY RowsKept
<1>. QED
  BY <1>1, <1>2 DEF BatchTyped, RowsOfRecords

(* At the start there is no plan.                                          *)
LEMMA BatchTypedInit == Batch!Init \/ Busy!Init => BatchTyped
<1>. SUFFICES ASSUME Batch!Init \/ Busy!Init PROVE BatchTyped
  OBVIOUS
<1>1. /\ remembered = Batch!Nothing /\ draft = Batch!Nothing /\ phase = "idle" /\ choosing = {} /\ writing = None
      /\ todo = Batch!NoRows /\ plan = Batch!NoRows /\ queue = Batch!NoRows /\ failed = Batch!NoRows
  BY SameOperators DEF Batch!Init, Busy!Init
<1>. QED
  BY <1>1, RowDomains, MemoryOfNothing DEF BatchTyped, RowsOfRecords

(* Every step keeps the types.                                             *)
LEMMA BatchTypedStep ==
  ASSUME BatchTyped, AnyBatchStep
  PROVE  BatchTyped'
<1>0. /\ RowsOfRecords /\ Memory(remembered) /\ Memory(draft)
      /\ phase # "planning" => todo = Batch!NoRows
      /\ phase # "applying" => queue = Batch!NoRows /\ writing = None
  BY DEF BatchTyped
<1>1. CASE PreparesPlan
  <2>. DEFINE m == Batch!Prune(remembered, list)
              targets == {r \in Listed : Batch!Candidate(m, r, list[r])}
  <2>1. Memory(m)
    BY <1>0, MemoryPruned
  <2>2. CASE targets = {}
    <3>1. remembered' = m /\ UNCHANGED <<phase, todo, draft, plan, queue, writing, failed, choosing>>
      BY <1>1, <2>2 DEF PreparesPlan
    <3>. HIDE DEF m
    <3>. QED
      BY <2>1, <3>1 DEF BatchTyped, RowsOfRecords
  <2>3. CASE targets # {}
    <3>1. /\ phase' = "planning" /\ todo' = [r \in targets |-> list[r]] /\ draft' = m
          /\ plan' = Batch!NoRows /\ queue' = Batch!NoRows /\ failed' = Batch!NoRows
          /\ UNCHANGED <<remembered, writing, choosing>> /\ writing = None
      BY <1>0, <1>1, <2>3 DEF PreparesPlan
    <3>2. DOMAIN todo' \subseteq Listed
      BY <3>1
    <3>. HIDE DEF m
    <3>. QED
      BY <2>1, <3>1, <3>2, RowDomains DEF BatchTyped, RowsOfRecords
  <2>. QED
    BY <2>2, <2>3
<1>2. CASE AppliesPlan
  <2>1. DOMAIN queue' \subseteq Listed /\ \A r \in DOMAIN queue' : ToWrite(queue'[r])
    <3>1. CASE queue' = [r \in Batch!Ready |-> plan[r]]
      BY <1>0, <3>1 DEF Batch!Ready, RowsOfRecords, BatchTyped, ToWrite
    <3>2. CASE queue' = failed
      BY <1>0, <3>2 DEF RowsOfRecords, BatchTyped
    <3>. QED
      BY <1>2, <3>1, <3>2 DEF AppliesPlan
  <2>2. /\ phase' = "applying" /\ failed' = Batch!NoRows /\ todo = Batch!NoRows
        /\ UNCHANGED <<remembered, todo, draft, plan, choosing, writing>>
    BY <1>0, <1>2 DEF AppliesPlan
  <2>. QED
    BY <2>1, <2>2, RowDomains DEF BatchTyped, RowsOfRecords
<1>3. CASE OthersStep
  BY <1>3 DEF OthersStep, BatchTyped, RowsOfRecords
<1>4. CASE Batch!Preview
  <2>1. /\ phase = "planning" /\ phase' = "preview" /\ todo' = Batch!NoRows /\ remembered' = draft
        /\ UNCHANGED <<draft, plan, choosing, queue, writing, failed>>
    BY <1>4 DEF Batch!Preview, Batch!applying
  <2>. QED
    BY <1>0, <2>1, RowDomains DEF BatchTyped, RowsOfRecords
<1>5. CASE Batch!Clear
  <2>1. remembered' = Batch!Nothing /\ UNCHANGED <<phase, todo, draft, plan, choosing, queue, writing, failed>>
    BY <1>5 DEF Batch!Clear, Batch!analysis, Batch!applying
  <2>. QED
    BY <2>1, MemoryOfNothing DEF BatchTyped, RowsOfRecords
<1>6. CASE Batch!Reset
  <2>1. /\ phase \in {"preview", "done"} /\ phase' = "idle" /\ plan' = Batch!NoRows /\ failed' = Batch!NoRows
        /\ UNCHANGED <<remembered, todo, draft, choosing, queue, writing>>
    BY <1>6 DEF Batch!Reset, Batch!analysis
  <2>. QED
    BY <1>0, <2>1, RowDomains DEF BatchTyped, RowsOfRecords
<1>7. CASE Batch!BeginRow
  <2>. DEFINE r == Batch!Min(DOMAIN queue)
              safe == queue[r].fields \cap Batch!Missing(list[r])
  <2>1. r \in DOMAIN queue /\ r \in Listed
    BY <1>0, <1>7, LeastRecord DEF Batch!BeginRow, RowsOfRecords
  <2>2. /\ phase = "applying" /\ queue' = Batch!Rest(queue, r)
        /\ \/ writing' = None
           \/ writing' = [r |-> r, row |-> queue[r], fields |-> safe, left |-> safe,
                          rev |-> list[r].rev, imdb |-> list[r].imdb]
        /\ UNCHANGED <<remembered, phase, todo, draft, plan, choosing, failed>>
    BY <1>7 DEF Batch!BeginRow, Batch!analysis
  <2>3. writing' # None => writing'.r = r /\ writing'.row = queue[r] /\ {"r", "row"} \subseteq DOMAIN writing'
    BY <2>2
  <2>4. ToWrite(queue[r])
    BY <2>1 DEF BatchTyped
  <2>. HIDE DEF r, safe
  <2>5. DOMAIN queue' \subseteq DOMAIN queue /\ \A q \in DOMAIN queue' : queue'[q] = queue[q]
    BY <2>2, RowDomains, RowsKept
  <2>. QED
    BY <2>1, <2>2, <2>3, <2>4, <2>5 DEF BatchTyped, RowsOfRecords
<1>8. CASE Batch!WriteName
  <2>1. /\ writing # None /\ writing.r \in Listed /\ ToWrite(writing.row) /\ {"r", "row"} \subseteq DOMAIN writing
        /\ phase = "applying" /\ UNCHANGED <<remembered, phase, todo, draft, plan, choosing, queue>>
    BY <1>8 DEF Batch!WriteName, Batch!analysis, BatchTyped
  <2>2. CASE table[writing.r] = None
    <3>1. failed' = Batch!With(failed, writing.r, writing.row) /\ writing' = None
      BY <1>8, <2>2 DEF Batch!WriteName
    <3>2. DOMAIN failed' \subseteq Listed /\ \A q \in DOMAIN failed' : ToWrite(failed'[q])
      BY <2>1, <3>1, FailedRow
    <3>. QED
      BY <2>1, <3>1, <3>2 DEF BatchTyped, RowsOfRecords
  <2>3. CASE table[writing.r] # None
    <3>1. /\ failed' = failed
          /\ \/ writing' = None
             \/ writing' = [writing EXCEPT !.left = {"ident"}, !.rev = @ + 1]
      BY <1>8, <2>3 DEF Batch!WriteName
    <3>2. writing' # None => writing'.r = writing.r /\ writing'.row = writing.row /\ {"r", "row"} \subseteq DOMAIN writing'
      BY <2>1, <3>1
    <3>. QED
      BY <2>1, <3>1, <3>2 DEF BatchTyped, RowsOfRecords
  <2>. QED
    BY <2>2, <2>3
<1>9. CASE Batch!WriteIdentity
  <2>1. /\ writing.r \in Listed /\ ToWrite(writing.row) /\ writing' = None
        /\ failed' = failed \/ failed' = Batch!With(failed, writing.r, writing.row)
        /\ UNCHANGED <<remembered, phase, todo, draft, plan, choosing, queue>>
    BY <1>9 DEF Batch!WriteIdentity, Batch!analysis, BatchTyped
  <2>2. DOMAIN failed' \subseteq Listed /\ \A q \in DOMAIN failed' : ToWrite(failed'[q])
    <3>1. CASE failed' = failed
      BY <1>0, <3>1 DEF BatchTyped, RowsOfRecords
    <3>2. CASE failed' = Batch!With(failed, writing.r, writing.row)
      BY <2>1, <3>2, FailedRow
    <3>. QED
      BY <2>1, <3>1, <3>2
  <2>. QED
    BY <2>1, <2>2 DEF BatchTyped, RowsOfRecords
<1>10. CASE Batch!EndApply
  <2>1. /\ phase = "applying" /\ writing = None /\ phase' = "done" /\ queue' = Batch!NoRows
        /\ UNCHANGED <<remembered, todo, draft, plan, choosing, writing, failed>>
    BY <1>10 DEF Batch!EndApply, Batch!analysis
  <2>. QED
    BY <1>0, <2>1, RowDomains DEF BatchTyped, RowsOfRecords
<1>11. ASSUME NEW answered \in BOOLEAN, Batch!Analyse(answered) PROVE BatchTyped'
  <2>. DEFINE r == Batch!Min(DOMAIN todo)
              x == todo[r]
  <2>1. r \in Listed
    BY <1>0, <1>11, LeastRecord DEF Batch!Analyse, RowsOfRecords
  <2>2. /\ phase = "planning" /\ todo' = Batch!Rest(todo, r)
        /\ UNCHANGED <<remembered, phase, choosing, queue, writing, failed>>
    BY <1>11 DEF Batch!Analyse, Batch!applying
  <2>3. PICK row : plan' = Batch!With(plan, r, row) /\ (row.status = "ready" => row.fields # {})
    <3>1. \/ plan' = Batch!With(plan, r, Batch!Row("failed", x.imdb, None, {}))
          \/ \E e : plan' = Batch!With(plan, r, Batch!RowFor(draft, r, x, e))
          \/ plan' = Batch!With(plan, r, Batch!Row("skipped", x.imdb, None, {}))
          \/ plan' = Batch!With(plan, r, Batch!Row("choice", x.imdb, None, {}))
      BY <1>11 DEF Batch!Analyse
    <3>. HIDE DEF r, x
    <3>. QED
      BY <3>1, RowsFor
  <2>4. Memory(draft')
    <3>1. draft' = draft \/ \E F \in SUBSET {"name", "ident"} : draft' = Batch!Remember(draft, r, x.imdb, F)
      <4>1. \/ draft' = draft
            \/ \E e : draft' = Batch!Remember(draft, r, x.imdb, Batch!Lacking(draft, r, x, e))
            \/ draft' = Batch!Remember(draft, r, x.imdb, Batch!Missing(x))
        BY <1>11 DEF Batch!Analyse
      <4>. HIDE DEF r, x
      <4>. QED
        BY <4>1, LackingFields, FieldsMissing
    <3>. HIDE DEF r, x
    <3>. QED
      BY <1>0, <3>1, MemoryGrown
  <2>. HIDE DEF r, x
  <2>5. DOMAIN todo' \subseteq Listed
    <3>1. \A q \in DOMAIN todo' : q \in DOMAIN todo
      BY <2>2, RowDomains
    <3>. QED
      BY <1>0, <3>1 DEF RowsOfRecords
  <2>6. DOMAIN plan' \subseteq Listed /\ \A q \in DOMAIN plan' : plan'[q].status = "ready" => plan'[q].fields # {}
    <3>1. \A q \in DOMAIN plan' : q = r \/ q \in DOMAIN plan
      BY <2>3, RowDomains
    <3>2. \A q \in DOMAIN plan' : plan'[q] = IF q = r THEN row ELSE plan[q]
      BY <2>3, RowsKept
    <3>. QED
      BY <1>0, <2>1, <2>3, <3>1, <3>2 DEF BatchTyped, RowsOfRecords
  <2>. QED
    BY <2>2, <2>4, <2>5, <2>6 DEF BatchTyped, RowsOfRecords
<1>12. ASSUME NEW r, NEW e, Batch!Choose(r, e) PROVE BatchTyped'
  <2>1. PICK c : c.read = None /\ choosing' = choosing \cup {c}
    <3>1. PICK c : c = [r |-> r, entity |-> e, row |-> list[r], read |-> None] /\ choosing' = choosing \cup {c}
      BY <1>12 DEF Batch!Choose
    <3>. QED
      BY <3>1
  <2>2. UNCHANGED <<remembered, phase, todo, draft, plan, queue, writing, failed>>
    BY <1>12 DEF Batch!Choose, Batch!analysis, Batch!applying
  <2>. QED
    BY <2>1, <2>2 DEF BatchTyped, RowsOfRecords
<1>13. ASSUME NEW c \in choosing, Batch!ChoiceRead(c) PROVE BatchTyped'
  <2>1. PICK d : choosing' = (choosing \ {c}) \cup {d} /\ (d.read = c.read \/ d.read = Batch!Prune(remembered, list))
    <3>1. PICK d : d = [c EXCEPT !.read = Batch!Prune(remembered, list)] /\ choosing' = (choosing \ {c}) \cup {d}
      BY <1>13 DEF Batch!ChoiceRead
    <3>2. d.read = c.read \/ d.read = Batch!Prune(remembered, list)
      BY <3>1
    <3>. QED
      BY <3>1, <3>2
  <2>2. Memory(Batch!Prune(remembered, list))
    BY <1>0, MemoryPruned
  <2>3. UNCHANGED <<remembered, phase, todo, draft, plan, queue, writing, failed>>
    BY <1>13 DEF Batch!ChoiceRead, Batch!analysis, Batch!applying
  <2>4. \A d2 \in choosing' : d2.read = None \/ Memory(d2.read)
    BY <2>1, <2>2 DEF BatchTyped
  <2>. QED
    BY <2>3, <2>4 DEF BatchTyped, RowsOfRecords
<1>14. ASSUME NEW c \in choosing, Batch!ChoiceFailed(c) PROVE BatchTyped'
  BY <1>14 DEF Batch!ChoiceFailed, Batch!analysis, Batch!applying, BatchTyped, RowsOfRecords
<1>15. ASSUME NEW c \in choosing, Batch!ChoiceWritten(c) PROVE BatchTyped'
  <2>1. Memory(c.read)
    BY <1>15 DEF Batch!ChoiceWritten, BatchTyped
  <2>2. Memory(remembered')
    <3>1. \/ remembered' = c.read
          \/ remembered' = Batch!Remember(c.read, c.r, c.row.imdb, Batch!Lacking(c.read, c.r, c.row, c.entity))
      BY <1>15 DEF Batch!ChoiceWritten
    <3>2. Batch!Lacking(c.read, c.r, c.row, c.entity) \subseteq {"name", "ident"}
      BY LackingFields
    <3>3. Memory(Batch!Remember(c.read, c.r, c.row.imdb, Batch!Lacking(c.read, c.r, c.row, c.entity)))
      BY <2>1, <3>2, MemoryGrown
    <3>. QED
      BY <2>1, <3>1, <3>3
  <2>3. DOMAIN plan' = DOMAIN plan /\ \A q \in DOMAIN plan : plan'[q].status = "ready" => plan'[q].fields # {}
    <3>1. PICK row : row = Batch!RowFor(c.read, c.r, c.row, c.entity)
      OBVIOUS
    <3>2. row.status = "ready" => row.fields # {}
      BY <3>1, RowsFor
    <3>3. plan' = plan \/ plan' = [plan EXCEPT ![c.r] = row]
      BY <1>15, <3>1 DEF Batch!ChoiceWritten
    <3>. QED
      BY <3>2, <3>3 DEF BatchTyped
  <2>4. choosing' \subseteq choosing /\ UNCHANGED <<phase, todo, draft, queue, writing, failed>>
    BY <1>15 DEF Batch!ChoiceWritten, Batch!analysis, Batch!applying
  <2>. QED
    BY <2>2, <2>3, <2>4 DEF BatchTyped, RowsOfRecords
<1>. QED
  BY <1>1, <1>2, <1>3, <1>4, <1>5, <1>6, <1>7, <1>8, <1>9, <1>10, <1>11, <1>12, <1>13, <1>14, <1>15 DEF AnyBatchStep

(* These are the types of the batch.                                       *)
LEMMA BatchTypes == Rows(table) /\ BatchTyped => Batch!TypeOK /\ Busy!TypeOK
<1>. SUFFICES ASSUME Rows(table), BatchTyped PROVE Batch!TypeOK /\ Busy!TypeOK
  OBVIOUS
<1>1. \A r \in Listed : table[r] # None => table[r].rev \in Nat /\ table[r].locked \in BOOLEAN
  BY DEF Rows, Batch!IsRow
<1>2. \A r \in Listed : remembered[r].fields \subseteq {"name", "ident"}
  BY DEF BatchTyped, Memory
<1>3. \A r \in DOMAIN queue : queue[r].status = "ready" /\ queue[r].fields # {}
  BY DEF BatchTyped, ToWrite
<1>. QED
  BY <1>1, <1>2, <1>3, SameOperators DEF BatchTyped, RowsOfRecords, Batch!TypeOK, Busy!TypeOK

-----------------------------------------------------------------------------
(*                         The screens side by side                        *)

\* The component that runs stays the same, and the others stand still.
LEMMA OneRuns ==
  ASSUME [AllNext]_allVars
  PROVE  /\ part' = part
         /\ part \in {"desktop", "mobile"} => [Next]_vars
         /\ part = "pages" => Pages!Next \/ UNCHANGED PagesVars
         /\ part = "views" => Views!Next \/ UNCHANGED ViewsVars
         /\ part = "query" => Query!Next \/ UNCHANGED QueryVars
         /\ part = "batch" => Batch!Next \/ UNCHANGED BatchVars
         /\ part = "busy batch" => Busy!Next \/ UNCHANGED BatchVars
BY DEF AllNext, allVars

\* A card action of the mobile surface writes over the content that was shown.
THEOREM CardActionsWriteOverWhatTheySaw == AllSpec => CardActionsSaw
<1>. DEFINE Inv  == part \in {"desktop", "mobile"} => Types /\ RevisionsTell
            Step == part = "mobile" => WritesOverWhatItSaw
<1>1. AllInit => Inv
  BY InitIsTyped, RevisionsInit DEF AllInit
<1>2. Inv /\ [AllNext]_allVars => Inv' /\ [Step]_allVars
  <2>. SUFFICES ASSUME Inv, [AllNext]_allVars, part \in {"desktop", "mobile"}
                PROVE  (Types /\ RevisionsTell)' /\ [Step]_allVars
    BY OneRuns
  <2>1. [Next]_vars
    BY OneRuns
  <2>2. (Types /\ RevisionsTell)' /\ [WritesOverWhatItSaw]_vars
    BY <2>1, TypesInductive, RevisionsInductive, StepsWriteOverWhatWasSeen
  <2>3. UNCHANGED vars => WritesOverWhatItSaw
    BY DEF vars, WritesOverWhatItSaw
  <2>. QED
    BY <2>2, <2>3
<1>. QED
  BY <1>1, <1>2, PTL DEF AllSpec, CardActionsSaw

\* Each component's state has its types: what is open, queued, stored or
\* remembered is of the kind its code takes it for.
THEOREM ScreensAreTyped == AllSpec => []StatesAreTyped
<1>. DEFINE Inv == /\ part \in {"desktop", "mobile"} => Types
                   /\ part = "pages" => PagesInv /\ PagesTyped
                   /\ part = "views" => ViewsInv /\ ViewsTyped
                   /\ part = "query" => QueryInv /\ QueryTyped
                   /\ part \in {"batch", "busy batch"} => Rows(table) /\ BatchTyped
                   /\ part = "batch" => BatchInv
<1>1. AllInit => Inv
  BY InitIsTyped, PagesInit, PagesTypedInit, ViewsInit, ViewsTypedInit, QueryInit, QueryTypedInit,
     BatchInit, BusyInit, BatchTypedInit DEF AllInit, BatchInv
<1>2. Inv /\ [AllNext]_allVars => Inv'
  <2>. SUFFICES ASSUME Inv, [AllNext]_allVars PROVE Inv'
    OBVIOUS
  <2>0. part' = part
    BY OneRuns
  <2>1. ASSUME part \in {"desktop", "mobile"} PROVE Types'
    BY <2>1, OneRuns, TypesInductive
  <2>2. ASSUME part = "pages" PROVE (PagesInv /\ PagesTyped)'
    <3>1. CASE Pages!Next
      BY <2>2, <3>1, PagesStep, PagesTypedStep
    <3>2. CASE UNCHANGED PagesVars
      BY <2>2, <3>2 DEF PagesVars, PagesInv, Pages!PageIsTheEntry, PagesTyped
    <3>. QED
      BY <2>2, <3>1, <3>2, OneRuns
  <2>3. ASSUME part = "views" PROVE (ViewsInv /\ ViewsTyped)'
    <3>1. CASE Views!Next
      BY <2>3, <3>1, ViewsStep, ViewsTypedStep
    <3>2. CASE UNCHANGED ViewsVars
      BY <2>3, <3>2 DEF ViewsVars, ViewsInv, OneCallAtMost, Views!AnswersAreKept, Views!At, ViewsTyped
    <3>. QED
      BY <2>3, <3>1, <3>2, OneRuns
  <2>4. ASSUME part = "query" PROVE (QueryInv /\ QueryTyped)'
    <3>1. CASE Query!Next
      BY <2>4, <3>1, QueryStep, QueryTypedStep
    <3>2. CASE UNCHANGED QueryVars
      BY <2>4, <3>2 DEF QueryVars, QueryInv, QueryTyped
    <3>. QED
      BY <2>4, <3>1, <3>2, OneRuns
  <2>5. ASSUME part = "batch" PROVE (BatchInv /\ Rows(table) /\ BatchTyped)'
    <3>1. CASE Batch!Next
      BY <2>5, <3>1, BatchStep, BatchSteps, BatchTypedStep DEF BatchInv
    <3>2. CASE UNCHANGED BatchVars
      BY <2>5, <3>2, NothingWritten DEF BatchVars, BatchInv, BatchTyped, RowsOfRecords
    <3>. QED
      BY <2>5, <3>1, <3>2, OneRuns
  <2>6. ASSUME part = "busy batch" PROVE (Rows(table) /\ BatchTyped)'
    <3>1. CASE Busy!Next
      BY <2>6, <3>1, BusyStep, BusySteps, BatchTypedStep
    <3>2. CASE UNCHANGED BatchVars
      BY <2>6, <3>2 DEF BatchVars, Rows, BatchTyped, RowsOfRecords
    <3>. QED
      BY <2>6, <3>1, <3>2, OneRuns
  <2>. QED
    BY <2>0, <2>1, <2>2, <2>3, <2>4, <2>5, <2>6
<1>3. Inv => StatesAreTyped
  BY PagesTypes, ViewsTypes, QueryTypes, BatchTypes DEF StatesAreTyped, Types
<1>. QED
  BY <1>1, <1>2, <1>3, PTL DEF AllSpec

\* A page of the mobile surface is the entry of the history it claims to be.
THEOREM PagesFollowTheHistory == AllSpec => []PageIsTheEntry
<1>. DEFINE Inv == part = "pages" => PagesInv
<1>1. AllInit => Inv
  BY PagesInit DEF AllInit
<1>2. Inv /\ [AllNext]_allVars => Inv'
  <2>1. UNCHANGED PagesVars /\ PagesInv => PagesInv'
    BY DEF PagesVars, PagesInv, Pages!PageIsTheEntry
  <2>. QED
    BY <2>1, OneRuns, PagesStep
<1>3. Inv => PageIsTheEntry
  BY DEF PagesInv, PageIsTheEntry
<1>. QED
  BY <1>1, <1>2, <1>3, PTL DEF AllSpec

\* What the user has been told of a saved view stays so.
THEOREM ViewsAreKept == AllSpec => []AnswersAreKept
<1>. DEFINE Inv == part = "views" => ViewsInv
<1>1. AllInit => Inv
  BY ViewsInit DEF AllInit
<1>2. Inv /\ [AllNext]_allVars => Inv'
  <2>1. UNCHANGED ViewsVars /\ ViewsInv => ViewsInv'
    BY DEF ViewsVars, ViewsInv, OneCallAtMost, Views!AnswersAreKept, Views!At
  <2>. QED
    BY <2>1, OneRuns, ViewsStep
<1>3. Inv => AnswersAreKept
  BY DEF ViewsInv, AnswersAreKept
<1>. QED
  BY <1>1, <1>2, <1>3, PTL DEF AllSpec

\* The number beside an option is the number of records it selects, and a
\* selected region keeps its button.
THEOREM OptionsAreTrue == AllSpec => []OptionsTellTheTruth
<1>. DEFINE Inv == part = "query" => QueryInv
<1>1. AllInit => Inv
  BY QueryInit DEF AllInit
<1>2. Inv /\ [AllNext]_allVars => Inv'
  <2>1. UNCHANGED QueryVars /\ QueryInv => QueryInv'
    BY DEF QueryVars, QueryInv
  <2>. QED
    BY <2>1, OneRuns, QueryStep
<1>3. Inv => OptionsTellTheTruth
  BY QueryTells DEF OptionsTellTheTruth
<1>. QED
  BY <1>1, <1>2, <1>3, PTL DEF AllSpec

\* The batch writes over missing fields of unlocked records while nothing else
\* writes, and whatever others write gives no entity to two records.
THEOREM BatchWritesWhatIsMissing == AllSpec => WritesWhatItChecked
<1>. DEFINE Inv == (part = "batch" => BatchInv) /\ (part = "busy batch" => Rows(table))
            Step == /\ part = "batch" => Batch!WritesMissing
                    /\ part = "busy batch" => Busy!IdentityOnceStep
<1>1. AllInit => Inv
  BY BatchInit, BusyInit DEF AllInit
<1>2. Inv /\ [AllNext]_allVars => Inv' /\ Step
  <2>. SUFFICES ASSUME Inv, [AllNext]_allVars PROVE Inv' /\ Step
    OBVIOUS
  <2>1. UNCHANGED BatchVars /\ BatchInv => BatchInv' /\ Batch!WritesMissing
    BY NothingWritten DEF BatchVars, BatchInv, RowsOfRecords
  <2>2. UNCHANGED BatchVars /\ Rows(table) => Rows(table') /\ Busy!IdentityOnceStep
    BY DEF BatchVars, Busy!IdentityOnceStep
  <2>. QED
    BY <2>1, <2>2, OneRuns, BatchStep, BusyStep
<1>3. Inv /\ [AllNext]_allVars => [Step]_allVars
  BY <1>2
<1>. QED
  BY <1>1, <1>2, <1>3, PTL DEF AllSpec, WritesWhatItChecked
=============================================================================
