----------------------------- MODULE CentreProofs -----------------------------
(***************************************************************************)
(* The collection centre, for any collections, records, names, shows and   *)
(* movies: what a save of the record form does to memberships, what        *)
(* completing a series or a movie collection makes, and what a search for  *)
(* collections suggests.  Each section has the invariant of one component, *)
(* shows that every step keeps it, and the last one is about the centre as *)
(* a whole.                                                                *)
(***************************************************************************)
EXTENDS Centre, FiniteSetTheorems, SequenceTheorems, TLAPS

-----------------------------------------------------------------------------
(*                          Saving a record                                *)

(* A command keeps what it is while it is called, runs and is read.        *)
IsCommand(op) == {"kind", "from", "meant", "stage", "read"} \subseteq DOMAIN op

IsSeq(s) == s \in Seq(ToSet(s))

Shapes ==
  /\ IsSeq(ops) /\ IsSeq(saving)
  /\ \A i \in DOMAIN ops : IsCommand(ops[i])
  /\ \A i \in DOMAIN saving : IsCommand(saving[i])
  /\ page = "form" => form \in Form

(* What the save has still to call takes away only what the user meant.    *)
SavingIsMeant == \A i \in DOMAIN saving : saving[i].kind = "remove" => saving[i].meant

(* Outside the form there is nothing of it under way ...                   *)
FormIsOver ==
  page # "form" => saving = <<>> /\ NoneFromForm

(* ... and until it is sent nothing is under way at all, so that the copy  *)
(* stays the one from which the form took its ticks.                       *)
TicksAreCurrent ==
  page = "form" /\ ~form.sent =>
    DOMAIN ops = {} /\ saving = <<>> /\ Ticked(form.rec) \ form.chosen \subseteq form.off

FormInv == Shapes /\ SavingIsMeant /\ FormIsOver /\ TicksAreCurrent /\ SaveKeepsUntouched

-----------------------------------------------------------------------------
(*                               Sequences                                 *)

(* A sequence over any set is one over its own elements.                   *)
LEMMA SeqIsSeq ==
  ASSUME NEW S, NEW s \in Seq(S)
  PROVE  IsSeq(s) /\ Len(s) \in Nat /\ DOMAIN s = 1..Len(s)
<1>1. /\ Len(s) \in Nat /\ DOMAIN s = 1..Len(s) /\ s = [i \in 1..Len(s) |-> s[i]]
  OBVIOUS
<1>2. \A i \in 1..Len(s) : s[i] \in ToSet(s)
  BY <1>1 DEF ToSet
<1>. QED
  BY <1>1, <1>2, IsASeq DEF IsSeq

(* Appending a command.                                                    *)
LEMMA AppendIsSeq ==
  ASSUME NEW s, IsSeq(s), NEW x
  PROVE  /\ IsSeq(Append(s, x))
         /\ \A j \in DOMAIN Append(s, x) :
              Append(s, x)[j] = x \/ \E i \in DOMAIN s : Append(s, x)[j] = s[i]
<1>. DEFINE S == ToSet(s) \cup {x}
<1>1. s \in Seq(S) /\ x \in S
  BY SeqMonotonic DEF IsSeq
<1>. HIDE DEF S
<1>2. /\ Append(s, x) \in Seq(S) /\ Len(Append(s, x)) = Len(s) + 1
      /\ \A i \in 1..Len(s) : Append(s, x)[i] = s[i]
      /\ Append(s, x)[Len(s) + 1] = x
  BY <1>1, AppendProperties
<1>3. /\ IsSeq(Append(s, x)) /\ DOMAIN Append(s, x) = 1..(Len(s) + 1)
      /\ DOMAIN s = 1..Len(s) /\ Len(s) \in Nat
  BY <1>1, <1>2, SeqIsSeq
<1>. QED
  BY <1>2, <1>3

(* Dropping the first command, or any.                                     *)
LEMMA TailIsSeq ==
  ASSUME NEW s, IsSeq(s), s # <<>>
  PROVE  /\ IsSeq(Tail(s)) /\ Head(s) = s[1] /\ 1 \in DOMAIN s
         /\ \A j \in DOMAIN Tail(s) : \E i \in DOMAIN s : Tail(s)[j] = s[i]
<1>. DEFINE S == ToSet(s)
<1>1. s \in Seq(S)
  BY DEF IsSeq
<1>. HIDE DEF S
<1>2. Tail(s) \in Seq(S) /\ Head(s) = s[1] /\ 1 \in DOMAIN s
  BY <1>1
<1>3. \A j \in DOMAIN Tail(s) : j + 1 \in DOMAIN s /\ Tail(s)[j] = s[j + 1]
  BY <1>1
<1>. QED
  BY <1>2, <1>3, SeqIsSeq

(* So does what remains of a sequence when an element is taken out.        *)
LEMMA RemoveAtIsSeq ==
  ASSUME NEW s, IsSeq(s), NEW i \in DOMAIN s
  PROVE  /\ IsSeq(RemoveAt(s, i))
         /\ \A j \in DOMAIN RemoveAt(s, i) : \E k \in DOMAIN s : RemoveAt(s, i)[j] = s[k]
<1>. DEFINE S == ToSet(s)
            a == SubSeq(s, 1, i - 1)
            b == SubSeq(s, i + 1, Len(s))
<1>1. s \in Seq(S) /\ Len(s) \in Nat /\ i \in 1..Len(s)
  BY SeqIsSeq DEF IsSeq
<1>. HIDE DEF S
<1>2. /\ a \in Seq(S) /\ Len(a) = i - 1
      /\ \A j \in 1..(i - 1) : a[j] = s[j]
  BY <1>1, SubSeqProperties
<1>3. /\ b \in Seq(S) /\ Len(b) = Len(s) - i
      /\ \A j \in 1..(Len(s) - i) : b[j] = s[i + j]
  BY <1>1, SubSeqProperties
<1>4. RemoveAt(s, i) = a \o b
  BY DEF RemoveAt
<1>. HIDE DEF a, b
<1>5. /\ a \o b \in Seq(S) /\ DOMAIN (a \o b) = 1..(Len(s) - 1)
      /\ \A j \in 1..(Len(s) - 1) :
           (a \o b)[j] = IF j <= i - 1 THEN a[j] ELSE b[j - (i - 1)]
  BY <1>1, <1>2, <1>3
<1>6. \A j \in 1..(Len(s) - 1) :
        /\ j <= i - 1 => j \in 1..(i - 1) /\ j \in 1..Len(s)
        /\ ~(j <= i - 1) => j - (i - 1) \in 1..(Len(s) - i) /\ j + 1 \in 1..Len(s)
                            /\ i + (j - (i - 1)) = j + 1
  BY <1>1
<1>7. \A j \in 1..(Len(s) - 1) :
        (a \o b)[j] = IF j <= i - 1 THEN s[j] ELSE s[j + 1]
  BY <1>1, <1>2, <1>3, <1>5, <1>6
<1>. QED
  BY <1>1, <1>4, <1>5, <1>6, <1>7, SeqIsSeq

(* Changing one command.                                                   *)
LEMMA ExceptIsSeq ==
  ASSUME NEW s, IsSeq(s), NEW i \in DOMAIN s, NEW x
  PROVE  /\ IsSeq([s EXCEPT ![i] = x])
         /\ DOMAIN [s EXCEPT ![i] = x] = DOMAIN s
         /\ \A j \in DOMAIN s : [s EXCEPT ![i] = x][j] = IF j = i THEN x ELSE s[j]
<1>. DEFINE S == ToSet(s) \cup {x}
<1>1. s \in Seq(S) /\ x \in S
  BY SeqMonotonic DEF IsSeq
<1>. HIDE DEF S
<1>2. [s EXCEPT ![i] = x] \in Seq(S)
  BY <1>1, SeqIsSeq, ExceptSeq
<1>. QED
  BY <1>1, <1>2, SeqIsSeq

(* The elements of a finite set in some order.                             *)
LEMMA SetToSeqIsSeq ==
  ASSUME NEW S, IsFiniteSet(S)
  PROVE  SetToSeq(S) \in Seq(S)
<1>1. Cardinality(S) \in Nat /\ ExistsBijection(1..Cardinality(S), S)
  BY FS_CardinalityType
<1>2. \E f \in [1..Cardinality(S) -> S] : IsInjective(f)
  BY <1>1 DEF ExistsBijection, Bijection, Injection, IsInjective
<1>3. SetToSeq(S) \in [1..Cardinality(S) -> S]
  BY <1>2 DEF SetToSeq
<1>. QED
  BY <1>1, <1>3

-----------------------------------------------------------------------------
(*                                  Steps                                  *)

(* A command that is called.                                               *)
LEMMA OpIsCommand ==
  ASSUME NEW kind, NEW c, NEW v, NEW name, NEW mode, NEW rs, NEW from
  PROVE  LET op == Op(kind, c, v, name, mode, rs, from)
         IN  IsCommand(op) /\ op.kind = kind /\ op.from = from /\ op.meant
BY DEF Op, IsCommand

(* The commands after a step are commands there were before, as they were  *)
(* but for their progress and for the centre that called them being gone.  *)
SameCommand(new, old) ==
  /\ IsCommand(new) /\ new.kind = old.kind /\ new.meant = old.meant
  /\ new.from = old.from \/ (new.from = "gone" /\ old.from = "center")

NoNewCommand ==
  /\ IsSeq(ops)'
  /\ \A j \in DOMAIN ops' : \E i \in DOMAIN ops : SameCommand(ops'[j], ops[i])

(* The answers bring no command; while the form is untouched the copy      *)
(* stays unless there was a command.                                       *)
LEMMA AnswersBringNone ==
  ASSUME Shapes, NEW i \in DOMAIN ops, Refuse(i) \/ Execute(i) \/ Read(i) \/ Show(i)
  PROVE  NoNewCommand
<1>0. IsSeq(ops) /\ \A j \in DOMAIN ops : IsCommand(ops[j]) /\ SameCommand(ops[j], ops[j])
  BY DEF Shapes, SameCommand
<1>1. CASE Refuse(i) \/ Show(i)
  <2>1. ops' = RemoveAt(ops, i)
    BY <1>1 DEF Refuse, Show
  <2>. QED  BY <1>0, <2>1, RemoveAtIsSeq DEF NoNewCommand, IsSeq
<1>2. CASE Execute(i)
  <2>. DEFINE x == [ops[i] EXCEPT !.stage = "ran"]
  <2>1. ops' = [ops EXCEPT ![i] = x]
    BY <1>2 DEF Execute
  <2>2. SameCommand(x, ops[i])
    BY <1>0 DEF SameCommand, IsCommand
  <2>. HIDE DEF x
  <2>. QED  BY <1>0, <2>1, <2>2, ExceptIsSeq DEF NoNewCommand, IsSeq
<1>3. CASE Read(i)
  <2>. DEFINE x == [ops[i] EXCEPT !.stage = "read", !.read = db]
  <2>1. ops' = [ops EXCEPT ![i] = x]
    BY <1>0, <1>3, ExceptIsSeq DEF Read
  <2>2. SameCommand(x, ops[i])
    BY <1>0 DEF SameCommand, IsCommand
  <2>. HIDE DEF x
  <2>. QED  BY <1>0, <2>1, <2>2, ExceptIsSeq DEF NoNewCommand, IsSeq
<1>. QED
  BY <1>1, <1>2, <1>3

(* Leaving the centre takes its commands from it.                          *)
LEMMA LeaveBringsNone ==
  ASSUME Shapes, NEW next, Leave(next)
  PROVE  NoNewCommand
<1>. DEFINE new(i) == IF ops[i].from = "center" THEN [ops[i] EXCEPT !.from = "gone"] ELSE ops[i]
            S == {new(i) : i \in DOMAIN ops}
<1>1. /\ ops' = [i \in 1..Len(ops) |-> new(i)]
      /\ Len(ops) \in Nat /\ DOMAIN ops = 1..Len(ops)
  BY SeqIsSeq DEF Leave, Shapes, IsSeq
<1>2. ASSUME NEW i \in DOMAIN ops
      PROVE  new(i) \in S /\ SameCommand(new(i), ops[i])
  BY DEF Shapes, IsCommand, SameCommand
<1>. HIDE DEF new, S
<1>3. ops' \in Seq(S)
  BY <1>1, <1>2, IsASeq
<1>4. IsSeq(ops)'
  BY <1>3, SeqIsSeq DEF IsSeq
<1>. QED
  BY <1>1, <1>2, <1>4 DEF NoNewCommand

(* A step that brings no command, and whose save has no more to call.      *)
LEMMA NoneBrought ==
  ASSUME FormInv, NoNewCommand, saving' \in {saving, <<>>}
  PROVE  /\ (IsSeq(ops) /\ IsSeq(saving))'
         /\ (\A i \in DOMAIN ops : IsCommand(ops[i]))'
         /\ (\A i \in DOMAIN saving : IsCommand(saving[i]))'
         /\ SavingIsMeant' /\ SaveKeepsUntouched'
         /\ NoneFromForm => NoneFromForm'
         /\ DOMAIN ops = {} => DOMAIN ops' = {}
         /\ saving = <<>> => saving' = <<>>
<1>1. (IsSeq(ops))' /\ \A j \in DOMAIN ops' : \E i \in DOMAIN ops : SameCommand(ops'[j], ops[i])
  BY DEF NoNewCommand
<1>2. (IsSeq(saving))'
  <2>1. IsSeq(<<>>)
    BY EmptySeq, SeqIsSeq
  <2>. QED  BY <2>1 DEF FormInv, Shapes, IsSeq
<1>3. (\A i \in DOMAIN ops : IsCommand(ops[i]))' /\ SaveKeepsUntouched'
  BY <1>1 DEF SameCommand, FormInv, SaveKeepsUntouched
<1>4. (\A i \in DOMAIN saving : IsCommand(saving[i]))' /\ SavingIsMeant'
  BY DEF FormInv, Shapes, SavingIsMeant
<1>5. NoneFromForm => NoneFromForm'
  BY <1>1 DEF SameCommand, NoneFromForm
<1>. QED
  BY <1>1, <1>2, <1>3, <1>4, <1>5

(* Calls of the centre and of the library, while there is no form.         *)
LEMMA CallKeeps ==
  ASSUME FormInv, page # "form", NEW op, IsCommand(op), op.from # "form",
         ops' = Append(ops, op), UNCHANGED <<saving, page>>
  PROVE  FormInv'
<1>1. /\ IsSeq(ops)'
      /\ \A j \in DOMAIN ops' : ops'[j] = op \/ \E i \in DOMAIN ops : ops'[j] = ops[i]
  BY AppendIsSeq DEF FormInv, Shapes, IsSeq
<1>2. saving = <<>> /\ NoneFromForm
  BY DEF FormInv, FormIsOver
<1>3. Shapes' /\ SavingIsMeant'
  BY <1>1 DEF FormInv, Shapes, SavingIsMeant, IsSeq
<1>4. FormIsOver' /\ TicksAreCurrent' /\ SaveKeepsUntouched'
  BY <1>1, <1>2 DEF FormInv, FormIsOver, NoneFromForm, TicksAreCurrent, SaveKeepsUntouched
<1>. QED
  BY <1>3, <1>4 DEF FormInv

(* The buttons of the centre, and the library's deletion of a record.      *)
LEMMA CallsKeep ==
  ASSUME FormInv, \/ OnSelected
                  \/ \E c \in Cid : \E n \in Name : Create(c, n)
                  \/ \E r \in Rec : DeleteRecord(r)
  PROVE  FormInv'
<1>1. ASSUME NEW kind, NEW c, NEW v, NEW name, NEW mode, NEW rs,
             CenterCall(Op(kind, c, v, name, mode, rs, "center"))
      PROVE  FormInv'
  <2>. DEFINE op == Op(kind, c, v, name, mode, rs, "center")
  <2>1. IsCommand(op) /\ op.from # "form"
    BY OpIsCommand
  <2>. HIDE DEF op
  <2>2. page # "form" /\ ops' = Append(ops, op) /\ UNCHANGED <<saving, page>>
    BY <1>1 DEF CenterCall, Call, Send, screen, op
  <2>. QED  BY <2>1, <2>2, CallKeeps
<1>2. ASSUME NEW r \in Rec, DeleteRecord(r)
      PROVE  FormInv'
  <2>. DEFINE op == Op("detach", None, 0, None, None, <<r>>, "library")
  <2>1. IsCommand(op) /\ op.from # "form"
    BY OpIsCommand
  <2>. HIDE DEF op
  <2>2. page # "form" /\ ops' = Append(ops, op) /\ UNCHANGED <<saving, page>>
    BY <1>2 DEF DeleteRecord, Call, Send, screen, op
  <2>. QED  BY <2>1, <2>2, CallKeeps
<1>3. CASE OnSelected
  BY <1>1, <1>3 DEF OnSelected, SaveEdit, SetOrderMode, DeleteSelected, AddSelectedRecords,
                    RemoveMember, Move
<1>4. ASSUME NEW c \in Cid, NEW n \in Name, Create(c, n)
      PROVE  FormInv'
  BY <1>1, <1>4 DEF Create
<1>. QED
  BY <1>2, <1>3, <1>4

(* Answers: the form may be open, but then a command is under way, so that *)
(* the form has been sent.                                                 *)
LEMMA AnswersKeep ==
  ASSUME FormInv, Answers
  PROVE  FormInv'
<1>1. PICK i \in DOMAIN ops : Refuse(i) \/ Execute(i) \/ Read(i) \/ Show(i)
  BY DEF Answers
<1>2. NoNewCommand
  BY <1>1, AnswersBringNone DEF FormInv
<1>3. page' = page /\ form' = form /\ saving' \in {saving, <<>>}
  BY <1>1 DEF Refuse, Execute, Read, Show, screen, Ended
<1>4. page = "form" => form.sent
  BY <1>1 DEF FormInv, TicksAreCurrent
<1>. QED
  BY <1>2, <1>3, <1>4, NoneBrought DEF FormInv, Shapes, FormIsOver, TicksAreCurrent

(* The steps that touch neither the commands nor the form.                 *)
LEMMA OthersKeep ==
  ASSUME FormInv, \/ UNCHANGED vars
                  \/ \E c \in Cid : Select(c) \/ Sync(c)
                  \/ \E c \in Cid \cup {None} : OpenCenter(c)
  PROVE  FormInv'
<1>1. /\ UNCHANGED <<ops, saving, form, shown>>
      /\ page' = page \/ (page # "form" /\ page' # "form")
  BY DEF vars, Select, Sync, Synced, OpenCenter, screen
<1>2. Shapes' /\ SavingIsMeant' /\ SaveKeepsUntouched'
  BY <1>1 DEF FormInv, Shapes, SavingIsMeant, SaveKeepsUntouched, IsSeq
<1>3. FormIsOver' /\ TicksAreCurrent'
  BY <1>1 DEF FormInv, FormIsOver, TicksAreCurrent, NoneFromForm, Ticked, Members, Live
<1>. QED
  BY <1>2, <1>3 DEF FormInv

(* A form opens on the copy as it is, with nothing under way.              *)
LEMMA EditKeeps ==
  ASSUME FormInv, ~OpenWhileBusy, NEW r \in Rec, EditRecord(r)
  PROVE  FormInv'
<1>1. NoNewCommand
  BY LeaveBringsNone DEF EditRecord, FormInv
<1>2. /\ page # "form" /\ page' = "form" /\ UNCHANGED <<saving, shown>> /\ ops = <<>>
      /\ form' = [rec |-> r, chosen |-> Ticked(r), off |-> {}, sent |-> FALSE]
  BY DEF EditRecord, Leave
<1>3. DOMAIN ops = {} /\ saving = <<>>
  BY <1>2 DEF FormInv, FormIsOver
<1>4. Ticked(r) \in SUBSET Cid
  BY DEF Ticked
<1>5. form' \in Form /\ Ticked(form'.rec) \ form'.chosen = {}
  BY <1>2, <1>4 DEF Form
<1>6. Ticked(form.rec)' = Ticked(form'.rec)
  BY <1>2 DEF Ticked, Members, Live
<1>7. Shapes' /\ SavingIsMeant' /\ SaveKeepsUntouched' /\ DOMAIN ops' = {}
  BY <1>1, <1>2, <1>3, <1>5, NoneBrought DEF Shapes
<1>. QED
  BY <1>2, <1>3, <1>5, <1>6, <1>7 DEF FormInv, FormIsOver, TicksAreCurrent

(* The centre is closed.                                                   *)
LEMMA CloseCenterKeeps ==
  ASSUME FormInv, CloseCenter
  PROVE  FormInv'
<1>1. NoNewCommand
  BY LeaveBringsNone DEF CloseCenter, FormInv
<1>2. page # "form" /\ page' # "form" /\ UNCHANGED saving
  BY DEF CloseCenter, Leave
<1>3. saving = <<>> /\ NoneFromForm
  BY <1>2 DEF FormInv, FormIsOver
<1>. QED
  BY <1>1, <1>2, <1>3, NoneBrought DEF FormInv, Shapes, FormIsOver, TicksAreCurrent

(* A tick is set or taken away.                                            *)
LEMMA TickKeeps ==
  ASSUME FormInv, NEW c \in Cid, Tick(c)
  PROVE  FormInv'
<1>1. /\ page = "form" /\ page' = page /\ form \in Form /\ ~form.sent
      /\ UNCHANGED <<ops, saving, shown>>
      /\ form' = [form EXCEPT !.chosen = SymDiff(@, {c}),
                              !.off = IF c \in form.chosen THEN @ \cup {c} ELSE @ \ {c}]
  BY DEF Tick, FormInv, Shapes
<1>2. /\ form'.rec = form.rec /\ form'.sent = form.sent
      /\ form'.chosen = SymDiff(form.chosen, {c})
      /\ form'.off = IF c \in form.chosen THEN form.off \cup {c} ELSE form.off \ {c}
      /\ form' \in Form
  BY <1>1 DEF Form, SymDiff
<1>3. Ticked(form.rec) \ form.chosen \subseteq form.off
  BY <1>1 DEF FormInv, TicksAreCurrent
<1>4. Ticked(form.rec) \ form'.chosen \subseteq form'.off
  BY <1>2, <1>3 DEF SymDiff
<1>5. Ticked(form.rec)' = Ticked(form.rec)
  BY <1>1, <1>2 DEF Ticked, Members, Live
<1>6. Shapes' /\ SavingIsMeant' /\ SaveKeepsUntouched'
  BY <1>1, <1>2 DEF FormInv, Shapes, SavingIsMeant, SaveKeepsUntouched, IsSeq
<1>7. FormIsOver' /\ TicksAreCurrent'
  BY <1>1, <1>2, <1>4, <1>5 DEF FormInv, FormIsOver, TicksAreCurrent
<1>. QED
  BY <1>6, <1>7 DEF FormInv

(* The form is left, unsent or with nothing more to call.                  *)
LEMMA CloseKeeps ==
  ASSUME FormInv, CloseForm
  PROVE  FormInv'
<1>1. page' # "form" /\ UNCHANGED <<ops, saving>>
  BY DEF CloseForm
<1>2. saving = <<>> /\ NoneFromForm
  BY DEF CloseForm, FormInv, TicksAreCurrent, NoneFromForm
<1>3. Shapes' /\ SavingIsMeant' /\ SaveKeepsUntouched'
  BY <1>1 DEF FormInv, Shapes, SavingIsMeant, SaveKeepsUntouched, IsSeq
<1>4. FormIsOver' /\ TicksAreCurrent'
  BY <1>1, <1>2 DEF FormIsOver, TicksAreCurrent, NoneFromForm
<1>. QED
  BY <1>3, <1>4 DEF FormInv

(* The next command of the save is called.                                 *)
LEMMA SaveNextKeeps ==
  ASSUME FormInv, SaveNext
  PROVE  FormInv'
<1>1. /\ saving # <<>> /\ ops' = Append(ops, Head(saving)) /\ saving' = Tail(saving)
      /\ UNCHANGED <<page, form>>
  BY DEF SaveNext, Send, screen
<1>2. page = "form" /\ form.sent
  BY <1>1 DEF FormInv, FormIsOver, TicksAreCurrent
<1>3. /\ IsSeq(saving)' /\ Head(saving) = saving[1] /\ 1 \in DOMAIN saving
      /\ \A j \in DOMAIN saving' : \E i \in DOMAIN saving : saving'[j] = saving[i]
  BY <1>1, TailIsSeq DEF FormInv, Shapes, IsSeq
<1>4. /\ IsSeq(ops)'
      /\ \A j \in DOMAIN ops' : ops'[j] = saving[1] \/ \E i \in DOMAIN ops : ops'[j] = ops[i]
  BY <1>1, <1>3, AppendIsSeq DEF FormInv, Shapes, IsSeq
<1>5. Shapes' /\ SavingIsMeant' /\ SaveKeepsUntouched'
  BY <1>1, <1>3, <1>4 DEF FormInv, Shapes, SavingIsMeant, SaveKeepsUntouched
<1>6. FormIsOver' /\ TicksAreCurrent'
  BY <1>1, <1>2 DEF FormIsOver, TicksAreCurrent
<1>. QED
  BY <1>5, <1>6 DEF FormInv

(* The form is sent: each removal is of a tick that the user took away.    *)
LEMMA SaveFormKeeps ==
  ASSUME FormInv, NEW drafts \in Drafts, SaveForm(drafts)
  PROVE  FormInv'
<1>. DEFINE r == form.rec
            missing == Ticked(r) \ form.chosen
            added == (form.chosen \ Ticked(r)) \cap Live(shown)
            gone == SetToSeq(missing)
            new == SetToSeq(added)
            removal(c) == [Op("remove", c, shown[c].rows[r].rev, None, None, <<r>>, "form")
                             EXCEPT !.meant = c \in form.off]
            addition(c) == Op("add", c, shown[c].rev, None, None, <<r>>, "form")
            a == [i \in DOMAIN gone |-> removal(gone[i])]
            b == [i \in DOMAIN new |-> addition(new[i])]
            Good(op) == IsCommand(op) /\ (op.kind = "remove" => op.meant)
            S == {removal(c) : c \in missing} \cup {addition(c) : c \in added} \cup ToSet(drafts)
<1>1. /\ page = "form" /\ page' = page /\ form \in Form /\ ~form.sent
      /\ form' = [form EXCEPT !.sent = TRUE] /\ UNCHANGED ops
      /\ saving' = a \o b \o drafts
  BY DEF SaveForm, FormInv, Shapes
<1>2. missing \subseteq form.off
  BY <1>1 DEF FormInv, TicksAreCurrent
<1>3. /\ IsFiniteSet(missing) /\ IsFiniteSet(added)
      /\ gone \in Seq(missing) /\ new \in Seq(added)
  <2>1. missing \subseteq Cid /\ added \subseteq Cid
    BY DEF Ticked, Live
  <2>2. IsFiniteSet(missing) /\ IsFiniteSet(added)
    BY <2>1, CenterAssumption, FS_Subset
  <2>. HIDE DEF missing, added
  <2>. QED  BY <2>2, SetToSeqIsSeq
<1>4. ASSUME NEW c \in missing
      PROVE  removal(c) \in S /\ Good(removal(c))
  <2>. DEFINE op == Op("remove", c, shown[c].rows[r].rev, None, None, <<r>>, "form")
  <2>1. IsCommand(op) /\ op.kind = "remove"
    BY OpIsCommand
  <2>. HIDE DEF op
  <2>2. Good([op EXCEPT !.meant = c \in form.off])
    BY <1>2, <2>1 DEF IsCommand
  <2>. QED  BY <2>2 DEF op
<1>5. ASSUME NEW c \in added
      PROVE  addition(c) \in S /\ Good(addition(c))
  <2>1. IsCommand(addition(c)) /\ addition(c).kind = "add"
    BY OpIsCommand
  <2>. QED  BY <2>1
<1>6. drafts \in Seq(ToSet(drafts)) /\ \A op \in ToSet(drafts) : Good(op)
  <2>1. CASE drafts = <<>>
    BY <2>1, EmptySeq DEF ToSet
  <2>2. CASE drafts # <<>>
    <3>1. PICK c, n : drafts = <<Op("create", c, 0, n, "manual", <<form.rec>>, "form")>>
      BY <2>2 DEF Drafts
    <3>. DEFINE op == Op("create", c, 0, n, "manual", <<form.rec>>, "form")
    <3>2. Good(op)
      BY OpIsCommand
    <3>. HIDE DEF op
    <3>3. drafts = <<op>> /\ ToSet(<<op>>) = {op} /\ <<op>> \in Seq({op})
      BY <3>1 DEF ToSet, op
    <3>. QED  BY <3>2, <3>3
  <2>. QED  BY <2>1, <2>2
<1>7. \A op \in S : Good(op)
  BY <1>4, <1>5, <1>6
<1>8. a \in Seq(S)
  <2>1. \A i \in DOMAIN gone : gone[i] \in missing
    BY <1>3
  <2>2. DOMAIN gone = 1..Len(gone) /\ Len(gone) \in Nat
    BY <1>3
  <2>. HIDE DEF gone, missing, removal, S
  <2>3. \A i \in 1..Len(gone) : removal(gone[i]) \in S
    BY <1>4, <2>1, <2>2
  <2>. QED  BY <2>2, <2>3, IsASeq
<1>9. b \in Seq(S)
  <2>1. \A i \in DOMAIN new : new[i] \in added
    BY <1>3
  <2>2. DOMAIN new = 1..Len(new) /\ Len(new) \in Nat
    BY <1>3
  <2>. HIDE DEF new, added, addition, S
  <2>3. \A i \in 1..Len(new) : addition(new[i]) \in S
    BY <1>5, <2>1, <2>2
  <2>. QED  BY <2>2, <2>3, IsASeq
<1>10. drafts \in Seq(S)
  BY <1>6, SeqMonotonic
<1>. HIDE DEF a, b, S
<1>11. saving' \in Seq(S)
  BY <1>1, <1>8, <1>9, <1>10, ConcatProperties
<1>12. IsSeq(saving)' /\ \A i \in DOMAIN saving' : Good(saving'[i])
  BY <1>7, <1>11, SeqIsSeq, ElementOfSeq DEF IsSeq
<1>13. form' \in Form /\ form'.sent
  BY <1>1 DEF Form
<1>14. Shapes' /\ SavingIsMeant' /\ SaveKeepsUntouched'
  BY <1>1, <1>12, <1>13 DEF FormInv, Shapes, SavingIsMeant, SaveKeepsUntouched, IsSeq
<1>15. FormIsOver' /\ TicksAreCurrent'
  BY <1>1, <1>13 DEF FormIsOver, TicksAreCurrent
<1>. QED
  BY <1>14, <1>15 DEF FormInv

-----------------------------------------------------------------------------
(* Where a form is opened only when no command runs, the invariant stays.  *)
LEMMA FormInvInductive == ~OpenWhileBusy /\ FormInv /\ [Next]_vars => FormInv'
<1>. SUFFICES ASSUME ~OpenWhileBusy, FormInv, [Next]_vars PROVE FormInv'
  OBVIOUS
<1>1. CASE Answers
  BY <1>1, AnswersKeep
<1>2. CASE OnSelected \/ (\E c \in Cid : \E n \in Name : Create(c, n))
           \/ (\E r \in Rec : DeleteRecord(r))
  BY <1>2, CallsKeep
<1>3. CASE CloseCenter
  BY <1>3, CloseCenterKeeps
<1>4. CASE SaveNext
  BY <1>4, SaveNextKeeps
<1>5. CASE CloseForm
  BY <1>5, CloseKeeps
<1>6. CASE UNCHANGED vars \/ (\E c \in Cid : Select(c) \/ Sync(c))
           \/ (\E c \in Cid \cup {None} : OpenCenter(c))
  BY <1>6, OthersKeep
<1>7. CASE \E c \in Cid : Tick(c)
  BY <1>7, TickKeeps
<1>8. CASE \E r \in Rec : EditRecord(r)
  BY <1>8, EditKeeps
<1>9. CASE \E drafts \in Drafts : SaveForm(drafts)
  BY <1>9, SaveFormKeeps
<1>. QED
  BY <1>1, <1>2, <1>3, <1>4, <1>5, <1>6, <1>7, <1>8, <1>9 DEF Next

(* Saving a record takes it out of a collection only if the user took its  *)
(* tick away, whatever commands, answers and passes come between, provided *)
(* the form is not opened while a command of the centre runs (else the     *)
(* copy that the ticks were taken from changes under the form).            *)
THEOREM SavesKeepUntouched == ~OpenWhileBusy => (Spec => []SaveKeepsUntouched)
<1>. SUFFICES ASSUME ~OpenWhileBusy PROVE Spec => []SaveKeepsUntouched
  OBVIOUS
<1>1. Init => FormInv
  <2>. SUFFICES ASSUME Init PROVE FormInv
    OBVIOUS
  <2>1. ops = <<>> /\ saving = <<>> /\ page = "library"
    BY DEF Init
  <2>2. IsSeq(<<>>)
    BY EmptySeq, SeqIsSeq
  <2>3. DOMAIN <<>> = {}
    OBVIOUS
  <2>. QED  BY <2>1, <2>2, <2>3 DEF FormInv, Shapes, SavingIsMeant, FormIsOver, NoneFromForm,
                              TicksAreCurrent, SaveKeepsUntouched
<1>2. FormInv /\ [Next]_vars => FormInv'
  BY FormInvInductive
<1>3. FormInv => SaveKeepsUntouched
  BY DEF FormInv
<1>. QED
  BY <1>1, <1>2, <1>3, PTL DEF Spec
-----------------------------------------------------------------------------
(*                        Completing a series                              *)

SeasonsIn == {r \in SeriesRec : seasons[r] # None}
ARecord == [show : TvShows \cup {None}, season : Nat]
AGroup == [kind : {"manual", "tv-series", "universe"}, source : TvShows \cup {None},
           recs : SUBSET SeriesRec, rev : Nat]

\* Collection c is a universe, or the one bound to show p.
Home(c, p) == groups[c].kind = "universe" \/ groups[c].source = p

\* What the records, the collections and the creation under way are.
RecordsAndGroups ==
  /\ seasons \in [SeriesRec -> ARecord \cup {None}]
  /\ groups \in [Cid -> AGroup]
  /\ \A c \in Cid : groups[c].recs \subseteq SeasonsIn
  /\ \A c \in Cid : groups[c].source # None => groups[c].kind = "tv-series"

Dialogs ==
  /\ group \in Cid \cup {None} /\ detail \in TvShows \cup {None} /\ chosen \subseteq Nat
  /\ choices \subseteq TvShows
  /\ inspecting # None => /\ inspecting.c \in Cid /\ inspecting.kind \in {"seasons", "search"}
                          /\ inspecting.kind = "seasons" => inspecting.show \in TvShows
  /\ creating # None => creating.c \in Cid /\ creating.show \in TvShows /\ creating.seasons \subseteq Nat

\* What a patient user's dialogs are about: the collection that is selected,
\* and a show that this collection is a home of.
Selection ==
  /\ inspecting # None \/ creating # None => completing
  /\ inspecting = None \/ creating = None
  /\ inspecting # None => group = inspecting.c /\ group # None /\ choices = {}
  /\ detail # None => group # None /\ Home(group, detail)
  /\ inspecting # None =>
       IF inspecting.kind = "seasons" THEN Home(inspecting.c, inspecting.show)
       ELSE groups[inspecting.c].kind = "manual" /\ groups[inspecting.c].source = None
  /\ choices # {} => group # None /\ groups[group].kind = "manual" /\ groups[group].source = None
  /\ creating # None => Home(creating.c, creating.show)

MadeAtHome ==
  \A m \in made : /\ m[1] \in Cid /\ m[2] \in SeasonsIn /\ seasons[m[2]].show \in TvShows
                  /\ Home(m[1], seasons[m[2]].show)

SeriesTypes == RecordsAndGroups /\ Dialogs
NoUniverse == \A c \in Cid : groups[c].kind # "universe"
PatientInv == SeriesTypes /\ Selection /\ MadeAtHome
HastyInv == SeriesTypes /\ NoUniverse

\* A collection that is bound to a show.
LEMMA BoundGroup ==
  ASSUME RecordsAndGroups, NEW c \in Cid, NEW p \in TvShows, groups' = Hasty!Bind(c, p)
  PROVE  /\ DOMAIN groups' = Cid
         /\ groups'[c].kind = "tv-series" /\ groups'[c].source = p
         /\ \A o \in Cid : groups'[o] \in AGroup /\ groups'[o].recs = groups[o].recs
         /\ \A o \in Cid \ {c} : groups'[o] = groups[o]
<1>1. groups[c] \in AGroup /\ \A o \in Cid : groups[o] \in AGroup
  BY DEF RecordsAndGroups
<1>. DEFINE bound == Hasty!Bound(groups[c], p)
<1>2. groups' = [groups EXCEPT ![c] = bound]
  BY DEF Hasty!Bind
<1>3. bound \in AGroup /\ bound.kind = "tv-series" /\ bound.source = p /\ bound.recs = groups[c].recs
  BY <1>1 DEF AGroup, Hasty!Bound
<1>. HIDE DEF bound
<1>4. DOMAIN groups = Cid
  BY DEF RecordsAndGroups
<1>5. groups'[c] = bound /\ \A o \in Cid \ {c} : groups'[o] = groups[o]
  BY <1>2, <1>4
<1>. QED  BY <1>1, <1>2, <1>3, <1>4, <1>5

\* Binding keeps the types of records and collections.
LEMMA BindKeepsGroups ==
  ASSUME RecordsAndGroups, NEW c \in Cid, NEW p \in TvShows, groups' = Hasty!Bind(c, p), seasons' = seasons
  PROVE  RecordsAndGroups'
<1>1. /\ DOMAIN groups' = Cid
      /\ groups'[c].kind = "tv-series" /\ groups'[c].source = p
      /\ \A o \in Cid : groups'[o] \in AGroup /\ groups'[o].recs = groups[o].recs
      /\ \A o \in Cid \ {c} : groups'[o] = groups[o]
  BY BoundGroup
<1>2. groups' = [o \in Cid |-> groups'[o]]
  BY DEF Hasty!Bind, RecordsAndGroups
<1>3. groups' \in [Cid -> AGroup]
  BY <1>1, <1>2
<1>4. \A o \in Cid : groups'[o].recs \subseteq SeasonsIn'
  BY <1>1 DEF RecordsAndGroups, SeasonsIn
<1>5. \A o \in Cid : groups'[o].source # None => groups'[o].kind = "tv-series"
  BY <1>1 DEF RecordsAndGroups
<1>. QED  BY <1>3, <1>4, <1>5 DEF RecordsAndGroups

\* Only a collection that is nobody's home is bound: no home is lost.
LEMMA BindKeepsHomes ==
  ASSUME RecordsAndGroups, NEW c \in Cid, NEW p \in TvShows, groups' = Hasty!Bind(c, p),
         groups[c].source = None, groups[c].kind # "universe", Series!SeriesAssumption
  PROVE  Home(c, p)' /\ \A o \in Cid, q \in TvShows : Home(o, q) => Home(o, q)'
<1>1. groups'[c].source = p /\ \A o \in Cid \ {c} : groups'[o] = groups[o]
  BY BoundGroup
<1>2. None \notin TvShows
  BY DEF Series!SeriesAssumption
<1>. QED  BY <1>1, <1>2 DEF Home

\* A record that is taken by hand keeps the types, and all else of its
\* collection.
LEMMA ByHandKeeps ==
  ASSUME SeriesTypes, NEW r \in SeriesRec, Hasty!ByHand(r)
  PROVE  /\ SeriesTypes'
         /\ \A c \in Cid : groups'[c].kind = groups[c].kind /\ groups'[c].source = groups[c].source
<1>. DEFINE g == groups[group]
            new == Hasty!Changed(g, SymDiff(g.recs, {r}))
<1>1. /\ group \in Cid /\ seasons' = seasons /\ seasons[r] # None
      /\ UNCHANGED <<group, inspecting, choices, detail, chosen, creating>>
  BY DEF Hasty!ByHand, Hasty!Begin, Hasty!Live, Hasty!dialog, SeriesTypes, Dialogs
<1>2. groups \in [Cid -> AGroup] /\ g \in AGroup /\ g.recs \subseteq SeasonsIn
  BY <1>1 DEF SeriesTypes, RecordsAndGroups
<1>3. groups' = [groups EXCEPT ![group] = new]
  BY DEF Hasty!ByHand, Hasty!SymDiff, SymDiff
<1>4. new \in AGroup /\ new.kind = g.kind /\ new.source = g.source /\ new.recs \subseteq g.recs \cup {r}
  BY <1>1, <1>2 DEF AGroup, SymDiff, Hasty!Changed, SeriesTypes, RecordsAndGroups, SeasonsIn
<1>. HIDE DEF new
<1>5. groups' \in [Cid -> AGroup]
  BY <1>2, <1>3, <1>4, <1>1
<1>6. \A c \in Cid : groups'[c] = IF c = group THEN new ELSE groups[c]
  BY <1>2, <1>3
<1>7. \A c \in Cid : groups'[c].kind = groups[c].kind /\ groups'[c].source = groups[c].source
  BY <1>4, <1>6
<1>8. \A c \in Cid : groups'[c].recs \subseteq SeasonsIn'
  BY <1>1, <1>2, <1>4, <1>6 DEF SeriesTypes, RecordsAndGroups, SeasonsIn
<1>9. RecordsAndGroups'
  BY <1>1, <1>5, <1>7, <1>8 DEF SeriesTypes, RecordsAndGroups
<1>10. Dialogs'
  BY <1>1 DEF SeriesTypes, Dialogs
<1>. QED  BY <1>7, <1>9, <1>10 DEF SeriesTypes

\* What a creation does that is not refused: it adds records that were not
\* there, seasons of the show, to the collection and its homes.
LEMMA CreationAdds ==
  ASSUME SeriesTypes, Hasty!SeriesAssumption, Hasty!RunCreate, made' # made \/ seasons' # seasons \/ groups' # groups
  PROVE  LET c == creating.c
             new == {Hasty!Season(creating.show, n) : n \in creating.seasons}
         IN  \E added \in SUBSET (SeriesRec \ SeasonsIn) :
               /\ new \subseteq ARecord /\ \A x \in new : x.show = creating.show
               /\ \A q \in groups[c].recs : seasons[q] \notin new
               /\ seasons' = [r \in SeriesRec |-> seasons'[r]]
               /\ \A r \in SeriesRec \ added : seasons'[r] = seasons[r]
               /\ \A r \in added : seasons'[r] \in new
               /\ groups' = [o \in Cid |-> IF o \in Hasty!Homes(c, creating.show)
                                  THEN Hasty!Changed(groups[o], groups[o].recs \cup added) ELSE groups[o]]
               /\ made' = made \cup {<<c, r>> : r \in added}
               /\ detail' = None /\ chosen' = {}
<1>. DEFINE c == creating.c
            new == {Hasty!Season(creating.show, n) : n \in creating.seasons}
            free == SeriesRec \ Hasty!Live
<1>1. creating # None /\ ~Hasty!Duplicate(c, new)
  BY DEF Hasty!RunCreate, Hasty!data
<1>2. creating.show \in TvShows /\ creating.seasons \subseteq Nat
  BY <1>1 DEF SeriesTypes, Dialogs
<1>3. new \subseteq ARecord /\ \A x \in new : x.show = creating.show
  BY <1>2 DEF ARecord, Hasty!Season
<1>4. \A q \in groups[c].recs : seasons[q] \notin new
  BY <1>1 DEF Hasty!Duplicate
<1>5. PICK f \in Hasty!Injection(new, free) :
        LET added == {f[x] : x \in new}
        IN  /\ seasons' = [r \in SeriesRec |-> IF r \in added THEN CHOOSE x \in new : f[x] = r ELSE seasons[r]]
            /\ groups' = [o \in Cid |-> IF o \in Hasty!Homes(c, creating.show)
                             THEN Hasty!Changed(groups[o], groups[o].recs \cup added) ELSE groups[o]]
            /\ made' = made \cup {<<c, r>> : r \in added}
            /\ detail' = None /\ chosen' = {} /\ offered' = None
  BY <1>1 DEF Hasty!RunCreate, Hasty!data
<1>. DEFINE added == {f[x] : x \in new}
<1>6. f \in [new -> free]
  BY <1>5 DEF Hasty!Injection
<1>7. free = SeriesRec \ SeasonsIn
  BY DEF Hasty!Live, SeasonsIn
<1>. HIDE DEF new, free
<1>8. added \in SUBSET (SeriesRec \ SeasonsIn)
  BY <1>6, <1>7
<1>9. \A r \in added : seasons'[r] \in new
  <2>. TAKE r \in added
  <2>1. PICK x \in new : f[x] = r
    OBVIOUS
  <2>2. seasons'[r] = CHOOSE y \in new : f[y] = r
    BY <1>5, <1>8
  <2>. QED  BY <2>1, <2>2
<1>10. seasons' = [r \in SeriesRec |-> seasons'[r]] /\ \A r \in SeriesRec \ added : seasons'[r] = seasons[r]
  BY <1>5
<1>. QED  BY <1>3, <1>4, <1>5, <1>8, <1>9, <1>10 DEF new

\* A creation keeps the types, and what every collection is.
LEMMA CreationKeeps ==
  ASSUME SeriesTypes, Hasty!SeriesAssumption, Hasty!RunCreate
  PROVE  /\ SeriesTypes'
         /\ \A c \in Cid : groups'[c].kind = groups[c].kind /\ groups'[c].source = groups[c].source
<1>1. creating # None /\ creating' = None /\ UNCHANGED <<group, inspecting, choices>>
  BY DEF Hasty!RunCreate
<1>2. CASE made' = made /\ seasons' = seasons /\ groups' = groups
  <2>1. UNCHANGED <<detail, chosen>> \/ (detail' = None /\ chosen' = {})
    BY DEF Hasty!RunCreate, Hasty!dialog
  <2>. QED  BY <1>1, <1>2, <2>1 DEF SeriesTypes, RecordsAndGroups, Dialogs, SeasonsIn
<1>3. CASE made' # made \/ seasons' # seasons \/ groups' # groups
  <2>. DEFINE c == creating.c
              new == {Hasty!Season(creating.show, n) : n \in creating.seasons}
  <2>1. PICK added \in SUBSET (SeriesRec \ SeasonsIn) :
          /\ new \subseteq ARecord
          /\ seasons' = [r \in SeriesRec |-> seasons'[r]]
          /\ \A r \in SeriesRec \ added : seasons'[r] = seasons[r]
          /\ \A r \in added : seasons'[r] \in new
          /\ groups' = [o \in Cid |-> IF o \in Hasty!Homes(c, creating.show)
                             THEN Hasty!Changed(groups[o], groups[o].recs \cup added) ELSE groups[o]]
          /\ detail' = None /\ chosen' = {}
    BY <1>3, CreationAdds
  <2>. HIDE DEF c, new
  <2>2. None \notin ARecord
    BY DEF Hasty!SeriesAssumption, Hasty!SeasonRecord, ARecord
  <2>3. seasons \in [SeriesRec -> ARecord \cup {None}] /\ groups \in [Cid -> AGroup]
    BY DEF SeriesTypes, RecordsAndGroups
  <2>4. \A r \in SeriesRec : seasons'[r] \in ARecord \cup {None}
    BY <2>1, <2>3
  <2>5. seasons' \in [SeriesRec -> ARecord \cup {None}]
    BY <2>1, <2>4
  <2>6. SeasonsIn' = SeasonsIn \cup added
    BY <2>1, <2>2, <2>3 DEF SeasonsIn
  <2>7. \A o \in Cid : groups[o].recs \subseteq SeasonsIn /\ SeasonsIn \subseteq SeriesRec
    BY DEF SeriesTypes, RecordsAndGroups, SeasonsIn
  <2>8. ASSUME NEW o \in Cid
        PROVE  /\ groups'[o] \in AGroup /\ groups'[o].recs \subseteq SeasonsIn'
               /\ groups'[o].kind = groups[o].kind /\ groups'[o].source = groups[o].source
    <3>1. groups[o] \in AGroup /\ groups[o].recs \subseteq SeasonsIn
      BY <2>3, <2>7
    <3>2. CASE o \in Hasty!Homes(c, creating.show)
      <4>1. groups'[o] = Hasty!Changed(groups[o], groups[o].recs \cup added)
        BY <2>1, <3>2
      <4>. QED  BY <4>1, <3>1, <2>6, <2>7 DEF AGroup, Hasty!Changed
    <3>3. CASE o \notin Hasty!Homes(c, creating.show)
      BY <2>1, <3>1, <3>3, <2>6
    <3>. QED  BY <3>2, <3>3
  <2>9. groups' \in [Cid -> AGroup]
    BY <2>1, <2>8
  <2>10. RecordsAndGroups'
    BY <2>5, <2>8, <2>9 DEF RecordsAndGroups, SeriesTypes
  <2>11. Dialogs'
    BY <1>1, <2>1 DEF Dialogs, SeriesTypes
  <2>. QED  BY <2>8, <2>10, <2>11 DEF SeriesTypes
<1>. QED  BY <1>2, <1>3

\* The rest keeps the records and what the collections hold.
LEMMA InspectKeeps ==
  ASSUME SeriesTypes, NEW p \in TvShows, Hasty!Inspect(p) \/ Hasty!BindChoice(p)
  PROVE  SeriesTypes'
<1>1. group \in Cid /\ seasons' = seasons
  BY DEF Hasty!Inspect, Hasty!BindChoice, SeriesTypes, Dialogs
<1>2. groups' = groups \/ groups' = Hasty!Bind(group, p)
  BY DEF Hasty!Inspect, Hasty!BindChoice
<1>3. RecordsAndGroups'
  <2>1. CASE groups' = groups
    BY <1>1, <2>1 DEF SeriesTypes, RecordsAndGroups, SeasonsIn
  <2>2. CASE groups' = Hasty!Bind(group, p)
    BY <1>1, <2>2, BindKeepsGroups DEF SeriesTypes
  <2>. QED  BY <1>2, <2>1, <2>2
<1>4. inspecting'.c = group /\ inspecting'.kind = "seasons" /\ inspecting'.show = p
  BY DEF Hasty!Inspect, Hasty!BindChoice, Hasty!LookUp
<1>5. UNCHANGED <<group, detail, chosen, creating>> /\ choices' \in {choices, {}}
  BY DEF Hasty!Inspect, Hasty!BindChoice, Hasty!dialog
<1>6. Dialogs'
  BY <1>1, <1>4, <1>5 DEF SeriesTypes, Dialogs
<1>. QED  BY <1>3, <1>6 DEF SeriesTypes

\* Nor does finding out the show of a collection.
LEMMA IdentifiedKeeps ==
  ASSUME SeriesTypes, NEW found \in SUBSET TvShows, Hasty!AnswerIdentify(found)
  PROVE  SeriesTypes'
<1>1. inspecting # None /\ inspecting.kind = "search" /\ inspecting.c \in Cid /\ seasons' = seasons
      /\ UNCHANGED <<group, detail, chosen, creating>>
  BY DEF Hasty!AnswerIdentify, Hasty!dialog, SeriesTypes, Dialogs
<1>2. CASE Hasty!Cardinality(found) = 1
  <2>1. PICK p \in found :
          /\ groups' = Hasty!Bind(inspecting.c, p)
          /\ Hasty!LookUp(inspecting.c, p, inspecting.existing)
          /\ choices' = choices
    BY <1>2 DEF Hasty!AnswerIdentify
  <2>2. RecordsAndGroups'
    BY <1>1, <2>1, BindKeepsGroups DEF SeriesTypes
  <2>3. inspecting'.c = inspecting.c /\ inspecting'.kind = "seasons" /\ inspecting'.show = p
    BY <2>1 DEF Hasty!LookUp
  <2>. QED  BY <1>1, <2>1, <2>2, <2>3 DEF SeriesTypes, Dialogs
<1>3. CASE Hasty!Cardinality(found) # 1
  <2>1. groups' = groups /\ inspecting' = None /\ choices' = found
    BY <1>3 DEF Hasty!AnswerIdentify
  <2>2. RecordsAndGroups'
    BY <1>1, <2>1 DEF SeriesTypes, RecordsAndGroups, SeasonsIn
  <2>. QED  BY <1>1, <2>1, <2>2 DEF SeriesTypes, Dialogs
<1>. QED  BY <1>2, <1>3

\* The other steps leave records and groups alone.
LEMMA OthersKeepTypes ==
  ASSUME SeriesTypes, Hasty!SeriesAssumption,
         \/ \E c \in Cid : Hasty!Select(c)
         \/ Hasty!AnswerInspect \/ Hasty!Fail \/ Hasty!Identify \/ Hasty!CloseDialog \/ Hasty!Create
         \/ \E n \in UNION {AllSeasons[p] : p \in TvShows} : Hasty!Toggle(n)
  PROVE  SeriesTypes' /\ UNCHANGED <<seasons, groups, made>>
<1>1. UNCHANGED <<seasons, groups, made>>
  BY DEF Hasty!Select, Hasty!AnswerInspect, Hasty!Fail, Hasty!Identify, Hasty!CloseDialog, Hasty!Create, Hasty!Toggle, Hasty!data
<1>2. RecordsAndGroups'
  BY <1>1 DEF SeriesTypes, RecordsAndGroups, SeasonsIn
<1>. SUFFICES Dialogs'
  BY <1>1, <1>2 DEF SeriesTypes
<1>3. CASE \E c \in Cid : Hasty!Select(c)
  BY <1>3 DEF Hasty!Select, SeriesTypes, Dialogs, Hasty!dialog
<1>4. CASE Hasty!AnswerInspect
  <2>1. /\ inspecting # None /\ inspecting.kind = "seasons" /\ inspecting' = None
        /\ detail' = inspecting.show /\ chosen' = AiredSeasons[detail'] \ inspecting.existing
        /\ UNCHANGED <<group, choices, creating>>
    BY <1>4 DEF Hasty!AnswerInspect, Hasty!Answered, Hasty!Opened
  <2>2. inspecting.show \in TvShows
    BY <2>1 DEF SeriesTypes, Dialogs
  <2>3. AiredSeasons[inspecting.show] \subseteq Nat
    BY <2>2 DEF Hasty!SeriesAssumption
  <2>. QED  BY <2>1, <2>2, <2>3 DEF SeriesTypes, Dialogs
<1>5. CASE Hasty!Fail \/ Hasty!CloseDialog
  BY <1>5 DEF Hasty!Fail, Hasty!CloseDialog, SeriesTypes, Dialogs, Hasty!dialog
<1>6. CASE Hasty!Identify
  <2>1. inspecting'.c = group /\ inspecting'.kind = "search" /\ group # None
        /\ UNCHANGED <<group, choices, creating, detail, chosen>>
    BY <1>6 DEF Hasty!Identify, Hasty!Begin, Hasty!dialog
  <2>. QED  BY <2>1 DEF SeriesTypes, Dialogs
<1>7. CASE Hasty!Create
  <2>1. creating'.c = group /\ creating'.show = detail /\ creating'.seasons = chosen /\ group # None /\ detail # None
        /\ UNCHANGED <<group, choices, inspecting, detail, chosen>>
    BY <1>7 DEF Hasty!Create, Hasty!dialog
  <2>. QED  BY <2>1 DEF SeriesTypes, Dialogs
<1>8. CASE \E n \in UNION {AllSeasons[p] : p \in TvShows} : Hasty!Toggle(n)
  <2>1. PICK n : Hasty!Toggle(n)
    BY <1>8
  <2>2. detail # None /\ n \in AllSeasons[detail] /\ chosen' = Hasty!SymDiff(chosen, {n})
        /\ UNCHANGED <<group, choices, creating, inspecting, detail>>
    BY <2>1 DEF Hasty!Toggle
  <2>3. n \in Nat
    BY <2>2 DEF SeriesTypes, Dialogs, Hasty!SeriesAssumption
  <2>. QED  BY <2>2, <2>3 DEF SeriesTypes, Dialogs, Hasty!SymDiff, SymDiff
<1>. QED  BY <1>3, <1>4, <1>5, <1>6, <1>7, <1>8

\* Every step keeps the types, and only a creation makes records.
LEMMA SeriesKeepsTypes ==
  ASSUME SeriesTypes, Hasty!SeriesAssumption, Hasty!Next
  PROVE  SeriesTypes' /\ (~Hasty!RunCreate => made' = made)
<1>1. CASE \E r \in SeriesRec : Hasty!ByHand(r)
  BY <1>1, ByHandKeeps DEF Hasty!ByHand
<1>2. CASE \E p \in TvShows : Hasty!Inspect(p) \/ Hasty!BindChoice(p)
  BY <1>2, InspectKeeps DEF Hasty!Inspect, Hasty!BindChoice
<1>3. CASE \E found \in SUBSET TvShows : Hasty!AnswerIdentify(found)
  BY <1>3, IdentifiedKeeps DEF Hasty!AnswerIdentify
<1>4. CASE Hasty!RunCreate
  BY <1>4, CreationKeeps
<1>. QED  BY <1>1, <1>2, <1>3, <1>4, OthersKeepTypes DEF Hasty!Next

\* What a collection is changes only when it is bound to a show, and which
\* collections are bound.
WhatGroupsAre == \A c \in Cid : groups'[c].kind = groups[c].kind /\ groups'[c].source = groups[c].source
MayBeBound(c) ==
  \/ groups[c].source = None /\ groups[c].kind # "universe"
  \/ choices # {} /\ c = group /\ groups[c].source = None
  \/ inspecting # None /\ inspecting.kind = "search" /\ c = inspecting.c

\* The only groups a step changes are those it binds, adds to or makes by hand.
LEMMA StepBinds ==
  ASSUME SeriesTypes, Hasty!SeriesAssumption, Hasty!Next
  PROVE  WhatGroupsAre \/ \E c \in Cid, p \in TvShows : groups' = Hasty!Bind(c, p) /\ MayBeBound(c)
<1>1. CASE \E r \in SeriesRec : Hasty!ByHand(r)
  BY <1>1, ByHandKeeps DEF WhatGroupsAre
<1>2. CASE \E p \in TvShows : Hasty!Inspect(p) \/ Hasty!BindChoice(p)
  <2>1. PICK p \in TvShows : Hasty!Inspect(p) \/ Hasty!BindChoice(p)
    BY <1>2
  <2>2. group \in Cid
    BY <2>1 DEF Hasty!Inspect, Hasty!BindChoice, SeriesTypes, Dialogs
  <2>3. CASE groups' = groups
    BY <2>3 DEF WhatGroupsAre
  <2>4. CASE groups' # groups
    BY <2>1, <2>2, <2>4 DEF Hasty!Inspect, Hasty!BindChoice, MayBeBound
  <2>. QED  BY <2>3, <2>4
<1>3. CASE \E found \in SUBSET TvShows : Hasty!AnswerIdentify(found)
  <2>1. PICK found \in SUBSET TvShows : Hasty!AnswerIdentify(found)
    BY <1>3
  <2>2. inspecting # None /\ inspecting.kind = "search" /\ inspecting.c \in Cid
    BY <2>1 DEF Hasty!AnswerIdentify, SeriesTypes, Dialogs
  <2>3. groups' = groups \/ \E p \in TvShows : groups' = Hasty!Bind(inspecting.c, p)
    BY <2>1 DEF Hasty!AnswerIdentify
  <2>. QED  BY <2>2, <2>3 DEF WhatGroupsAre, MayBeBound
<1>4. CASE Hasty!RunCreate
  BY <1>4, CreationKeeps DEF WhatGroupsAre
<1>. QED  BY <1>1, <1>2, <1>3, <1>4, OthersKeepTypes DEF Hasty!Next, WhatGroupsAre

\* Where there is no universe, binding makes none.
LEMMA NoUniverseMade ==
  ASSUME HastyInv, Hasty!SeriesAssumption, Hasty!Next
  PROVE  NoUniverse'
<1>1. CASE WhatGroupsAre
  BY <1>1 DEF HastyInv, NoUniverse, WhatGroupsAre
<1>2. CASE \E c \in Cid, p \in TvShows : groups' = Hasty!Bind(c, p)
  <2>1. PICK c \in Cid, p \in TvShows : groups' = Hasty!Bind(c, p)
    BY <1>2
  <2>2. groups'[c].kind = "tv-series" /\ \A o \in Cid \ {c} : groups'[o] = groups[o]
    BY <2>1, BoundGroup DEF HastyInv, SeriesTypes
  <2>. QED  BY <2>2 DEF HastyInv, NoUniverse
<1>. QED  BY <1>1, <1>2, StepBinds DEF HastyInv

\* A creation adds no season to a collection that has it: what is added goes
\* to the one collection the creation is for, whose records were looked
\* through.
LEMMA CreationAddsOnce ==
  ASSUME HastyInv, Hasty!SeriesAssumption, Hasty!Next
  PROVE  Hasty!AddsOnce
<1>1. CASE made' = made
  BY <1>1 DEF Hasty!AddsOnce
<1>2. CASE made' # made
  <2>1. Hasty!RunCreate
    BY <1>2, SeriesKeepsTypes DEF HastyInv
  <2>. DEFINE c == creating.c
              new == {Hasty!Season(creating.show, n) : n \in creating.seasons}
  <2>2. PICK added \in SUBSET (SeriesRec \ SeasonsIn) :
          /\ \A q \in groups[c].recs : seasons[q] \notin new
          /\ \A r \in added : seasons'[r] \in new
          /\ groups' = [o \in Cid |-> IF o \in Hasty!Homes(c, creating.show)
                             THEN Hasty!Changed(groups[o], groups[o].recs \cup added) ELSE groups[o]]
          /\ made' = made \cup {<<c, r>> : r \in added}
    BY <2>1, <1>2, CreationAdds DEF HastyInv
  <2>3. creating # None
    BY <2>1 DEF Hasty!RunCreate
  <2>4. c \in Cid
    BY <2>3 DEF HastyInv, SeriesTypes, Dialogs
  <2>5. Hasty!Homes(c, creating.show) = {c}
    BY <2>4 DEF Hasty!Homes, HastyInv, NoUniverse
  <2>. HIDE DEF c, new
  <2>6. ASSUME NEW o \in Cid, NEW r \in made' \ made, NEW q \in groups[o].recs, r[2] \in groups'[o].recs
        PROVE  seasons[q] # seasons'[r[2]]
    <3>1. r[2] \in added
      BY <2>2
    <3>2. CASE o = c
      BY <2>2, <2>6, <3>1, <3>2
    <3>3. CASE o # c
      <4>1. groups'[o] = groups[o]
        BY <2>2, <2>5, <3>3
      <4>2. groups[o].recs \subseteq SeasonsIn
        BY DEF HastyInv, SeriesTypes, RecordsAndGroups
      <4>. QED  BY <4>1, <4>2, <2>6, <3>1
    <3>. QED  BY <3>2, <3>3
  <2>. QED  BY <2>6 DEF Hasty!AddsOnce
<1>. QED  BY <1>1, <1>2

\* Every step of a hasty user keeps the invariant.
LEMMA HastyInvInductive ==
  ASSUME HastyInv, Hasty!SeriesAssumption, Hasty!Next
  PROVE  HastyInv'
<1>1. SeriesTypes
  BY DEF HastyInv
<1>. QED  BY <1>1, NoUniverseMade, SeriesKeepsTypes DEF HastyInv

\* A patient user takes the steps a hasty one may take, but does not leave
\* the collection while the page is busy.
LEMMA SameCount ==
  ASSUME NEW S PROVE Hasty!Cardinality(S) = Series!Cardinality(S)
BY DEF Hasty!Cardinality, Series!Cardinality

PatientSelect == ~completing /\ \E c \in Cid : Hasty!Select(c)
OtherStep ==
  \/ \E r \in SeriesRec : Hasty!ByHand(r)
  \/ \E p \in TvShows : Hasty!Inspect(p) \/ Hasty!BindChoice(p)
  \/ Hasty!AnswerInspect \/ Hasty!Fail \/ Hasty!Identify \/ Hasty!CloseDialog
  \/ Hasty!Create \/ Hasty!RunCreate
  \/ \E found \in SUBSET TvShows : Hasty!AnswerIdentify(found)
  \/ \E n \in UNION {AllSeasons[p] : p \in TvShows} : Hasty!Toggle(n)

\* A patient user does nothing that a hasty one could not.
LEMMA PatientStep ==
  ASSUME Series!Next
  PROVE  (PatientSelect \/ OtherStep) /\ Hasty!Next
<1>1. ASSUME NEW r \in SeriesRec, Series!ByHand(r) PROVE Hasty!ByHand(r)
  BY <1>1 DEF Series!ByHand, Hasty!ByHand, Series!dialog, Hasty!dialog, Series!Changed, Hasty!Changed, Series!Live, Hasty!Live, Series!Step, Hasty!Step, Series!Begin, Hasty!Begin, Series!NoOverlay, Hasty!NoOverlay, Series!SymDiff, Hasty!SymDiff
<1>2. ASSUME NEW p \in TvShows, Series!Inspect(p) PROVE Hasty!Inspect(p)
  BY <1>2, SameCount DEF Series!Inspect, Hasty!Inspect, Series!dialog, Hasty!dialog, Series!SeasonsOf, Hasty!SeasonsOf, Series!LookUp, Hasty!LookUp, Series!Bind, Hasty!Bind, Series!Bound, Hasty!Bound, Series!Bindable, Hasty!Bindable, Series!Target, Hasty!Target, Series!Shows, Hasty!Shows, Series!Step, Hasty!Step
<1>3. ASSUME NEW p \in TvShows, Series!BindChoice(p) PROVE Hasty!BindChoice(p)
  BY <1>3 DEF Series!BindChoice, Hasty!BindChoice, Series!dialog, Hasty!dialog, Series!SeasonsOf, Hasty!SeasonsOf, Series!LookUp, Hasty!LookUp, Series!Bind, Hasty!Bind, Series!Bound, Hasty!Bound, Series!Bindable, Hasty!Bindable
<1>4. ASSUME Series!AnswerInspect PROVE Hasty!AnswerInspect
  BY <1>4 DEF Series!AnswerInspect, Hasty!AnswerInspect, Series!data, Hasty!data, Series!Opened, Hasty!Opened, Series!Answered, Hasty!Answered
<1>5. ASSUME Series!Fail PROVE Hasty!Fail
  BY <1>5 DEF Series!Fail, Hasty!Fail, Series!dialog, Hasty!dialog, Series!data, Hasty!data
<1>6. ASSUME Series!Identify PROVE Hasty!Identify
  BY <1>6, SameCount DEF Series!Identify, Hasty!Identify, Series!dialog, Hasty!dialog, Series!data, Hasty!data, Series!SeasonsOf, Hasty!SeasonsOf, Series!Shows, Hasty!Shows, Series!Step, Hasty!Step, Series!Begin, Hasty!Begin, Series!NoOverlay, Hasty!NoOverlay
<1>7. ASSUME Series!CloseDialog PROVE Hasty!CloseDialog
  BY <1>7 DEF Series!CloseDialog, Hasty!CloseDialog, Series!data, Hasty!data
<1>8. ASSUME Series!Create PROVE Hasty!Create
  BY <1>8, SameCount DEF Series!Create, Hasty!Create, Series!dialog, Hasty!dialog, Series!data, Hasty!data, Series!Live, Hasty!Live
<1>9. ASSUME Series!RunCreate PROVE Hasty!RunCreate
  BY <1>9 DEF Series!RunCreate, Hasty!RunCreate, Series!Changed, Hasty!Changed, Series!Homes, Hasty!Homes, Series!Live, Hasty!Live, Series!dialog, Hasty!dialog, Series!data, Hasty!data, Series!Duplicate, Hasty!Duplicate, Series!Season, Hasty!Season, Series!Injection, Hasty!Injection, Series!IsInjective, Hasty!IsInjective
<1>10. ASSUME NEW found \in SUBSET TvShows, Series!AnswerIdentify(found) PROVE Hasty!AnswerIdentify(found)
  BY <1>10, SameCount DEF Series!AnswerIdentify, Hasty!AnswerIdentify, Series!LookUp, Hasty!LookUp, Series!Bind, Hasty!Bind, Series!Bound, Hasty!Bound, Series!Bindable, Hasty!Bindable, Series!dialog, Hasty!dialog
<1>11. ASSUME NEW n \in UNION {AllSeasons[p] : p \in TvShows}, Series!Toggle(n) PROVE Hasty!Toggle(n)
  BY <1>11 DEF Series!Toggle, Hasty!Toggle, Series!data, Hasty!data, Series!SeasonsOf, Hasty!SeasonsOf, Series!SymDiff, Hasty!SymDiff
<1>12. ASSUME NEW c \in Cid, Series!Select(c) PROVE Hasty!Select(c) /\ ~completing
  BY <1>12 DEF Series!Select, Hasty!Select, Series!dialog, Hasty!dialog, Series!data, Hasty!data, Series!NoOverlay, Hasty!NoOverlay
<1>13. PatientSelect \/ OtherStep
  BY <1>1, <1>2, <1>3, <1>4, <1>5, <1>6, <1>7, <1>8, <1>9, <1>10, <1>11, <1>12 DEF Series!Next, PatientSelect, OtherStep
<1>. QED  BY <1>13 DEF PatientSelect, OtherStep, Hasty!Next

\* No home of a show is lost.
LEMMA HomesStay ==
  ASSUME PatientInv, Hasty!SeriesAssumption, Series!SeriesAssumption, Hasty!Next,
         NEW c \in Cid, NEW p \in TvShows, Home(c, p)
  PROVE  Home(c, p)'
<1>1. SeriesTypes /\ RecordsAndGroups
  BY DEF PatientInv, SeriesTypes
<1>2. CASE WhatGroupsAre
  BY <1>2 DEF WhatGroupsAre, Home
<1>3. CASE \E o \in Cid, q \in TvShows : groups' = Hasty!Bind(o, q) /\ MayBeBound(o)
  <2>1. PICK o \in Cid, q \in TvShows : groups' = Hasty!Bind(o, q) /\ MayBeBound(o)
    BY <1>3
  <2>2. groups[o].source = None /\ groups[o].kind # "universe"
    BY <2>1 DEF MayBeBound, PatientInv, Selection
  <2>. QED  BY <1>1, <2>1, <2>2, BindKeepsHomes
<1>. QED  BY <1>1, <1>2, <1>3, StepBinds

\* A record that exists stays what it is.
LEMMA SeasonsStay ==
  ASSUME SeriesTypes, Hasty!SeriesAssumption, Hasty!Next
  PROVE  \A r \in SeasonsIn : r \in SeasonsIn' /\ seasons'[r] = seasons[r]
<1>1. CASE seasons' = seasons
  BY <1>1 DEF SeasonsIn
<1>2. CASE seasons' # seasons
  <2>1. Hasty!RunCreate
    BY <1>2, OthersKeepTypes DEF Hasty!Next, Hasty!ByHand, Hasty!Inspect, Hasty!BindChoice, Hasty!AnswerIdentify
  <2>2. PICK added \in SUBSET (SeriesRec \ SeasonsIn) : \A r \in SeriesRec \ added : seasons'[r] = seasons[r]
    BY <2>1, <1>2, CreationAdds
  <2>. QED  BY <2>2 DEF SeasonsIn
<1>. QED  BY <1>1, <1>2

\* What a creation makes is at home in the collection it was made for.
LEMMA MadeStaysAtHome ==
  ASSUME PatientInv, Hasty!SeriesAssumption, Series!SeriesAssumption, Hasty!Next
  PROVE  MadeAtHome'
<1>1. SeriesTypes
  BY DEF PatientInv
<1>2. ASSUME NEW m \in made
      PROVE  m[1] \in Cid /\ m[2] \in SeasonsIn' /\ seasons'[m[2]].show \in TvShows /\ Home(m[1], seasons[m[2]].show)'
  <2>1. m[1] \in Cid /\ m[2] \in SeasonsIn /\ seasons[m[2]].show \in TvShows /\ Home(m[1], seasons[m[2]].show)
    BY DEF PatientInv, MadeAtHome
  <2>2. m[2] \in SeasonsIn' /\ seasons'[m[2]] = seasons[m[2]]
    BY <1>1, <2>1, SeasonsStay
  <2>3. \A p \in TvShows : Home(m[1], p) => Home(m[1], p)'
    BY <2>1, HomesStay
  <2>. QED  BY <2>1, <2>2, <2>3 DEF Home
<1>3. CASE made' = made
  BY <1>2, <1>3 DEF MadeAtHome, Home
<1>4. CASE made' # made
  <2>1. Hasty!RunCreate
    BY <1>1, <1>4, SeriesKeepsTypes
  <2>2. creating # None
    BY <2>1 DEF Hasty!RunCreate
  <2>3. PICK c \in Cid, p \in TvShows : c = creating.c /\ p = creating.show /\ Home(c, p)
    BY <2>2 DEF PatientInv, Selection, SeriesTypes, Dialogs
  <2>. DEFINE fresh == {Hasty!Season(creating.show, n) : n \in creating.seasons}
  <2>9. PICK added \in SUBSET (SeriesRec \ SeasonsIn) :
          /\ fresh \subseteq ARecord /\ \A x \in fresh : x.show = creating.show
          /\ \A r \in added : seasons'[r] \in fresh
          /\ made' = made \cup {<<creating.c, r>> : r \in added}
    BY <1>1, <2>1, <1>4, CreationAdds
  <2>. HIDE DEF fresh
  <2>4. PICK new \in SUBSET ARecord :
          /\ \A x \in new : x.show = p
          /\ \A r \in added : seasons'[r] \in new
          /\ made' = made \cup {<<c, r>> : r \in added}
    BY <2>3, <2>9
  <2>5. Home(c, p)'
    BY <2>3, HomesStay
  <2>6. None \notin ARecord
    BY DEF Hasty!SeriesAssumption, Hasty!SeasonRecord, ARecord
  <2>7. ASSUME NEW r \in added
        PROVE  r \in SeasonsIn' /\ seasons'[r].show = p
    BY <2>4, <2>6 DEF SeasonsIn
  <2>8. \A m \in made' \ made : m[1] = c /\ m[2] \in added
    BY <2>4
  <2>. QED  BY <1>2, <2>3, <2>5, <2>7, <2>8 DEF MadeAtHome, Home
<1>. QED  BY <1>3, <1>4

\* What is known of the selection before a step of a patient user: the homes
\* that are looked up and completed are homes afterwards, too.
LEMMA SelectionStays ==
  ASSUME PatientInv, Hasty!SeriesAssumption, Series!SeriesAssumption, PatientSelect \/ OtherStep
  PROVE  Selection'
<1>1. SeriesTypes /\ Selection /\ RecordsAndGroups /\ Dialogs
  BY DEF PatientInv, SeriesTypes
<1>2. Hasty!Next
  BY DEF PatientSelect, OtherStep, Hasty!Next
<1>3. \A c \in Cid, p \in TvShows : Home(c, p) => Home(c, p)'
  BY <1>2, HomesStay
<1>4. CASE PatientSelect
  <2>1. PICK c \in Cid : Hasty!Select(c)
    BY <1>4 DEF PatientSelect
  <2>2. /\ inspecting = None /\ creating = None /\ choices = {} /\ detail = None
        /\ UNCHANGED <<groups, inspecting, creating, choices, detail, completing>>
    BY <1>1, <1>4, <2>1 DEF PatientSelect, Selection, Hasty!Select, Hasty!NoOverlay, Hasty!data, Hasty!dialog
  <2>. QED  BY <1>1, <2>2 DEF Selection, Home
<1>5. CASE \E r \in SeriesRec : Hasty!ByHand(r)
  <2>1. PICK r \in SeriesRec : Hasty!ByHand(r)
    BY <1>5
  <2>2. /\ inspecting = None /\ creating = None /\ choices = {} /\ detail = None
        /\ UNCHANGED <<group, inspecting, creating, choices, detail, completing>>
    BY <1>1, <2>1 DEF Selection, Hasty!ByHand, Hasty!Begin, Hasty!NoOverlay, Hasty!dialog
  <2>. QED  BY <1>1, <2>2 DEF Selection
<1>6. CASE \E p \in TvShows : Hasty!Inspect(p) \/ Hasty!BindChoice(p)
  <2>1. PICK p \in TvShows : Hasty!Inspect(p) \/ Hasty!BindChoice(p)
    BY <1>6
  <2>2. /\ inspecting = None /\ creating = None /\ group # None
        /\ choices' = {} /\ completing' = TRUE
        /\ Hasty!LookUp(group, p, Hasty!SeasonsOf(group))
        /\ UNCHANGED <<group, creating, detail>>
    BY <1>1, <2>1 DEF Selection, Hasty!Inspect, Hasty!BindChoice, Hasty!dialog
  <2>6. inspecting'.kind = "seasons" /\ inspecting'.c = group /\ inspecting'.show = p
    BY <2>2 DEF Hasty!LookUp
  <2>3. group \in Cid
    BY <1>1, <2>2 DEF Dialogs
  <2>4. Home(group, p)'
    <3>1. CASE groups' = groups /\ groups[group].source # None
      <4>1. Hasty!Inspect(p)
        BY <2>1, <3>1 DEF Hasty!BindChoice
      <4>2. groups[group].source = p
        BY <4>1, <3>1 DEF Hasty!Inspect, Hasty!Target
      <4>. QED  BY <4>2, <3>1, <2>2 DEF Home
    <3>2. CASE groups' = groups /\ groups[group].kind = "universe"
      BY <3>2, <2>2 DEF Home
    <3>3. CASE groups' = Hasty!Bind(group, p)
      <4>1. groups'[group].source = p
        BY <1>1, <2>3, <3>3, BoundGroup
      <4>. QED  BY <4>1, <2>2 DEF Home
    <3>. QED  BY <2>1, <3>1, <3>2, <3>3 DEF Hasty!Inspect, Hasty!BindChoice
  <2>5. detail # None => Home(group, detail)'
    BY <1>1, <1>3, <2>2, <2>3 DEF Selection, Dialogs, Home
  <2>. QED  BY <1>1, <2>2, <2>6, <2>4, <2>5 DEF Selection, Home
<1>7. CASE Hasty!AnswerInspect
  <2>1. /\ inspecting # None /\ inspecting.kind = "seasons" /\ inspecting' = None
        /\ detail' = inspecting.show /\ UNCHANGED <<group, groups, choices, creating>>
    BY <1>7 DEF Hasty!AnswerInspect, Hasty!Answered, Hasty!Opened, Hasty!data
  <2>. QED  BY <1>1, <2>1 DEF Selection, Home
<1>8. CASE Hasty!Fail
  <2>1. inspecting # None /\ inspecting' = None /\ UNCHANGED <<group, groups, choices, creating, detail>>
    BY <1>8 DEF Hasty!Fail, Hasty!data, Hasty!dialog
  <2>. QED  BY <1>1, <2>1 DEF Selection, Home
<1>9. CASE Hasty!Identify
  <2>1. /\ inspecting = None /\ creating = None /\ choices = {} /\ detail = None /\ group # None
        /\ groups[group].kind = "manual" /\ groups[group].source = None
        /\ inspecting'.kind = "search" /\ inspecting'.c = group /\ completing' = TRUE
        /\ UNCHANGED <<group, groups, choices, creating, detail>>
    BY <1>1, <1>9 DEF Selection, Hasty!Identify, Hasty!Begin, Hasty!NoOverlay, Hasty!data, Hasty!dialog
  <2>. QED  BY <2>1 DEF Selection
<1>10. CASE Hasty!CloseDialog
  <2>1. detail' = None /\ choices' = {} /\ UNCHANGED <<group, groups, inspecting, creating, completing>>
    BY <1>10 DEF Hasty!CloseDialog, Hasty!data
  <2>. QED  BY <1>1, <2>1 DEF Selection, Home
<1>11. CASE Hasty!Create
  <2>1. /\ detail # None /\ inspecting = None /\ completing' = TRUE
        /\ creating'.c = group /\ creating'.show = detail
        /\ UNCHANGED <<group, groups, choices, detail, inspecting>>
    BY <1>1, <1>11 DEF Selection, Hasty!Create, Hasty!data, Hasty!dialog
  <2>. QED  BY <1>1, <2>1 DEF Selection, Home
<1>12. CASE Hasty!RunCreate
  <2>1. creating # None /\ creating' = None /\ inspecting = None /\ UNCHANGED <<group, inspecting, choices>>
    BY <1>1, <1>12 DEF Selection, Hasty!RunCreate
  <2>2. detail' \in {detail, None}
    BY <1>12 DEF Hasty!RunCreate, Hasty!dialog
  <2>3. WhatGroupsAre
    BY <1>1, <1>12, CreationKeeps DEF WhatGroupsAre
  <2>4. group # None => group \in Cid
    BY <1>1 DEF Dialogs
  <2>. QED  BY <1>1, <2>1, <2>2, <2>3, <2>4 DEF Selection, Home, WhatGroupsAre
<1>13. CASE \E found \in SUBSET TvShows : Hasty!AnswerIdentify(found)
  <2>1. PICK found \in SUBSET TvShows : Hasty!AnswerIdentify(found)
    BY <1>13
  <2>2. /\ inspecting # None /\ inspecting.kind = "search" /\ creating = None /\ choices = {}
        /\ group = inspecting.c /\ group # None
        /\ groups[group].kind = "manual" /\ groups[group].source = None
        /\ UNCHANGED <<group, creating, detail>>
    BY <1>1, <2>1 DEF Selection, Hasty!AnswerIdentify, Hasty!dialog
  <2>3. group \in Cid
    BY <1>1, <2>2 DEF Dialogs
  <2>4. detail # None => Home(group, detail)'
    BY <1>1, <1>3, <2>2, <2>3 DEF Selection, Dialogs, Home
  <2>5. CASE Hasty!Cardinality(found) = 1
    <3>1. PICK p \in found :
            /\ groups' = Hasty!Bind(inspecting.c, p)
            /\ Hasty!LookUp(inspecting.c, p, inspecting.existing)
            /\ choices' = choices /\ completing' = completing
      BY <2>1, <2>5 DEF Hasty!AnswerIdentify
    <3>2. inspecting'.kind = "seasons" /\ inspecting'.c = group /\ inspecting'.show = p
      BY <2>2, <3>1 DEF Hasty!LookUp
    <3>3. groups'[group].source = p
      BY <1>1, <2>2, <2>3, <3>1, BoundGroup
    <3>4. completing'
      BY <1>1, <2>2, <3>1 DEF Selection
    <3>. QED  BY <2>2, <2>4, <3>1, <3>2, <3>3, <3>4 DEF Selection, Home
  <2>6. CASE Hasty!Cardinality(found) # 1
    <3>1. groups' = groups /\ inspecting' = None
      BY <2>1, <2>6 DEF Hasty!AnswerIdentify
    <3>. QED  BY <2>2, <2>4, <3>1 DEF Selection
  <2>. QED  BY <2>5, <2>6
<1>14. CASE \E n \in UNION {AllSeasons[p] : p \in TvShows} : Hasty!Toggle(n)
  <2>1. UNCHANGED <<group, groups, choices, creating, detail, inspecting, completing>>
    BY <1>14 DEF Hasty!Toggle, Hasty!data
  <2>. QED  BY <1>1, <2>1 DEF Selection, Home
<1>. QED
  BY <1>4, <1>5, <1>6, <1>7, <1>8, <1>9, <1>10, <1>11, <1>12, <1>13, <1>14 DEF OtherStep

\* Every step of a patient user keeps the invariant.
LEMMA PatientInvInductive ==
  ASSUME PatientInv, Hasty!SeriesAssumption, Series!SeriesAssumption, Series!Next
  PROVE  PatientInv'
<1>1. (PatientSelect \/ OtherStep) /\ Hasty!Next /\ SeriesTypes
  BY PatientStep DEF PatientInv
<1>. QED  BY <1>1, SelectionStays, MadeStaysAtHome, SeriesKeepsTypes DEF PatientInv

\* Both begin with their invariants, and the patient one implies that
\* seasons go to their series.
LEMMA SeriesInits ==
  /\ CentreAssumption /\ Hasty!Init => HastyInv
  /\ CentreAssumption /\ Series!Init => PatientInv
  /\ PatientInv => Series!SeasonsGoToTheirSeries
<1>1. ASSUME CentreAssumption, Hasty!Init \/ Series!Init
      PROVE  SeriesTypes /\ made = {} /\ inspecting = None /\ creating = None /\ detail = None /\ choices = {}
  <2>1. /\ group = None /\ inspecting = None /\ choices = {}
        /\ detail = None /\ chosen = {} /\ creating = None /\ made = {}
    BY <1>1 DEF Hasty!Init, Series!Init
  <2>2. /\ groups \in [Cid -> [kind : SeriesKinds \cup {"universe"}, source : {None},
                               recs : SUBSET SeasonsIn, rev : {1}]]
        /\ seasons \in [SeriesRec -> ARecord \cup {None}]
    BY <1>1 DEF Hasty!Init, Series!Init, Hasty!Live, Series!Live, SeasonsIn, ARecord, Hasty!Season, Series!Season
  <2>3. \A c \in Cid : groups[c] \in AGroup /\ groups[c].source = None /\ groups[c].recs \subseteq SeasonsIn
    <3>. TAKE c \in Cid
    <3>. DEFINE g == groups[c]
    <3>1. g \in [kind : SeriesKinds \cup {"universe"}, source : {None}, recs : SUBSET SeasonsIn, rev : {1}]
      BY <2>2
    <3>. HIDE DEF g
    <3>2. g.kind \in SeriesKinds \cup {"universe"} /\ g.source = None /\ g.recs \subseteq SeasonsIn /\ g.rev = 1
          /\ g = [kind |-> g.kind, source |-> g.source, recs |-> g.recs, rev |-> g.rev]
      BY <3>1
    <3>3. g.kind \in {"manual", "tv-series", "universe"} /\ SeasonsIn \subseteq SeriesRec
      BY <3>2, <1>1 DEF CentreAssumption, SeasonsIn
    <3>4. g \in AGroup
      BY <3>2, <3>3 DEF AGroup
    <3>. QED  BY <3>2, <3>4 DEF g
  <2>4. groups \in [Cid -> AGroup]
    BY <2>2, <2>3
  <2>. QED  BY <2>1, <2>2, <2>3, <2>4 DEF SeriesTypes, RecordsAndGroups, Dialogs
<1>2. ASSUME CentreAssumption, Hasty!Init PROVE NoUniverse
  BY <1>2 DEF Hasty!Init, NoUniverse, CentreAssumption
<1>3. PatientInv => Series!SeasonsGoToTheirSeries
  BY DEF PatientInv, MadeAtHome, Home, Series!SeasonsGoToTheirSeries
<1>. QED  BY <1>1, <1>2, <1>3 DEF HastyInv, PatientInv, Selection, MadeAtHome

-----------------------------------------------------------------------------
(*                   Completing a movie collection                         *)

\* The parts of the dialog are movies; of the completion under way none is
\* both to be created and matched with a record, and every record that is
\* matched has the revision it was read with.
MoviesInv ==
  /\ DOMAIN candidates \subseteq Movie
  /\ filing # None =>
       /\ filing.new \subseteq Movie /\ DOMAIN filing.match = DOMAIN filing.revs
       /\ \A r \in DOMAIN filing.match : filing.match[r] \notin filing.new

\* Every step of the completion of movies keeps the invariant.
LEMMA MoviesInvInductive ==
  ASSUME MoviesInv, Movies!Next
  PROVE  MoviesInv'
<1>1. CASE UNCHANGED <<candidates, filing>>
  BY <1>1 DEF MoviesInv
<1>2. CASE \E answered \in SUBSET Movie : Movies!AnswerParts(answered)
  <2>1. DOMAIN candidates' = Movies!Parts /\ filing' = filing
    BY <1>2 DEF Movies!AnswerParts
  <2>. QED  BY <2>1 DEF MoviesInv, Movies!Parts
<1>3. CASE Movies!CloseDialog \/ Movies!RunComplete
  <2>1. candidates' = candidates \/ candidates' = Movies!NoCandidates
    BY <1>3 DEF Movies!CloseDialog, Movies!RunComplete
  <2>2. DOMAIN Movies!NoCandidates = {}
    BY DEF Movies!NoCandidates
  <2>3. filing' = filing \/ filing' = None
    BY <1>3 DEF Movies!CloseDialog, Movies!RunComplete
  <2>. QED  BY <2>1, <2>2, <2>3 DEF MoviesInv
<1>4. CASE \E fill \in BOOLEAN : Movies!Create(fill)
  <2>. DEFINE matched == Movies!OfStatus({"member"}) \cup (picked \cap Movies!OfStatus({"library"}))
              found == {candidates[m].rec : m \in matched} \cap Movies!Live
  <2>1. PICK fill \in BOOLEAN : Movies!Create(fill)
    BY <1>4
  <2>2. PICK last \in [found -> matched] :
          filing' = [rev |-> rev, fill |-> fill, new |-> picked \cap Movies!OfStatus({"missing"}),
                     revs |-> [r \in found |-> movies[r].rev], match |-> last]
    BY <2>1 DEF Movies!Create
  <2>3. candidates' = candidates
    BY <2>1 DEF Movies!Create
  <2>4. \A m \in matched : m \notin Movies!OfStatus({"missing"})
    BY DEF Movies!OfStatus
  <2>5. Movies!OfStatus({"missing"}) \subseteq Movie
    BY DEF Movies!OfStatus, MoviesInv
  <2>. HIDE DEF matched, found
  <2>6. /\ filing'.new = picked \cap Movies!OfStatus({"missing"})
        /\ filing'.match = last /\ DOMAIN filing'.revs = found
    BY <2>2
  <2>7. DOMAIN last = found /\ \A r \in found : last[r] \in matched
    BY <2>2
  <2>. QED  BY <2>3, <2>4, <2>5, <2>6, <2>7 DEF MoviesInv
<1>. QED
  BY <1>1, <1>2, <1>3, <1>4 DEF Movies!Next, Movies!Change, Movies!Inspect, Movies!Fail, Movies!AnswerMembers, Movies!Toggle, Movies!page

\* A record that is filled in does not become the movie m, when the fill is
\* for another movie.
LEMMA FilledIsAnother ==
  ASSUME NEW x, NEW n, NEW m, n # m, ~Movies!Foreign(x, n),
         x.tmdb # m \/ x.kind # "movie"
  PROVE  /\ Movies!Filled(x, n).kind = "movie" => Movies!Filled(x, n).tmdb # m
         /\ Movies!Filled(x, n).imdb = x.imdb
<1>1. x.tmdb = None \/ x.tmdb = n
  BY DEF Movies!Foreign
<1>. QED  BY <1>1 DEF Movies!Filled

\* A completion creates no record of a movie that some record is.
LEMMA CompletionMakesNoTwin ==
  ASSUME MoviesInv, Movies!MovieAssumption, filing # None, ~Movies!Stale, ~Movies!Conflict, Movies!Complete
  PROVE  Movies!MovieOnceStep
<1>. DEFINE known == {m \in filing.new : Movies!Matching(m) # {}}
            reused == [r \in UNION {Movies!Matching(m) : m \in known} |-> CHOOSE m \in known : r \in Movies!Matching(m)]
            filled == [r \in DOMAIN filing.match \cup DOMAIN reused |->
                         IF r \in DOMAIN filing.match THEN filing.match[r] ELSE reused[r]]
<1>1. PICK at \in Movies!Injection(filing.new \ known, MovieRec \ Movies!Live) :
        LET added == [r \in {at[m] : m \in DOMAIN at} |-> CHOOSE m \in DOMAIN at : at[m] = r]
        IN  /\ movies' = [r \in MovieRec |-> IF r \in DOMAIN added THEN Movies!NewRecord(added[r])
                             ELSE IF r \in DOMAIN filled THEN Movies!Filled(movies[r], filled[r]) ELSE movies[r]]
            /\ filed' = filed \cup {<<r, added[r]>> : r \in DOMAIN added}
  BY DEF Movies!Complete
<1>. DEFINE added == [r \in {at[m] : m \in DOMAIN at} |-> CHOOSE m \in DOMAIN at : at[m] = r]
<1>2. /\ DOMAIN at = filing.new \ known
      /\ \A m, n \in DOMAIN at : at[m] = at[n] => m = n
      /\ \A m \in DOMAIN at : at[m] \in MovieRec \ Movies!Live
  BY DEF Movies!Injection, Movies!IsInjective
<1>3. \A r \in DOMAIN added : added[r] \in filing.new \ known /\ at[added[r]] = r
  BY <1>2
<1>4. \A r, q \in DOMAIN added : r # q => added[r] # added[q]
  BY <1>3
<1>5. filing.new \subseteq Movie
  BY DEF MoviesInv
<1>6. ASSUME NEW q \in DOMAIN filled
      PROVE  /\ q \in MovieRec => movies[q] # None
             /\ filled[q] \notin filing.new \ known
             /\ q \in MovieRec => ~Movies!Foreign(movies[q], filled[q])
  <2>1. CASE q \in DOMAIN filing.match
    <3>1. filled[q] = filing.match[q] /\ filing.match[q] \notin filing.new
      BY <2>1 DEF MoviesInv
    <3>2. movies[q] # None
      BY <2>1 DEF MoviesInv, Movies!Stale
    <3>3. ~Movies!Foreign(movies[q], filing.match[q])
      BY <2>1, <3>2 DEF Movies!Conflict
    <3>. QED  BY <3>1, <3>2, <3>3
  <2>2. CASE q \notin DOMAIN filing.match
    <3>1. q \in DOMAIN reused /\ filled[q] = reused[q]
      BY <2>2
    <3>2. PICK m \in known : q \in Movies!Matching(m)
      BY <3>1
    <3>3. reused[q] = CHOOSE n \in known : q \in Movies!Matching(n)
      BY <3>1
    <3>4. reused[q] \in known /\ q \in Movies!Matching(reused[q])
      BY <3>2, <3>3
    <3>5. movies[q] # None
      BY <3>2 DEF Movies!Matching, Movies!Live
    <3>6. ~Movies!Foreign(movies[q], reused[q])
      BY <3>4 DEF Movies!Conflict
    <3>. QED  BY <3>1, <3>4, <3>5, <3>6
  <2>. QED  BY <2>1, <2>2
<1>. HIDE DEF reused, filled, added
<1>7. /\ \A r \in MovieRec : movies'[r] = IF r \in DOMAIN added THEN Movies!NewRecord(added[r])
                             ELSE IF r \in DOMAIN filled THEN Movies!Filled(movies[r], filled[r]) ELSE movies[r]
      /\ filed' = filed \cup {<<r, added[r]>> : r \in DOMAIN added}
  BY <1>1 DEF added
<1>8. ASSUME NEW r \in DOMAIN added, NEW q \in MovieRec, movies'[q] # None, q # r
      PROVE  /\ movies'[q].kind = "movie" => movies'[q].tmdb # added[r]
             /\ ImdbIds[added[r]] # None => movies'[q].imdb # ImdbIds[added[r]]
  <2>. DEFINE m == added[r]
  <2>1. m \in Movie /\ Movies!Matching(m) = {} /\ m \in filing.new \ known
    BY <1>3, <1>5
  <2>. HIDE DEF m
  <2>2. CASE q \in DOMAIN added
    <3>1. added[q] # m /\ added[q] \in Movie
      BY <1>3, <1>4, <1>5, <1>8, <2>2 DEF m
    <3>2. movies'[q] = Movies!NewRecord(added[q])
      BY <1>7, <2>2
    <3>3. movies'[q].tmdb = added[q] /\ movies'[q].imdb = ImdbIds[added[q]]
      BY <3>2 DEF Movies!NewRecord
    <3>4. ImdbIds[m] # None => ImdbIds[m] # ImdbIds[added[q]]
      BY <2>1, <3>1 DEF Movies!MovieAssumption
    <3>. QED  BY <3>1, <3>3, <3>4 DEF m
  <2>3. ASSUME movies[q] # None
        PROVE  /\ movies[q].kind # "movie" \/ movies[q].tmdb # m
               /\ ImdbIds[m] # None => movies[q].imdb # ImdbIds[m]
    BY <2>1, <2>3 DEF Movies!Matching, Movies!Live
  <2>4. CASE q \notin DOMAIN added /\ q \in DOMAIN filled
    <3>1. movies[q] # None /\ filled[q] # m /\ ~Movies!Foreign(movies[q], filled[q])
      BY <1>6, <2>1, <2>4
    <3>2. movies'[q] = Movies!Filled(movies[q], filled[q])
      BY <1>7, <2>4
    <3>3. /\ Movies!Filled(movies[q], filled[q]).kind = "movie" => Movies!Filled(movies[q], filled[q]).tmdb # m
          /\ Movies!Filled(movies[q], filled[q]).imdb = movies[q].imdb
      BY <2>3, <3>1, FilledIsAnother
    <3>. QED  BY <2>3, <3>1, <3>2, <3>3 DEF m
  <2>5. CASE q \notin DOMAIN added /\ q \notin DOMAIN filled
    BY <1>7, <1>8, <2>3, <2>5 DEF m
  <2>. QED  BY <2>2, <2>4, <2>5
<1>9. \A p \in filed' \ filed : p[1] \in DOMAIN added /\ p[2] = added[p[1]]
  BY <1>7
<1>. QED  BY <1>8, <1>9 DEF Movies!MovieOnceStep, Movies!Live

\* Nothing but a completion makes records of movies.
LEMMA MovieMadeOnce ==
  ASSUME MoviesInv, Movies!MovieAssumption, Movies!Next
  PROVE  Movies!MovieOnceStep
<1>1. CASE filed' \subseteq filed
  BY <1>1 DEF Movies!MovieOnceStep
<1>2. CASE Movies!RunComplete
  <2>1. CASE Movies!Stale \/ Movies!Conflict
    BY <1>1, <1>2, <2>1 DEF Movies!RunComplete
  <2>2. CASE ~Movies!Stale /\ ~Movies!Conflict
    BY <1>2, <2>2, CompletionMakesNoTwin DEF Movies!RunComplete
  <2>. QED  BY <2>1, <2>2
<1>. QED
  BY <1>1, <1>2 DEF Movies!Next, Movies!Change, Movies!Inspect, Movies!Fail, Movies!AnswerMembers, Movies!Toggle,
     Movies!AnswerParts, Movies!CloseDialog, Movies!Create

-----------------------------------------------------------------------------
(*                     The search for collections                          *)

Apart(S, T) == S \cap T = {}

\* While TMDB is asked: no record is in two groups, a record that is still
\* to be asked about is only in the group of its IMDb id, and one that the
\* user is asked about in none.
GroupsApart ==
  /\ \A k, l \in DOMAIN scan.groups : k # l => Apart(scan.groups[k], scan.groups[l])
  /\ scan.todo \cup scan.asked \subseteq Scan!Imdbs /\ Apart(scan.todo, scan.asked)
  /\ \A i \in scan.todo \cup scan.asked, k \in DOMAIN scan.groups :
       k # Scan!Key("local", i) => Apart(scan.groups[k], Scan!Matching(i))
  /\ \A a \in ambiguities, k \in DOMAIN scan.groups : Apart(scan.groups[k], a.recs)
  /\ \A a \in ambiguities : a.imdb \notin scan.todo \cup scan.asked

\* Items of different sources want different records, and none that the user
\* is asked about.
ItemsApart(items) ==
  /\ \A x, y \in items : x # y => x.key # y.key /\ Apart(x.recs, y.recs)
  /\ \A a \in ambiguities, x \in items : Apart(a.recs, x.recs)

\* A page that has not read the setting has nothing; a patient user has one
\* write at a time under way, and none during a scan.
PageIsRead ==
  /\ ~loaded => dismissals = {} /\ suggestions = {} /\ ambiguities = {} /\ scan = Scan!Idle
  /\ writes = <<>> \/ writes = <<writes[1]>>
  /\ scan # Scan!Idle => writes = <<>> /\ scan.dismissed = dismissals
  /\ \A i \in DOMAIN writes :
       writes[i].page => loaded /\ writes[i].keys \subseteq dismissals \cup {s.key : s \in writes[i].gone}

ScanInv ==
  /\ PageIsRead
  /\ scan = Scan!Idle \/ scan.stage \in {"search", "verify"}
  /\ \A a \in ambiguities : a.recs = Scan!Matching(a.imdb)
  /\ scan # Scan!Idle /\ scan.stage = "search" => GroupsApart
  /\ scan # Scan!Idle /\ scan.stage = "verify" =>
       ItemsApart(scan.found) /\ \A x \in scan.found : x.key \notin scan.dismissed
  /\ scan = Scan!Idle => ItemsApart(suggestions) /\ Scan!DismissedIsNotSuggested

\* An IMDb id or a record has one group of its own: what is asked about for
\* one id is not asked about for another.
LEMMA MatchingApart ==
  ASSUME NEW i, NEW j, i # j
  PROVE  Apart(Scan!Matching(i), Scan!Matching(j))
BY DEF Scan!Matching, Apart

\* A record without a show is grouped by its IMDb id.
LEMMA LocalKey ==
  ASSUME NEW i, NEW r \in Scan!Matching(i), i # None
  PROVE  Scan!GroupKey(r) = Scan!Key("local", i)
BY DEF Scan!Matching, Scan!GroupKey

\* The groups a search begins with share no record, nor with what is asked about.
LEMMA LocalGroupsApart ==
  /\ \A k, l \in DOMAIN Scan!LocalGroups : k # l => Apart(Scan!LocalGroups[k], Scan!LocalGroups[l])
  /\ \A i \in Scan!Imdbs, k \in DOMAIN Scan!LocalGroups :
       k # Scan!Key("local", i) => Apart(Scan!LocalGroups[k], Scan!Matching(i))
<1>. DEFINE G == Scan!LocalGroups
<1>1. ASSUME NEW k \in DOMAIN G, NEW r \in G[k]
      PROVE  Scan!GroupKey(r) = k
  BY <1>1 DEF Scan!LocalGroups
<1>. HIDE DEF G
<1>2. \A k, l \in DOMAIN G : k # l => Apart(G[k], G[l])
  BY <1>1 DEF Apart
<1>3. \A i \in Scan!Imdbs, k \in DOMAIN G : k # Scan!Key("local", i) => Apart(G[k], Scan!Matching(i))
  BY <1>1, LocalKey DEF Apart, Scan!Imdbs
<1>. QED  BY <1>2, <1>3 DEF G

\* What is left of an item at a collection it belongs to is of the same
\* source and wants no more records.
LEMMA ReconciledIsLess ==
  ASSUME NEW key, NEW some, NEW cs,
         Scan!Reconcile(Scan!Item(key, some, None, FALSE), cs) # None
  PROVE  LET x == Scan!Reconcile(Scan!Item(key, some, None, FALSE), cs)
         IN  x.key = key /\ x.recs \subseteq some
<1>. DEFINE item == Scan!Item(key, some, None, FALSE)
            x == Scan!Reconcile(item, cs)
<1>1. item.key = key /\ item.recs = some
  BY DEF Scan!Item
<1>. HIDE DEF item
<1>2. \/ x = item
      \/ \E c, b : x = Scan!Item(item.key, item.recs \ cs[c].recs, c, b)
  BY DEF Scan!Reconcile, item
<1>3. CASE x = item
  BY <1>1, <1>3 DEF item
<1>4. CASE \E c, b : x = Scan!Item(item.key, item.recs \ cs[c].recs, c, b)
  <2>1. PICK c, b : x = Scan!Item(item.key, item.recs \ cs[c].recs, c, b)
    BY <1>4
  <2>2. x.key = key /\ x.recs = some \ cs[c].recs
    BY <1>1, <2>1 DEF Scan!Item
  <2>. QED  BY <2>2 DEF item
<1>. QED  BY <1>2, <1>3, <1>4

\* Fewer records to ask about, or fewer groups, are as far apart.
LEMMA SearchGoesOn ==
  ASSUME GroupsApart, NEW todo, NEW asked, NEW cancel,
         NEW left, DOMAIN left \subseteq DOMAIN scan.groups,
         \A k \in DOMAIN left : left[k] = scan.groups[k],
         todo \cup asked \subseteq scan.todo \cup scan.asked, Apart(todo, asked),
         Scan!Search(cancel, todo, asked, left), ambiguities' = ambiguities
  PROVE  GroupsApart'
<1>1. scan'.groups = left /\ scan'.todo = todo /\ scan'.asked = asked
  BY DEF Scan!Search
<1>2. \A k, l \in DOMAIN left : k # l => Apart(left[k], left[l])
  BY DEF GroupsApart
<1>3. \A i \in todo \cup asked, k \in DOMAIN left : k # Scan!Key("local", i) => Apart(left[k], Scan!Matching(i))
  BY DEF GroupsApart
<1>4. \A a \in ambiguities, k \in DOMAIN left : Apart(left[k], a.recs)
  BY DEF GroupsApart
<1>5. todo \cup asked \subseteq Scan!Imdbs /\ \A a \in ambiguities : a.imdb \notin todo \cup asked
  BY DEF GroupsApart
<1>. QED  BY <1>1, <1>2, <1>3, <1>4, <1>5 DEF GroupsApart

\* A search that goes on leaves the page as it is.
LEMMA PageStaysRead ==
  ASSUME PageIsRead, scan # Scan!Idle, scan'.dismissed = scan.dismissed,
         UNCHANGED <<dismissals, loaded, writes, suggestions>>
  PROVE  PageIsRead' /\ loaded
BY DEF PageIsRead

\* A search is not idle.
LEMMA SearchIsScanning ==
  ASSUME NEW cancel, NEW todo, NEW asked, NEW left, Scan!Search(cancel, todo, asked, left)
  PROVE  scan' # Scan!Idle /\ scan'.stage = "search" /\ scan'.dismissed = scan.dismissed
<1>1. scan'.stage = "search" /\ scan'.dismissed = scan.dismissed
  BY DEF Scan!Search
<1>2. Scan!Idle.stage = "idle"
  BY DEF Scan!Idle
<1>. QED  BY <1>1, <1>2

\* An answer makes one group of what is left and the records asked about,
\* or has the user asked about them.
LEMMA AnsweredStaysApart ==
  ASSUME ScanInv, GroupsApart, NEW i \in Scan!Imdbs, NEW S \in SUBSET ImdbSeeds[i],
         Scan!ScanAssumption, Scan!AnswerEntry(i, S)
  PROVE  GroupsApart' /\ \A a \in ambiguities' : a.recs = Scan!Matching(a.imdb)
<1>. DEFINE found == Scan!Choices(i, S)
            left == IF found = {} THEN scan.groups ELSE Scan!Without(scan.groups, Scan!Key("local", i))
            todo == scan.todo
            asked == scan.asked \ {i}
            s == CHOOSE x \in found : TRUE
            k == Scan!Key(s.kind, s.source)
            new == scan'.groups
<1>1. i \in scan.asked /\ i \notin todo /\ i \notin asked
  BY DEF Scan!AnswerEntry, Scan!Answer, GroupsApart, Apart
<1>2. /\ DOMAIN left \subseteq DOMAIN scan.groups
      /\ \A l \in DOMAIN left : left[l] = scan.groups[l]
      /\ found # {} => Scan!Key("local", i) \notin DOMAIN left
  BY DEF Scan!Without
<1>3. /\ scan'.todo = todo /\ scan'.asked = asked
      /\ new = IF Scan!Cardinality(found) # 1 THEN left ELSE Scan!Joined(left, k, Scan!Matching(i))
  BY DEF Scan!AnswerEntry, Scan!Answer, Scan!Search
<1>4. /\ Scan!Cardinality(found) < 2 => ambiguities' = ambiguities
      /\ ~(Scan!Cardinality(found) < 2) =>
           ambiguities' = ambiguities \cup {[imdb |-> i, recs |-> Scan!Matching(i), choices |-> found]}
  BY DEF Scan!AnswerEntry, Scan!Answer
<1>5. Scan!Cardinality({}) = 0
  <2>1. Scan!Cardinality({}) = Cardinality({})
    BY DEF Scan!Cardinality, Cardinality
  <2>. QED  BY <2>1, FS_EmptySet
<1>6. found # {} => s \in found /\ s.kind \in {"tv", "movie"}
  BY DEF Scan!Choices, Scan!ScanAssumption
<1>7. \A j \in todo \cup asked : Apart(Scan!Matching(i), Scan!Matching(j)) /\ j \in Scan!Imdbs /\ j \in scan.todo \cup scan.asked
  BY <1>1, MatchingApart DEF GroupsApart
<1>8. /\ \A l, m \in DOMAIN left : l # m => Apart(left[l], left[m])
      /\ \A j \in todo \cup asked, l \in DOMAIN left : l # Scan!Key("local", j) => Apart(left[l], Scan!Matching(j))
      /\ \A a \in ambiguities, l \in DOMAIN left : Apart(left[l], a.recs)
      /\ found # {} => \A l \in DOMAIN left : Apart(left[l], Scan!Matching(i))
  BY <1>1, <1>2, <1>7 DEF GroupsApart
<1>9. \A a \in ambiguities : a.imdb \notin todo \cup asked /\ a.imdb # i /\ a.recs = Scan!Matching(a.imdb)
  BY <1>1 DEF GroupsApart, ScanInv
<1>10. \A a \in ambiguities : Apart(Scan!Matching(i), a.recs)
  BY <1>9, MatchingApart
<1>11. todo \cup asked \subseteq Scan!Imdbs /\ Apart(todo, asked)
  BY DEF GroupsApart, Apart
<1>. HIDE DEF found, left, todo, asked, s, k, new
<1>12. CASE Scan!Cardinality(found) = 1
  <2>1. found # {} /\ new = Scan!Joined(left, k, Scan!Matching(i)) /\ ambiguities' = ambiguities
    BY <1>3, <1>4, <1>5, <1>12
  <2>2. /\ DOMAIN new = DOMAIN left \cup {k}
        /\ \A l \in DOMAIN left : l # k => new[l] = left[l]
        /\ new[k] \subseteq Scan!Matching(i) \cup (IF k \in DOMAIN left THEN left[k] ELSE {})
    BY <2>1 DEF Scan!Joined
  <2>3. \A j : k # Scan!Key("local", j)
    BY <1>6, <2>1 DEF k, Scan!Key
  <2>4. \A l, m \in DOMAIN new : l # m => Apart(new[l], new[m])
    <3>1. \A l \in DOMAIN left : l # k => Apart(left[l], new[k])
      BY <1>8, <2>1, <2>2 DEF Apart
    <3>. QED  BY <1>8, <2>2, <3>1 DEF Apart
  <2>5. \A j \in todo \cup asked, l \in DOMAIN new : l # Scan!Key("local", j) => Apart(new[l], Scan!Matching(j))
    <3>1. \A j \in todo \cup asked : Apart(new[k], Scan!Matching(j))
      BY <1>7, <1>8, <2>2, <2>3 DEF Apart
    <3>. QED  BY <1>8, <2>2, <3>1
  <2>6. \A a \in ambiguities, l \in DOMAIN new : Apart(new[l], a.recs)
    <3>1. \A a \in ambiguities : Apart(new[k], a.recs)
      BY <1>8, <1>10, <2>2 DEF Apart
    <3>. QED  BY <1>8, <2>2, <3>1
  <2>. QED  BY <1>3, <1>9, <1>11, <2>1, <2>4, <2>5, <2>6 DEF GroupsApart, new
<1>13. CASE Scan!Cardinality(found) # 1
  <2>1. new = left
    BY <1>3, <1>13
  <2>2. ASSUME NEW a \in ambiguities'
        PROVE  /\ a.recs = Scan!Matching(a.imdb) /\ a.imdb \notin todo \cup asked
               /\ \A l \in DOMAIN left : Apart(left[l], a.recs)
    <3>1. CASE a \in ambiguities
      BY <1>8, <1>9, <3>1
    <3>2. CASE a \notin ambiguities
      <4>1. found # {} /\ a.imdb = i /\ a.recs = Scan!Matching(i)
        BY <1>4, <1>5, <3>2
      <4>. QED  BY <1>1, <1>8, <4>1 DEF todo, asked
    <3>. QED  BY <3>1, <3>2
  <2>. QED  BY <1>3, <1>8, <1>11, <2>1, <2>2 DEF GroupsApart, new
<1>. QED  BY <1>12, <1>13

\* Asking TMDB keeps what holds while it is asked.
LEMMA SearchKeeps ==
  ASSUME ScanInv, Scan!ScanAssumption, Scan!Scanning("search"),
         \/ \E i \in Scan!Imdbs : Scan!PickEntry(i) \/ \E S \in SUBSET ImdbSeeds[i] : Scan!AnswerEntry(i, S)
         \/ Scan!StopScan
  PROVE  ScanInv'
<1>1. scan.stage = "search" /\ Scan!Idle.stage = "idle"
  BY DEF Scan!Scanning, Scan!Idle
<1>2. scan # Scan!Idle /\ GroupsApart /\ PageIsRead
  BY <1>1 DEF ScanInv
<1>3. /\ scan' # Scan!Idle /\ scan'.stage = "search" /\ scan'.dismissed = scan.dismissed
      /\ UNCHANGED <<dismissals, loaded, writes, suggestions>>
  BY SearchIsScanning DEF Scan!PickEntry, Scan!AnswerEntry, Scan!Answer, Scan!StopScan, Scan!Within, Scan!setting
<1>4. PageIsRead'
  BY <1>2, <1>3, PageStaysRead
<1>5. CASE \E i \in Scan!Imdbs : \E S \in SUBSET ImdbSeeds[i] : Scan!AnswerEntry(i, S)
  <2>1. GroupsApart' /\ \A a \in ambiguities' : a.recs = Scan!Matching(a.imdb)
    BY <1>2, <1>5, AnsweredStaysApart
  <2>. QED  BY <1>3, <1>4, <2>1 DEF ScanInv
<1>6. CASE Scan!StopScan
  <2>1. Scan!Search(TRUE, scan.todo, scan.asked, scan.groups) /\ ambiguities' = ambiguities
    BY <1>6 DEF Scan!StopScan
  <2>2. GroupsApart'
    BY <1>2, <2>1, SearchGoesOn DEF GroupsApart
  <2>. QED  BY <1>3, <1>4, <2>1, <2>2 DEF ScanInv
<1>7. CASE \E i \in Scan!Imdbs : Scan!PickEntry(i)
  <2>1. PICK i \in Scan!Imdbs : Scan!PickEntry(i)
    BY <1>7
  <2>2. /\ ambiguities' = ambiguities /\ i \in scan.todo
        /\ \/ Scan!Search(FALSE, scan.todo \ {i}, scan.asked, Scan!Without(scan.groups, Scan!Key("local", i)))
           \/ Scan!Search(FALSE, scan.todo \ {i}, scan.asked \cup {i}, scan.groups)
    BY <2>1 DEF Scan!PickEntry
  <2>3. CASE Scan!Search(FALSE, scan.todo \ {i}, scan.asked, Scan!Without(scan.groups, Scan!Key("local", i)))
    <3>. DEFINE left == Scan!Without(scan.groups, Scan!Key("local", i))
    <3>1. DOMAIN left \subseteq DOMAIN scan.groups /\ \A k \in DOMAIN left : left[k] = scan.groups[k]
      BY DEF Scan!Without
    <3>. HIDE DEF left
    <3>2. Apart(scan.todo \ {i}, scan.asked)
      BY <1>2 DEF GroupsApart, Apart
    <3>. QED  BY <1>2, <2>2, <2>3, <3>1, <3>2, <1>3, <1>4, SearchGoesOn DEF ScanInv, left
  <2>4. CASE Scan!Search(FALSE, scan.todo \ {i}, scan.asked \cup {i}, scan.groups)
    <3>1. Apart(scan.todo \ {i}, scan.asked \cup {i})
      BY <1>2 DEF GroupsApart, Apart
    <3>2. GroupsApart'
      BY <1>2, <2>2, <2>4, <3>1, SearchGoesOn
    <3>. QED  BY <2>2, <3>2, <1>3, <1>4 DEF ScanInv
  <2>. QED  BY <2>2, <2>3, <2>4
<1>. QED  BY <1>5, <1>6, <1>7

\* The groups become items, one of each source that is not dismissed.
LEMMA GatherKeeps ==
  ASSUME ScanInv, Scan!Gather
  PROVE  ScanInv'
<1>1. scan.stage = "search" /\ Scan!Idle.stage = "idle"
  BY DEF Scan!Gather, Scan!Scanning, Scan!Idle
<1>2. scan # Scan!Idle /\ GroupsApart /\ PageIsRead
  BY <1>1 DEF ScanInv
<1>. DEFINE item(k) == Scan!Reconcile(Scan!Item(k, scan.groups[k], None, FALSE), scan.coll)
            items == {item(k) : k \in DOMAIN scan.groups \ scan.dismissed} \ {None}
<1>3. /\ scan' = [stage |-> "verify", dismissed |-> scan.dismissed, found |-> items]
      /\ UNCHANGED <<dismissals, loaded, writes, suggestions, ambiguities>>
  BY DEF Scan!Gather, Scan!Within, Scan!setting
<1>4. scan'.stage = "verify" /\ scan'.dismissed = scan.dismissed /\ scan'.found = items
  BY <1>3
<1>5. scan' # Scan!Idle
  BY <1>1, <1>4
<1>6. PageIsRead'
  BY <1>2, <1>3, <1>4, PageStaysRead
<1>7. \A k \in DOMAIN scan.groups : item(k) # None =>
        item(k).key = k /\ item(k).recs \subseteq scan.groups[k]
  BY ReconciledIsLess
<1>8. \A x \in items : /\ x.key \in DOMAIN scan.groups \ scan.dismissed
                       /\ x.recs \subseteq scan.groups[x.key] /\ x = item(x.key)
  BY <1>7
<1>. HIDE DEF item, items
<1>9. \A x, y \in items : x # y => x.key # y.key /\ Apart(x.recs, y.recs)
  BY <1>2, <1>8 DEF GroupsApart, Apart
<1>10. \A a \in ambiguities, x \in items : Apart(a.recs, x.recs)
  BY <1>2, <1>8 DEF GroupsApart, Apart
<1>11. \A a \in ambiguities : a.recs = Scan!Matching(a.imdb)
  BY DEF ScanInv
<1>. QED  BY <1>3, <1>4, <1>5, <1>6, <1>8, <1>9, <1>10, <1>11 DEF ScanInv, ItemsApart

\* The items that are shown are among those found.
LEMMA PublishKeeps ==
  ASSUME ScanInv, Scan!Scanning("verify"), NEW S, Scan!Publish(S)
  PROVE  ScanInv'
<1>1. scan.stage = "verify" /\ Scan!Idle.stage = "idle"
  BY DEF Scan!Scanning, Scan!Idle
<1>2. /\ scan # Scan!Idle /\ PageIsRead /\ ItemsApart(scan.found)
      /\ \A x \in scan.found : x.key \notin dismissals
  BY <1>1 DEF ScanInv, PageIsRead
<1>3. /\ suggestions' \subseteq scan.found /\ scan' = Scan!Idle
      /\ UNCHANGED <<dismissals, loaded, writes, ambiguities, confirmed>>
  BY DEF Scan!Publish, Scan!setting
<1>4. PageIsRead'
  BY <1>2, <1>3 DEF PageIsRead
<1>5. ItemsApart(suggestions)' /\ Scan!DismissedIsNotSuggested'
  BY <1>2, <1>3 DEF ItemsApart, Scan!DismissedIsNotSuggested
<1>6. Scan!Idle.stage # "search" /\ Scan!Idle.stage # "verify"
  BY <1>1
<1>. QED  BY <1>3, <1>4, <1>5 DEF ScanInv

\* A page reads the dismissals before it scans.
LEMMA StartKeeps ==
  ASSUME ScanInv, NEW read \in {dismissals, stored}, Scan!StartScan(read)
  PROVE  ScanInv'
<1>1. Scan!Idle.stage = "idle"
  BY DEF Scan!Idle
<1>2. /\ scan = Scan!Idle /\ writes = <<>>
      /\ read \in (IF loaded THEN {dismissals} ELSE {stored})
      /\ dismissals' = read /\ loaded' = (loaded \/ read = stored)
      /\ scan' = [stage |-> "search", dismissed |-> read, coll |-> coll, groups |-> Scan!LocalGroups,
              todo |-> {i \in Scan!Imdbs : Scan!Matching(i) # {}}, asked |-> {}, cancel |-> FALSE]
      /\ ambiguities' = {} /\ writes' = writes /\ suggestions' = suggestions
  BY DEF Scan!StartScan, Scan!Quiet
<1>3. /\ scan'.stage = "search" /\ scan'.dismissed = read /\ scan'.groups = Scan!LocalGroups
      /\ scan'.todo \subseteq Scan!Imdbs /\ scan'.asked = {}
  BY <1>2
<1>4. scan' # Scan!Idle
  BY <1>1, <1>3
<1>5. loaded' = TRUE
  BY <1>2
<1>6. PageIsRead'
  BY <1>2, <1>3, <1>5 DEF PageIsRead
<1>7. GroupsApart'
  BY <1>2, <1>3, LocalGroupsApart DEF GroupsApart, Apart
<1>. QED  BY <1>2, <1>3, <1>4, <1>6, <1>7 DEF ScanInv

\* The match the user confirms joins the suggestion of its source, or is one.
LEMMA ResolveKeeps ==
  ASSUME ScanInv, NEW a \in ambiguities, NEW seed \in a.choices, Scan!Resolve(a, seed)
  PROVE  ScanInv'
<1>. DEFINE key == Scan!Key(seed.kind, seed.source)
            x == Scan!Reconcile(Scan!Item(key, a.recs, None, FALSE), coll)
            prior == {s \in suggestions : s.key = x.key}
            joined == {Scan!Item(s.key, s.recs \cup x.recs, s.target, s.binding) : s \in prior}
<1>1. /\ scan = Scan!Idle /\ writes = <<>>
      /\ ambiguities' = {b \in ambiguities : b.imdb # a.imdb}
      /\ suggestions' = IF x = None THEN suggestions
                        ELSE IF prior = {} THEN suggestions \cup {x}
                        ELSE (suggestions \ prior) \cup joined
      /\ confirmed' = IF x = None THEN confirmed ELSE confirmed \cup {[key |-> x.key, recs |-> x.recs]}
      /\ UNCHANGED <<dismissals, loaded, writes, scan>>
  BY DEF Scan!Resolve, Scan!Quiet, Scan!setting
<1>2. x # None => x.key = key /\ x.recs \subseteq a.recs
  BY ReconciledIsLess
<1>3. \A s \in joined : \E p \in prior : s.key = p.key /\ s.recs = p.recs \cup x.recs
  <2>. TAKE s \in joined
  <2>1. PICK p \in prior : s = Scan!Item(p.key, p.recs \cup x.recs, p.target, p.binding)
    OBVIOUS
  <2>2. s.key = p.key /\ s.recs = p.recs \cup x.recs
    BY <2>1 DEF Scan!Item
  <2>. QED  BY <2>2
<1>4. prior \subseteq suggestions /\ (\A p \in prior : p.key = x.key) /\ (\A s \in suggestions \ prior : s.key # x.key)
  OBVIOUS
<1>. HIDE DEF key, x, prior, joined
<1>5. /\ PageIsRead /\ ItemsApart(suggestions) /\ Scan!DismissedIsNotSuggested
      /\ \A b \in ambiguities : b.recs = Scan!Matching(b.imdb)
  BY <1>1 DEF ScanInv
<1>6. loaded
  BY <1>5 DEF PageIsRead
<1>7. PageIsRead'
  BY <1>1, <1>5, <1>6 DEF PageIsRead
<1>8. \A b \in ambiguities' : b \in ambiguities /\ Apart(b.recs, a.recs)
  <2>. TAKE b \in ambiguities'
  <2>1. b \in ambiguities /\ b.imdb # a.imdb
    BY <1>1
  <2>2. Apart(Scan!Matching(b.imdb), Scan!Matching(a.imdb))
    BY <2>1, MatchingApart
  <2>. QED  BY <1>5, <2>1, <2>2
<1>9. \A s \in suggestions : Apart(a.recs, s.recs)
  BY <1>5 DEF ItemsApart
<1>10. CASE x = None
  <2>1. suggestions' = suggestions /\ confirmed' = confirmed
    BY <1>1, <1>10
  <2>2. ItemsApart(suggestions)'
    BY <1>5, <1>8, <2>1 DEF ItemsApart
  <2>3. Scan!DismissedIsNotSuggested'
    BY <1>1, <1>5, <2>1 DEF Scan!DismissedIsNotSuggested
  <2>. QED  BY <1>1, <1>5, <1>7, <1>8, <2>2, <2>3 DEF ScanInv
<1>11. CASE x # None
  <2>1. confirmed' = confirmed \cup {[key |-> x.key, recs |-> x.recs]}
    BY <1>1, <1>11
  <2>2. \E c \in confirmed' : c.key = x.key
    <3>. DEFINE c == [key |-> x.key, recs |-> x.recs]
    <3>1. c \in confirmed' /\ c.key = x.key
      BY <2>1
    <3>. QED  BY <3>1
  <2>3. ASSUME NEW s \in suggestions'
        PROVE  \/ s \in suggestions /\ s.key # x.key
               \/ s.key = x.key /\ s = x /\ prior = {}
               \/ s.key = x.key /\ s \in joined /\ \E p \in prior : s.recs = p.recs \cup x.recs
    <3>1. CASE prior = {}
      BY <1>1, <1>4, <1>11, <3>1
    <3>2. CASE prior # {}
      <4>1. s \in suggestions \ prior \/ s \in joined
        BY <1>1, <1>11, <3>2
      <4>2. ASSUME s \in joined
            PROVE  s.key = x.key /\ \E p \in prior : s.recs = p.recs \cup x.recs
        BY <1>3, <1>4, <4>2
      <4>. QED  BY <1>4, <4>1, <4>2
    <3>. QED  BY <3>1, <3>2
  <2>4. \A p, q \in prior : p = q
    BY <1>4, <1>5 DEF ItemsApart
  <2>5. \A s, t \in joined : s = t
    <3>. SUFFICES ASSUME NEW s \in joined, NEW t \in joined PROVE s = t
      OBVIOUS
    <3>. QED  BY <2>4 DEF joined
  <2>6. ASSUME NEW s \in suggestions', s.key = x.key
        PROVE  /\ \A t \in suggestions : t.key # x.key => Apart(s.recs, t.recs)
               /\ \A b \in ambiguities' : Apart(b.recs, s.recs)
    <3>1. CASE s = x /\ prior = {}
      BY <1>2, <1>8, <1>9, <1>11, <3>1 DEF Apart
    <3>2. CASE \E p \in prior : s.recs = p.recs \cup x.recs
      <4>1. PICK p \in prior : s.recs = p.recs \cup x.recs
        BY <3>2
      <4>2. p \in suggestions /\ p.key = x.key
        BY <1>4
      <4>3. \A t \in suggestions : t.key # x.key => Apart(p.recs, t.recs)
        BY <4>2, <1>5 DEF ItemsApart
      <4>4. \A b \in ambiguities' : Apart(b.recs, p.recs)
        BY <4>2, <1>5, <1>8 DEF ItemsApart
      <4>. QED  BY <1>2, <1>8, <1>9, <1>11, <4>1, <4>3, <4>4 DEF Apart
    <3>. QED  BY <2>3, <2>6, <3>1, <3>2
  <2>7. ASSUME NEW s \in suggestions', NEW t \in suggestions', s # t
        PROVE  s.key # t.key /\ Apart(s.recs, t.recs)
    <3>1. CASE s.key = x.key /\ t.key = x.key
      <4>1. /\ (s = x /\ prior = {}) \/ (s \in joined /\ prior # {})
            /\ (t = x /\ prior = {}) \/ (t \in joined /\ prior # {})
        BY <2>3, <3>1
      <4>. QED  BY <2>5, <2>7, <4>1
    <3>2. CASE s.key = x.key /\ t.key # x.key
      BY <2>3, <2>6, <3>2
    <3>3. CASE s.key # x.key /\ t.key = x.key
      BY <2>3, <2>6, <3>3 DEF Apart
    <3>4. CASE s.key # x.key /\ t.key # x.key
      BY <1>5, <2>3, <2>7, <3>4 DEF ItemsApart
    <3>. QED  BY <3>1, <3>2, <3>3, <3>4
  <2>8. ASSUME NEW b \in ambiguities', NEW s \in suggestions'
        PROVE  Apart(b.recs, s.recs)
    BY <1>5, <1>8, <2>3, <2>6 DEF ItemsApart
  <2>9. ItemsApart(suggestions)'
    BY <2>7, <2>8 DEF ItemsApart
  <2>10. Scan!DismissedIsNotSuggested'
    BY <1>1, <1>5, <2>1, <2>2, <2>3 DEF Scan!DismissedIsNotSuggested
  <2>. QED  BY <1>1, <1>5, <1>7, <1>8, <2>9, <2>10 DEF ScanInv
<1>. QED  BY <1>10, <1>11

\* What is applied is no longer shown, and what remains is as it was.
LEMMA ApplyKeeps ==
  ASSUME ScanInv, NEW s \in suggestions, Scan!Apply(s)
  PROVE  ScanInv'
<1>1. /\ scan = Scan!Idle /\ writes = <<>>
      /\ suggestions' = {x \in suggestions : x.key # s.key}
      /\ confirmed' = {x \in confirmed : x.key # s.key}
      /\ UNCHANGED <<dismissals, loaded, writes, scan, ambiguities>>
  BY DEF Scan!Apply, Scan!Quiet, Scan!setting
<1>2. PageIsRead'
  BY <1>1 DEF ScanInv, PageIsRead
<1>3. ItemsApart(suggestions)'
  BY <1>1 DEF ScanInv, ItemsApart
<1>4. Scan!DismissedIsNotSuggested'
  BY <1>1 DEF ScanInv, Scan!DismissedIsNotSuggested
<1>. QED  BY <1>1, <1>2, <1>3, <1>4 DEF ScanInv

\* A queue of one.
LEMMA OneWrite ==
  ASSUME NEW w
  PROVE  Head(<<w>>) = w /\ Tail(<<w>>) = <<>> /\ DOMAIN <<w>> = {1} /\ <<w>>[1] = w
OBVIOUS

\* A decision that is being written takes from the setting, or adds to it
\* what it takes from the page.
LEMMA WriteKeeps ==
  ASSUME ScanInv, NEW keys, NEW gone, NEW again, Scan!Write(keys, gone, again), loaded,
         keys \subseteq dismissals \cup {s.key : s \in gone}
  PROVE  ScanInv'
<1>. DEFINE w == Scan!Written(keys, gone, again, TRUE)
<1>1. /\ scan = Scan!Idle /\ writes = <<>> /\ writes' = Append(<<>>, w)
      /\ UNCHANGED <<dismissals, loaded, scan, suggestions, ambiguities, confirmed>>
  BY DEF Scan!Write, Scan!Quiet
<1>2. w.keys = keys /\ w.gone = gone
  BY DEF Scan!Written
<1>. HIDE DEF w
<1>3. Append(<<>>, w) = <<w>> /\ DOMAIN <<w>> = {1} /\ <<w>>[1] = w
  OBVIOUS
<1>4. PageIsRead'
  BY <1>1, <1>2, <1>3 DEF PageIsRead, ScanInv
<1>. QED  BY <1>1, <1>4 DEF ScanInv, ItemsApart, Scan!DismissedIsNotSuggested

\* To dismiss a group or to restore it is to write the setting.
LEMMA DecisionKeeps ==
  ASSUME ScanInv,
         \/ \E s \in suggestions : Scan!Dismiss(s)
         \/ \E k \in dismissals : Scan!Restore(k)
         \/ Scan!RestoreAll
  PROVE  ScanInv'
<1>1. CASE \E s \in suggestions : Scan!Dismiss(s)
  <2>1. PICK s \in suggestions : Scan!Dismiss(s)
    BY <1>1
  <2>2. loaded
    BY <2>1 DEF ScanInv, PageIsRead
  <2>. QED  BY <2>1, <2>2, WriteKeeps DEF Scan!Dismiss
<1>2. CASE (\E k \in dismissals : Scan!Restore(k)) \/ Scan!RestoreAll
  <2>1. loaded
    BY <1>2 DEF ScanInv, PageIsRead, Scan!RestoreAll
  <2>. QED  BY <1>2, <2>1, WriteKeeps DEF Scan!Restore, Scan!RestoreAll
<1>. QED  BY <1>1, <1>2

\* The answer to a write brings the page's copy up to date.
LEMMA WriteDoneKeeps ==
  ASSUME ScanInv, Scan!WriteDone
  PROVE  ScanInv'
<1>. DEFINE w == writes[1]
            keys == {s.key : s \in w.gone}
<1>1. writes = <<w>> /\ writes # <<>>
  BY DEF Scan!WriteDone, Scan!Answered, ScanInv, PageIsRead
<1>2. Head(writes) = w /\ Tail(writes) = <<>> /\ DOMAIN writes = {1}
  BY <1>1, OneWrite
<1>3. scan = Scan!Idle
  BY <1>1 DEF ScanInv, PageIsRead
<1>4. /\ writes' = <<>> /\ UNCHANGED <<loaded, ambiguities, scan>>
      /\ w.page => loaded
      /\ IF w.page
         THEN /\ dismissals' = w.keys
              /\ suggestions' = {s \in suggestions : s.key \notin keys}
              /\ confirmed' = {x \in confirmed : x.key \notin keys}
         ELSE UNCHANGED <<dismissals, suggestions, confirmed>>
  BY <1>2 DEF Scan!WriteDone, Scan!Answered
<1>5. w.page => w.keys \subseteq dismissals \cup keys
  BY <1>2 DEF ScanInv, PageIsRead
<1>. HIDE DEF w, keys
<1>6. PageIsRead'
  BY <1>3, <1>4 DEF ScanInv, PageIsRead
<1>7. ItemsApart(suggestions)'
  BY <1>3, <1>4 DEF ScanInv, ItemsApart
<1>8. Scan!DismissedIsNotSuggested'
  BY <1>3, <1>4, <1>5 DEF ScanInv, Scan!DismissedIsNotSuggested
<1>. QED  BY <1>3, <1>4, <1>6, <1>7, <1>8 DEF ScanInv

\* A write that fails.
LEMMA WriteFailedKeeps ==
  ASSUME ScanInv, Scan!WriteFailed
  PROVE  ScanInv'
<1>1. writes = <<writes[1]>> /\ writes # <<>>
  BY DEF Scan!WriteFailed, Scan!Answered, ScanInv, PageIsRead
<1>2. Tail(writes) = <<>>
  BY <1>1, OneWrite
<1>3. scan = Scan!Idle
  BY <1>1 DEF ScanInv, PageIsRead
<1>4. writes' = <<>> /\ UNCHANGED <<dismissals, loaded, suggestions, ambiguities, scan, confirmed>>
  BY <1>2 DEF Scan!WriteFailed
<1>5. PageIsRead'
  BY <1>3, <1>4 DEF ScanInv, PageIsRead
<1>. QED  BY <1>3, <1>4, <1>5 DEF ScanInv, ItemsApart, Scan!DismissedIsNotSuggested

\* The page reads the setting, or is opened anew and has nothing.
LEMMA ReadKeeps ==
  ASSUME ScanInv, NEW fails \in BOOLEAN, Scan!ReadDismissals(fails)
  PROVE  ScanInv'
<1>1. /\ ~loaded /\ loaded' = TRUE /\ \A i \in DOMAIN writes : writes[i].page
      /\ UNCHANGED <<suggestions, ambiguities, scan, writes, confirmed>>
  BY DEF Scan!ReadDismissals
<1>2. suggestions = {} /\ ambiguities = {} /\ scan = Scan!Idle
  BY <1>1 DEF ScanInv, PageIsRead
<1>3. DOMAIN writes = {}
  BY <1>1 DEF ScanInv, PageIsRead
<1>4. PageIsRead'
  BY <1>1, <1>2, <1>3 DEF ScanInv, PageIsRead
<1>. QED  BY <1>1, <1>2, <1>4 DEF ScanInv, ItemsApart, Scan!DismissedIsNotSuggested

\* The centre is closed and opened again.
LEMMA ReopenKeeps ==
  ASSUME ScanInv, Scan!Reopen
  PROVE  ScanInv'
<1>1. /\ dismissals' = {} /\ loaded' = FALSE /\ suggestions' = {} /\ ambiguities' = {} /\ scan' = Scan!Idle
      /\ writes' = [i \in DOMAIN writes |-> Scan!Written(writes[i].keys, writes[i].gone, writes[i].back, FALSE)]
  BY DEF Scan!Reopen
<1>2. \A i \in DOMAIN writes' : writes'[i].page = FALSE
  BY <1>1 DEF Scan!Written
<1>3. writes' = <<>> \/ writes' = <<writes'[1]>>
  <2>1. CASE writes = <<>>
    BY <1>1, <2>1
  <2>2. CASE writes = <<writes[1]>>
    <3>1. DOMAIN writes = {1}
      BY <2>2, OneWrite
    <3>2. writes' = [i \in 1..1 |-> writes'[1]]
      BY <1>1, <3>1
    <3>3. \A v : <<v>> = [i \in 1..1 |-> v]
      OBVIOUS
    <3>. QED  BY <3>2, <3>3
  <2>. QED  BY <2>1, <2>2 DEF ScanInv, PageIsRead
<1>4. PageIsRead'
  BY <1>1, <1>2, <1>3 DEF PageIsRead
<1>. QED  BY <1>1, <1>4 DEF ScanInv, ItemsApart, Scan!DismissedIsNotSuggested

\* Every step of a search keeps the invariant.
LEMMA ScanInvInductive ==
  ASSUME ScanInv, Scan!ScanAssumption, Scan!Next
  PROVE  ScanInv'
<1>1. CASE Scan!Scan
  BY <1>1, SearchKeeps, GatherKeeps, PublishKeeps DEF Scan!Scan
<1>2. CASE \E c \in Cid, item \in Scan!ByHand : Scan!CollectByHand(c, item)
  <2>1. /\ scan = Scan!Idle
        /\ UNCHANGED <<dismissals, loaded, writes, scan, suggestions, ambiguities, confirmed>>
    BY <1>2 DEF Scan!CollectByHand, Scan!Quiet, Scan!setting
  <2>2. PageIsRead'
    BY <2>1 DEF ScanInv, PageIsRead
  <2>. QED  BY <2>1, <2>2 DEF ScanInv, ItemsApart, Scan!DismissedIsNotSuggested
<1>. QED
  BY <1>1, <1>2, StartKeeps, ResolveKeeps, ApplyKeeps, DecisionKeeps, WriteDoneKeeps, WriteFailedKeeps,
     ReadKeeps, ReopenKeeps DEF Scan!Next, Scan!OnSuggestion

\* The invariant holds at first, and says what is promised.
LEMMA ScanInit ==
  /\ Scan!Init => ScanInv
  /\ ScanInv => Scan!RecordSuggestedOnce /\ Scan!DismissedIsNotSuggested
<1>1. ASSUME Scan!Init PROVE ScanInv
  <2>1. /\ dismissals = {} /\ loaded = FALSE /\ suggestions = {} /\ ambiguities = {}
        /\ scan = Scan!Idle /\ writes = <<>>
    BY <1>1 DEF Scan!Init
  <2>2. DOMAIN writes = {} /\ Scan!Idle.stage = "idle"
    BY <2>1 DEF Scan!Idle
  <2>. QED  BY <2>1, <2>2 DEF ScanInv, PageIsRead, ItemsApart, Scan!DismissedIsNotSuggested
<1>2. ASSUME ScanInv PROVE Scan!RecordSuggestedOnce /\ Scan!DismissedIsNotSuggested
  BY <1>2 DEF ScanInv, ItemsApart, Apart, Scan!RecordSuggestedOnce, Scan!DismissedIsNotSuggested
<1>. QED  BY <1>1, <1>2

-----------------------------------------------------------------------------
(*                   The types of the movies' completion                   *)

\* Filling in what an identity lacks, and a new record, are identities.
LEMMA FilledIsIdentity ==
  ASSUME NEW x \in Movies!Identity, NEW m \in Movie
  PROVE  Movies!Filled(x, m) \in Movies!Identity
<1>1. /\ x.tmdb \in Movie \cup {None} /\ x.imdb \in Movies!ImdbId \cup {None}
      /\ x.kind \in {"movie", "tv", None} /\ x.film \in BOOLEAN /\ x.locked \in BOOLEAN /\ x.rev \in Nat
  BY DEF Movies!Identity
<1>. QED  BY <1>1 DEF Movies!Filled, Movies!Identity

\* So is a record that is made of a part that is missing.
LEMMA NewRecordIsIdentity ==
  ASSUME NEW m \in Movie
  PROVE  Movies!NewRecord(m) \in Movies!Identity
BY DEF Movies!NewRecord, Movies!Identity, Movies!ImdbId

\* A change from elsewhere.
LEMMA ChangeKeepsTypes ==
  ASSUME Movies!TypeOK, Movies!MovieAssumption, NEW r \in MovieRec, NEW x \in {None} \cup Identities,
         Movies!Change(r, x)
  PROVE  Movies!TypeOK'
<1>. DEFINE y == IF x = None \/ movies[r] = None THEN x ELSE [x EXCEPT !.rev = movies[r].rev + 1]
<1>1. movies \in [MovieRec -> Movies!Identity \cup {None}] /\ recs \subseteq Movies!Live
      /\ \A p \in filed : p[1] \in Movies!Live
  BY DEF Movies!TypeOK
<1>2. y \in Movies!Identity \cup {None} /\ (y = None => x = None)
  <2>1. Identities \subseteq Movies!Identity /\ None \notin Movies!Identity
    BY DEF Movies!MovieAssumption
  <2>2. CASE x = None \/ movies[r] = None
    BY <2>1, <2>2
  <2>3. CASE x # None /\ movies[r] # None
    <3>1. x \in Movies!Identity /\ movies[r] \in Movies!Identity
      BY <1>1, <2>1, <2>3
    <3>2. y \in Movies!Identity
      BY <2>3, <3>1 DEF Movies!Identity
    <3>. QED  BY <2>1, <3>2
  <2>. QED  BY <2>2, <2>3
<1>3. movies' = [movies EXCEPT ![r] = y]
  BY DEF Movies!Change
<1>4. /\ recs' = IF x = None THEN recs \ {r} ELSE recs
      /\ filed' = {p \in filed : p[1] # r}
      /\ UNCHANGED <<rev, source, binding, looking, candidates, picked, filing>>
  BY DEF Movies!Change, Movies!page
<1>. HIDE DEF y
<1>5. /\ movies' \in [MovieRec -> Movies!Identity \cup {None}] /\ Movies!Live \ {r} \subseteq Movies!Live'
      /\ (x # None => Movies!Live \subseteq Movies!Live')
  BY <1>1, <1>2, <1>3 DEF Movies!Live
<1>6. recs' \subseteq Movies!Live' /\ \A p \in filed' : p[1] \in Movies!Live'
  BY <1>1, <1>4, <1>5
<1>. QED  BY <1>4, <1>5, <1>6 DEF Movies!TypeOK, Movies!OfStatus, Movies!Selectable

\* A look-up that begins, goes on, or ends; the dialog.
LEMMA LookUpKeepsTypes ==
  ASSUME Movies!TypeOK, Movies!MovieAssumption,
         \/ Movies!Inspect \/ Movies!Fail \/ Movies!CloseDialog
         \/ \E answered \in SUBSET Movie : Movies!AnswerMembers(answered)
         \/ \E m \in Movie : Movies!Toggle(m)
  PROVE  Movies!TypeOK'
<1>1. UNCHANGED <<movies, recs, filed, filing>>
  BY DEF Movies!Inspect, Movies!Fail, Movies!CloseDialog, Movies!AnswerMembers, Movies!Toggle
<1>2. /\ movies \in [MovieRec -> Movies!Identity \cup {None}] /\ recs \subseteq Movies!Live /\ rev \in Nat
      /\ looking \in Movies!Inspection \cup {None}
      /\ binding = (looking # None \/ filing # None)
      /\ looking = None \/ filing = None
      /\ None \notin Movies!Inspection
  BY DEF Movies!TypeOK, Movies!MovieAssumption
<1>3. /\ rev' \in Nat /\ looking' \in Movies!Inspection \cup {None}
      /\ binding' = (looking' # None \/ filing # None)
      /\ looking' = None \/ filing = None
  <2>1. CASE Movies!Inspect
    <3>1. /\ binding' = TRUE /\ filing = None /\ rev' = rev
          /\ looking' = [bound |-> source # None, lib |-> movies, recs |-> recs]
      BY <1>2, <2>1 DEF Movies!Inspect
    <3>2. (source # None) \in BOOLEAN /\ recs \in SUBSET MovieRec
      BY <1>2 DEF Movies!Live
    <3>3. looking' \in Movies!Inspection
      BY <1>2, <3>1, <3>2 DEF Movies!Inspection
    <3>. QED  BY <1>2, <3>1, <3>3
  <2>2. CASE Movies!Fail
    BY <1>2, <2>2 DEF Movies!Fail
  <2>3. CASE \E answered \in SUBSET Movie : Movies!AnswerMembers(answered)
    <3>1. looking \in Movies!Inspection /\ looking # None /\ filing = None /\ binding
      BY <1>2, <2>3 DEF Movies!AnswerMembers
    <3>2. [looking EXCEPT !.bound = TRUE] \in Movies!Inspection
      BY <3>1 DEF Movies!Inspection
    <3>3. \/ looking' = [looking EXCEPT !.bound = TRUE] /\ binding' = binding /\ rev' = rev + 1
          \/ looking' = None /\ binding' = FALSE /\ rev' = rev
      BY <2>3 DEF Movies!AnswerMembers
    <3>4. binding = TRUE
      BY <1>2, <3>1
    <3>5. looking' # None => binding' = TRUE /\ looking' \in Movies!Inspection
      BY <3>2, <3>3, <3>4
    <3>6. looking' = None => binding' = FALSE
      BY <1>2, <3>2, <3>3
    <3>7. rev' \in Nat
      BY <1>2, <3>3
    <3>. QED  BY <3>1, <3>5, <3>6, <3>7
  <2>4. CASE Movies!CloseDialog \/ \E m \in Movie : Movies!Toggle(m)
    BY <1>2, <2>4 DEF Movies!CloseDialog, Movies!Toggle
  <2>. QED  BY <2>1, <2>2, <2>3, <2>4
<1>4. /\ DOMAIN candidates' \subseteq Movie /\ picked' \subseteq Movies!Selectable'
      /\ \A m \in Movies!OfStatus({"member", "library"})' : candidates'[m].rec \in MovieRec
  <2>1. /\ DOMAIN candidates \subseteq Movie /\ picked \subseteq Movies!Selectable
        /\ \A m \in Movies!OfStatus({"member", "library"}) : candidates[m].rec \in MovieRec
    BY DEF Movies!TypeOK
  <2>2. CASE candidates' = candidates /\ picked' = picked
    BY <2>1, <2>2 DEF Movies!Selectable, Movies!OfStatus
  <2>3. CASE Movies!CloseDialog
    <3>1. candidates' = Movies!NoCandidates /\ picked' = {}
      BY <2>3 DEF Movies!CloseDialog
    <3>2. DOMAIN Movies!NoCandidates = {}
      BY DEF Movies!NoCandidates
    <3>. QED  BY <3>1, <3>2 DEF Movies!OfStatus
  <2>4. CASE \E m \in Movie : Movies!Toggle(m)
    <3>1. PICK m \in Movie : m \in Movies!Selectable /\ picked' = Movies!SymDiff(picked, {m}) /\ candidates' = candidates
      BY <2>4 DEF Movies!Toggle
    <3>2. picked' \subseteq picked \cup {m}
      BY <3>1 DEF Movies!SymDiff
    <3>. QED  BY <2>1, <3>1, <3>2 DEF Movies!Selectable, Movies!OfStatus
  <2>. QED  BY <2>2, <2>3, <2>4 DEF Movies!Inspect, Movies!Fail, Movies!AnswerMembers
<1>5. recs' \subseteq Movies!Live' /\ \A p \in filed' : p[1] \in Movies!Live'
  BY <1>1 DEF Movies!TypeOK, Movies!Live
<1>6. filing' # None =>
        /\ filing'.rev \in Nat /\ filing'.fill \in BOOLEAN /\ filing'.new \subseteq Movie
        /\ DOMAIN filing'.match = DOMAIN filing'.revs /\ DOMAIN filing'.match \subseteq MovieRec
        /\ \A r \in DOMAIN filing'.match : filing'.match[r] \in Movie /\ filing'.revs[r] \in Nat
  BY <1>1 DEF Movies!TypeOK
<1>. QED  BY <1>1, <1>2, <1>3, <1>4, <1>5, <1>6 DEF Movies!TypeOK

\* The parts that TMDB sent are classified.
LEMMA PartsKeepTypes ==
  ASSUME Movies!TypeOK, NEW answered \in SUBSET Movie, Movies!AnswerParts(answered)
  PROVE  Movies!TypeOK'
<1>. DEFINE now(m) == IF m \in answered THEN Movies!Classify(m, looking.lib, looking.recs)
                      ELSE [status |-> "unresolved", rec |-> None]
<1>1. /\ looking # None /\ looking' = None /\ binding' = FALSE
      /\ UNCHANGED <<movies, recs, rev, filed, filing>>
      /\ candidates' = [m \in Movies!Parts |-> now(m)]
      /\ picked' = {m \in Out \cap Movies!Parts : candidates'[m].status \in {"library", "missing"}}
  BY DEF Movies!AnswerParts
<1>2. ASSUME NEW m, now(m).status \in {"member", "library"}
      PROVE  now(m).rec \in MovieRec
  <2>1. now(m) = Movies!Classify(m, looking.lib, looking.recs)
    BY <1>2
  <2>. DEFINE ids == {r \in MovieRec : /\ looking.lib[r] # None
                          /\ \/ looking.lib[r].kind = "movie" /\ looking.lib[r].tmdb = m
                             \/ ImdbIds[m] # None /\ looking.lib[r].imdb = ImdbIds[m]}
  <2>2. now(m) = IF Movies!Cardinality(ids) > 1 \/ \E r \in ids : looking.lib[r].kind = "tv"
                   THEN [status |-> "conflict", rec |-> None]
                 ELSE IF ids = {} THEN [status |-> "missing", rec |-> None]
                 ELSE [status |-> IF ids \subseteq looking.recs THEN "member" ELSE "library", rec |-> CHOOSE r \in ids : TRUE]
    BY <2>1 DEF Movies!Classify
  <2>3. ids \subseteq MovieRec
    OBVIOUS
  <2>. HIDE DEF now, ids
  <2>4. ids # {} /\ now(m).rec = CHOOSE r \in ids : TRUE
    BY <1>2, <2>2
  <2>. QED  BY <2>3, <2>4
<1>. HIDE DEF now
<1>3. filing = None
  BY <1>1 DEF Movies!TypeOK
<1>4. DOMAIN candidates' = Movies!Parts /\ Movies!Parts \subseteq Movie
  BY <1>1 DEF Movies!Parts
<1>5. picked' \subseteq Movies!Selectable'
  BY <1>1, <1>4 DEF Movies!Selectable, Movies!OfStatus
<1>6. \A m \in Movies!OfStatus({"member", "library"})' : candidates'[m].rec \in MovieRec
  BY <1>1, <1>2, <1>4 DEF Movies!OfStatus
<1>. QED  BY <1>1, <1>3, <1>4, <1>5, <1>6 DEF Movies!TypeOK, Movies!Live

\* What a completion is called with.
LEMMA CreateKeepsTypes ==
  ASSUME Movies!TypeOK, Movies!MovieAssumption, NEW fill \in BOOLEAN, Movies!Create(fill)
  PROVE  Movies!TypeOK'
<1>. DEFINE matched == Movies!OfStatus({"member"}) \cup (picked \cap Movies!OfStatus({"library"}))
            found == {candidates[m].rec : m \in matched} \cap Movies!Live
            new == picked \cap Movies!OfStatus({"missing"})
            revs == [r \in found |-> movies[r].rev]
<1>1. PICK last \in [found -> matched] :
        filing' = [rev |-> rev, fill |-> fill, new |-> new, revs |-> revs, match |-> last]
  BY DEF Movies!Create
<1>2. /\ ~binding /\ binding' = TRUE
      /\ UNCHANGED <<movies, recs, rev, source, looking, candidates, picked, filed>>
  BY DEF Movies!Create
<1>3. /\ matched \subseteq Movie /\ found \subseteq MovieRec /\ new \subseteq Movie
      /\ \A r \in found : movies[r].rev \in Nat
  BY DEF Movies!TypeOK, Movies!OfStatus, Movies!Live, Movies!Identity
<1>. HIDE DEF matched, found, new
<1>4. /\ filing'.rev = rev /\ filing'.fill = fill /\ filing'.new = new /\ filing'.revs = revs /\ filing'.match = last
  BY <1>1
<1>5. /\ DOMAIN revs = found /\ DOMAIN last = found /\ \A r \in found : last[r] \in Movie /\ revs[r] \in Nat
  BY <1>3
<1>6. rev \in Nat /\ looking = None
  BY <1>2 DEF Movies!TypeOK
<1>7. filing' # None
  <2>1. revs \in Movies!Partial(MovieRec, Nat) /\ last \in Movies!Partial(MovieRec, Movie)
    <3>1. revs \in [found -> Nat] /\ last \in [found -> Movie] /\ found \in SUBSET MovieRec
      BY <1>3, <1>5
    <3>. QED  BY <3>1 DEF Movies!Partial
  <2>. HIDE DEF revs
  <2>2. filing' \in Movies!Completion
    BY <1>1, <1>3, <1>6, <2>1 DEF Movies!Completion
  <2>. QED  BY <2>2 DEF Movies!MovieAssumption
<1>8. /\ filing'.rev \in Nat /\ filing'.fill \in BOOLEAN /\ filing'.new \subseteq Movie
      /\ DOMAIN filing'.match = DOMAIN filing'.revs /\ DOMAIN filing'.match \subseteq MovieRec
      /\ \A r \in DOMAIN filing'.match : filing'.match[r] \in Movie /\ filing'.revs[r] \in Nat
  BY <1>3, <1>4, <1>5, <1>6
<1>. QED  BY <1>2, <1>6, <1>7, <1>8 DEF Movies!TypeOK, Movies!Live, Movies!OfStatus, Movies!Selectable

\* What a completion writes.
LEMMA CompleteKeepsTypes ==
  ASSUME Movies!TypeOK, Movies!MovieAssumption, filing # None, ~Movies!Stale, Movies!Complete
  PROVE  /\ movies' \in [MovieRec -> Movies!Identity \cup {None}] /\ rev' \in Nat
         /\ recs' \subseteq Movies!Live' /\ \A p \in filed' : p[1] \in Movies!Live'
<1>. DEFINE known == {m \in filing.new : Movies!Matching(m) # {}}
            reused == [r \in UNION {Movies!Matching(m) : m \in known} |-> CHOOSE m \in known : r \in Movies!Matching(m)]
            filled == [r \in DOMAIN filing.match \cup DOMAIN reused |->
                         IF r \in DOMAIN filing.match THEN filing.match[r] ELSE reused[r]]
<1>1. PICK at \in Movies!Injection(filing.new \ known, MovieRec \ Movies!Live) :
        LET added == [r \in {at[m] : m \in DOMAIN at} |-> CHOOSE m \in DOMAIN at : at[m] = r]
            joined == recs \cup DOMAIN filled \cup DOMAIN added
        IN  /\ movies' = [r \in MovieRec |-> IF r \in DOMAIN added THEN Movies!NewRecord(added[r])
                             ELSE IF r \in DOMAIN filled THEN Movies!Filled(movies[r], filled[r]) ELSE movies[r]]
            /\ recs' = joined /\ rev' = IF joined = recs THEN rev ELSE rev + 1
            /\ filed' = filed \cup {<<r, added[r]>> : r \in DOMAIN added}
  BY DEF Movies!Complete
<1>. DEFINE added == [r \in {at[m] : m \in DOMAIN at} |-> CHOOSE m \in DOMAIN at : at[m] = r]
<1>2. /\ movies \in [MovieRec -> Movies!Identity \cup {None}] /\ recs \subseteq Movies!Live /\ rev \in Nat
      /\ \A p \in filed : p[1] \in Movies!Live /\ filing.new \subseteq Movie
      /\ DOMAIN filing.match = DOMAIN filing.revs /\ DOMAIN filing.match \subseteq MovieRec
      /\ \A r \in DOMAIN filing.match : filing.match[r] \in Movie
      /\ None \notin Movies!Identity /\ filing.new \subseteq Movie
  BY DEF Movies!TypeOK, Movies!MovieAssumption
<1>3. /\ DOMAIN at = filing.new \ known
      /\ \A m \in DOMAIN at : at[m] \in MovieRec \ Movies!Live
  BY DEF Movies!Injection
<1>4. \A r \in DOMAIN added : added[r] \in Movie /\ r \in MovieRec
  BY <1>2, <1>3
<1>5. \A r \in DOMAIN filled : filled[r] \in Movie /\ r \in Movies!Live
  <2>. TAKE r \in DOMAIN filled
  <2>1. CASE r \in DOMAIN filing.match
    BY <1>2, <2>1 DEF Movies!Stale, Movies!Live
  <2>2. CASE r \notin DOMAIN filing.match
    <3>1. r \in DOMAIN reused /\ filled[r] = reused[r]
      BY <2>2
    <3>2. PICK m \in known : r \in Movies!Matching(m)
      BY <3>1
    <3>3. reused[r] \in known
      BY <3>1, <3>2
    <3>4. r \in Movies!Live
      BY <3>2 DEF Movies!Matching
    <3>. QED  BY <1>2, <3>1, <3>3, <3>4
  <2>. QED  BY <2>1, <2>2
<1>. HIDE DEF known, reused, filled, added
<1>6. /\ movies' = [r \in MovieRec |-> IF r \in DOMAIN added THEN Movies!NewRecord(added[r])
                             ELSE IF r \in DOMAIN filled THEN Movies!Filled(movies[r], filled[r]) ELSE movies[r]]
      /\ recs' = recs \cup DOMAIN filled \cup DOMAIN added
      /\ rev' = rev \/ rev' = rev + 1
      /\ filed' = filed \cup {<<r, added[r]>> : r \in DOMAIN added}
  BY <1>1 DEF added
<1>7. ASSUME NEW r \in MovieRec
      PROVE  /\ movies'[r] \in Movies!Identity \cup {None}
             /\ r \in Movies!Live \/ r \in DOMAIN added => movies'[r] # None
  <2>1. CASE r \in DOMAIN added
    BY <1>2, <1>4, <1>6, <2>1, NewRecordIsIdentity
  <2>2. CASE r \notin DOMAIN added /\ r \in DOMAIN filled
    <3>1. movies[r] \in Movies!Identity /\ filled[r] \in Movie
      BY <1>2, <1>5, <2>2 DEF Movies!Live
    <3>2. movies'[r] = Movies!Filled(movies[r], filled[r])
      BY <1>6, <2>2
    <3>. QED  BY <1>2, <3>1, <3>2, FilledIsIdentity
  <2>3. CASE r \notin DOMAIN added /\ r \notin DOMAIN filled
    BY <1>2, <1>6, <2>3 DEF Movies!Live
  <2>. QED  BY <2>1, <2>2, <2>3
<1>8. movies' \in [MovieRec -> Movies!Identity \cup {None}]
  BY <1>6, <1>7
<1>9. Movies!Live \cup DOMAIN added \subseteq Movies!Live'
  BY <1>4, <1>7 DEF Movies!Live
<1>10. recs' \subseteq Movies!Live'
  BY <1>2, <1>5, <1>6, <1>9
<1>11. \A p \in filed' : p[1] \in Movies!Live'
  BY <1>2, <1>6, <1>9
<1>. QED  BY <1>2, <1>6, <1>8, <1>10, <1>11

\* Every step of the completion of movies keeps its types.
LEMMA MoviesKeepTypes ==
  ASSUME Movies!TypeOK, Movies!MovieAssumption, Movies!Next
  PROVE  Movies!TypeOK'
<1>1. CASE Movies!RunComplete
  <2>1. filing # None /\ filing' = None /\ binding' = FALSE /\ looking' = looking
    BY <1>1 DEF Movies!RunComplete
  <2>2. looking = None
    BY <2>1 DEF Movies!TypeOK
  <2>3. CASE UNCHANGED <<movies, recs, rev, filed, candidates, picked>>
    BY <2>1, <2>2, <2>3 DEF Movies!TypeOK, Movies!Live, Movies!OfStatus, Movies!Selectable
  <2>4. CASE ~Movies!Stale /\ Movies!Complete /\ candidates' = Movies!NoCandidates /\ picked' = {}
    <3>1. /\ movies' \in [MovieRec -> Movies!Identity \cup {None}] /\ rev' \in Nat
          /\ recs' \subseteq Movies!Live' /\ \A p \in filed' : p[1] \in Movies!Live'
      BY <2>1, <2>4, CompleteKeepsTypes
    <3>2. DOMAIN candidates' = {}
      BY <2>4 DEF Movies!NoCandidates
    <3>. QED  BY <2>1, <2>2, <2>4, <3>1, <3>2 DEF Movies!TypeOK, Movies!OfStatus
  <2>. QED  BY <1>1, <2>3, <2>4 DEF Movies!RunComplete
<1>. QED
  BY <1>1, ChangeKeepsTypes, LookUpKeepsTypes, PartsKeepTypes, CreateKeepsTypes DEF Movies!Next

\* They hold at first.
LEMMA MoviesBeginTyped == Movies!MovieAssumption /\ Movies!Init => Movies!TypeOK
<1>. SUFFICES ASSUME Movies!MovieAssumption, Movies!Init PROVE Movies!TypeOK
  OBVIOUS
<1>1. movies \in [MovieRec -> Movies!Identity \cup {None}]
  BY DEF Movies!Init, Movies!MovieAssumption
<1>2. /\ recs \subseteq Movies!Live /\ rev = 1 /\ binding = FALSE /\ looking = None
      /\ candidates = Movies!NoCandidates /\ picked = {} /\ filing = None /\ filed = {}
  BY DEF Movies!Init
<1>3. DOMAIN candidates = {}
  BY <1>2 DEF Movies!NoCandidates
<1>. QED  BY <1>1, <1>2, <1>3 DEF Movies!TypeOK, Movies!OfStatus

-----------------------------------------------------------------------------
(*                   The types of the series' completion                   *)

\* What is left of the types: the shows that collections are bound to, what is
\* under way while the page is busy, and the dialog with what it was opened for.
SourcesApart ==
  \A c, d \in Cid : c # d /\ groups[c].source # None => groups[c].source # groups[d].source
UnderWay ==
  /\ inspecting \in Hasty!Inspection \cup {None} /\ creating \in Hasty!Creation \cup {None}
  /\ completing = (inspecting # None \/ creating # None)
  /\ inspecting = None \/ creating = None
DialogIsOffer ==
  /\ offered \in Hasty!Offer \cup {None}
  /\ (detail = None) = (offered = None) /\ (detail = None => chosen = {})

\* These are the type invariants, of the hasty user and of the patient one.
LEMMA SeriesTypeOK ==
  /\ SeriesTypes /\ SourcesApart /\ UnderWay /\ DialogIsOffer => Hasty!TypeOK /\ Series!TypeOK
<1>. SUFFICES ASSUME SeriesTypes, SourcesApart, UnderWay, DialogIsOffer PROVE Hasty!TypeOK /\ Series!TypeOK
  OBVIOUS
<1>1. ARecord = Hasty!SeasonRecord /\ SeasonsIn = Hasty!Live
  BY DEF ARecord, Hasty!SeasonRecord, SeasonsIn, Hasty!Live
<1>2. Hasty!TypeOK
  BY <1>1 DEF SeriesTypes, RecordsAndGroups, Dialogs, SourcesApart, UnderWay, DialogIsOffer, Hasty!TypeOK
<1>3. /\ Hasty!SeasonRecord = Series!SeasonRecord /\ Hasty!Inspection = Series!Inspection
      /\ Hasty!Creation = Series!Creation /\ Hasty!Offer = Series!Offer /\ Hasty!Live = Series!Live
  BY DEF Hasty!SeasonRecord, Series!SeasonRecord, Hasty!Inspection, Series!Inspection,
         Hasty!Creation, Series!Creation, Hasty!Offer, Series!Offer, Hasty!Live, Series!Live
<1>4. Series!TypeOK
  BY <1>2, <1>3 DEF Hasty!TypeOK, Series!TypeOK
<1>. QED  BY <1>2, <1>4

\* A collection is bound to a show that no other is bound to.
LEMMA SourcesStayApart ==
  ASSUME SeriesTypes, SourcesApart, Hasty!SeriesAssumption, Hasty!Next
  PROVE  SourcesApart'
<1>1. WhatGroupsAre \/ \E c \in Cid, p \in TvShows : groups' = Hasty!Bind(c, p) /\ Hasty!Bindable(c, p)
  <2>1. CASE \E r \in SeriesRec : Hasty!ByHand(r)
    BY <2>1, ByHandKeeps DEF WhatGroupsAre
  <2>2. CASE \E p \in TvShows : Hasty!Inspect(p) \/ Hasty!BindChoice(p)
    <3>1. PICK p \in TvShows : Hasty!Inspect(p) \/ Hasty!BindChoice(p)
      BY <2>2
    <3>2. group \in Cid
      BY <3>1 DEF Hasty!Inspect, Hasty!BindChoice, SeriesTypes, Dialogs
    <3>3. groups' = groups \/ (groups' = Hasty!Bind(group, p) /\ Hasty!Bindable(group, p))
      BY <3>1 DEF Hasty!Inspect, Hasty!BindChoice
    <3>. QED  BY <3>2, <3>3 DEF WhatGroupsAre
  <2>3. CASE \E found \in SUBSET TvShows : Hasty!AnswerIdentify(found)
    <3>1. PICK found \in SUBSET TvShows : Hasty!AnswerIdentify(found)
      BY <2>3
    <3>2. inspecting # None /\ inspecting.c \in Cid
      BY <3>1 DEF Hasty!AnswerIdentify, SeriesTypes, Dialogs
    <3>3. groups' = groups \/ \E p \in TvShows : groups' = Hasty!Bind(inspecting.c, p) /\ Hasty!Bindable(inspecting.c, p)
      BY <3>1 DEF Hasty!AnswerIdentify
    <3>. QED  BY <3>2, <3>3 DEF WhatGroupsAre
  <2>4. CASE Hasty!RunCreate
    BY <2>4, CreationKeeps DEF WhatGroupsAre
  <2>. QED  BY <2>1, <2>2, <2>3, <2>4, OthersKeepTypes DEF Hasty!Next, WhatGroupsAre
<1>2. CASE WhatGroupsAre
  BY <1>2 DEF WhatGroupsAre, SourcesApart
<1>3. CASE \E c \in Cid, p \in TvShows : groups' = Hasty!Bind(c, p) /\ Hasty!Bindable(c, p)
  <2>1. PICK c \in Cid, p \in TvShows : groups' = Hasty!Bind(c, p) /\ Hasty!Bindable(c, p)
    BY <1>3
  <2>2. groups'[c].source = p /\ \A o \in Cid \ {c} : groups'[o] = groups[o]
    BY <2>1, BoundGroup DEF SeriesTypes
  <2>3. \A o \in Cid \ {c} : groups[o].source # p
    BY <2>1 DEF Hasty!Bindable
  <2>. QED  BY <2>2, <2>3 DEF SourcesApart
<1>. QED  BY <1>1, <1>2, <1>3

\* What is under way, after it begins, goes on or ends.
LEMMA UnderWayStays ==
  ASSUME SeriesTypes, UnderWay, Hasty!SeriesAssumption, Hasty!Next
  PROVE  UnderWay'
<1>1. /\ inspecting \in Hasty!Inspection \cup {None} /\ creating \in Hasty!Creation \cup {None}
      /\ completing = (inspecting # None \/ creating # None)
      /\ inspecting = None \/ creating = None
      /\ None \notin Hasty!Inspection /\ None \notin Hasty!Creation
  BY DEF UnderWay, Hasty!SeriesAssumption
<1>2. ASSUME inspecting' \in Hasty!Inspection, creating' = None, completing' = TRUE PROVE UnderWay'
  BY <1>1, <1>2 DEF UnderWay
<1>3. ASSUME inspecting' = None, creating' = None, completing' = FALSE PROVE UnderWay'
  BY <1>3 DEF UnderWay
<1>4. ASSUME inspecting' = None, creating' \in Hasty!Creation, completing' = TRUE PROVE UnderWay'
  BY <1>1, <1>4 DEF UnderWay
<1>5. ASSUME NEW c \in Cid PROVE Hasty!SeasonsOf(c) \in SUBSET Nat /\ groups[c].rev \in Nat
  <2>1. groups[c] \in AGroup /\ \A r \in groups[c].recs : seasons[r] \in ARecord
    BY DEF SeriesTypes, RecordsAndGroups, SeasonsIn
  <2>. QED  BY <2>1 DEF AGroup, ARecord, Hasty!SeasonsOf
<1>6. ASSUME NEW kind \in {"seasons", "search"}, NEW c \in Cid, NEW p \in TvShows \cup {None},
             NEW existing \in SUBSET Nat,
             inspecting' = [kind |-> kind, c |-> c, show |-> p, existing |-> existing]
      PROVE  inspecting' \in Hasty!Inspection
  BY <1>6 DEF Hasty!Inspection
<1>7. CASE UNCHANGED <<inspecting, creating, completing>>
  BY <1>7 DEF UnderWay
<1>8. CASE \E p \in TvShows : Hasty!Inspect(p) \/ Hasty!BindChoice(p)
  <2>1. PICK p \in TvShows : Hasty!Inspect(p) \/ Hasty!BindChoice(p)
    BY <1>8
  <2>2. /\ group \in Cid /\ ~completing /\ completing' = TRUE /\ creating' = creating
        /\ inspecting' = [kind |-> "seasons", c |-> group, show |-> p, existing |-> Hasty!SeasonsOf(group)]
    BY <2>1 DEF Hasty!Inspect, Hasty!BindChoice, Hasty!LookUp, SeriesTypes, Dialogs
  <2>3. inspecting' \in Hasty!Inspection
    BY <1>5, <1>6, <2>2
  <2>. QED  BY <1>1, <1>2, <2>2, <2>3
<1>9. CASE Hasty!Identify
  <2>1. /\ group \in Cid /\ ~completing /\ completing' = TRUE /\ creating' = creating
        /\ inspecting' = [kind |-> "search", c |-> group, show |-> None, existing |-> Hasty!SeasonsOf(group)]
    BY <1>9 DEF Hasty!Identify, Hasty!Begin, SeriesTypes, Dialogs
  <2>2. inspecting' \in Hasty!Inspection
    BY <1>5, <1>6, <2>1
  <2>. QED  BY <1>1, <1>2, <2>1, <2>2
<1>10. CASE \E found \in SUBSET TvShows : Hasty!AnswerIdentify(found)
  <2>1. PICK found \in SUBSET TvShows : Hasty!AnswerIdentify(found)
    BY <1>10
  <2>2. inspecting # None /\ inspecting \in Hasty!Inspection /\ creating' = None /\ completing
    BY <1>1, <2>1 DEF Hasty!AnswerIdentify
  <2>3. CASE Hasty!Cardinality(found) = 1
    <3>1. PICK p \in found : Hasty!LookUp(inspecting.c, p, inspecting.existing) /\ completing' = completing
      BY <2>1, <2>3 DEF Hasty!AnswerIdentify
    <3>2. inspecting.c \in Cid /\ inspecting.existing \in SUBSET Nat
      BY <2>2 DEF Hasty!Inspection
    <3>3. inspecting' \in Hasty!Inspection
      BY <1>6, <3>1, <3>2 DEF Hasty!LookUp
    <3>4. completing' = TRUE
      BY <1>1, <2>2, <3>1
    <3>. QED  BY <1>2, <2>2, <3>3, <3>4
  <2>4. CASE Hasty!Cardinality(found) # 1
    BY <1>3, <2>1, <2>2, <2>4 DEF Hasty!AnswerIdentify
  <2>. QED  BY <2>3, <2>4
<1>11. CASE Hasty!AnswerInspect \/ Hasty!Fail
  BY <1>1, <1>3, <1>11 DEF Hasty!AnswerInspect, Hasty!Answered, Hasty!Fail
<1>12. CASE Hasty!Create
  <2>1. /\ group \in Cid /\ detail \in TvShows /\ chosen \in SUBSET Nat
        /\ ~completing /\ completing' = TRUE /\ inspecting' = inspecting
        /\ creating' = [c |-> group, rev |-> groups[group].rev, show |-> detail, seasons |-> chosen]
    BY <1>12 DEF Hasty!Create, SeriesTypes, Dialogs
  <2>2. creating' \in Hasty!Creation
    BY <1>5, <2>1 DEF Hasty!Creation
  <2>. QED  BY <1>1, <1>4, <2>1, <2>2
<1>13. CASE Hasty!RunCreate
  BY <1>1, <1>3, <1>13 DEF Hasty!RunCreate
<1>. QED
  BY <1>7, <1>8, <1>9, <1>10, <1>11, <1>12, <1>13
     DEF Hasty!Next, Hasty!Select, Hasty!ByHand, Hasty!CloseDialog, Hasty!Toggle

\* The dialog, after it opens, goes on or is closed.
LEMMA DialogStays ==
  ASSUME SeriesTypes, UnderWay, DialogIsOffer, Hasty!SeriesAssumption, Hasty!Next
  PROVE  DialogIsOffer'
<1>1. CASE UNCHANGED <<detail, offered, chosen>>
  BY <1>1 DEF DialogIsOffer
<1>2. CASE detail' = None /\ chosen' = {} /\ offered' = None
  BY <1>2 DEF DialogIsOffer
<1>3. CASE Hasty!AnswerInspect
  <2>1. /\ inspecting # None /\ inspecting.kind = "seasons"
        /\ detail' = inspecting.show /\ offered' = [c |-> inspecting.c, show |-> inspecting.show]
    BY <1>3 DEF Hasty!AnswerInspect, Hasty!Answered, Hasty!Opened
  <2>2. inspecting.show \in TvShows /\ inspecting.c \in Cid
    BY <2>1 DEF SeriesTypes, Dialogs
  <2>3. offered' \in Hasty!Offer
    BY <2>1, <2>2 DEF Hasty!Offer
  <2>4. None \notin TvShows /\ None \notin Hasty!Offer
    BY DEF Hasty!SeriesAssumption
  <2>. QED  BY <2>1, <2>2, <2>3, <2>4 DEF DialogIsOffer
<1>4. CASE \E n \in UNION {AllSeasons[p] : p \in TvShows} : Hasty!Toggle(n)
  BY <1>4 DEF Hasty!Toggle, DialogIsOffer
<1>5. Hasty!RunCreate => UNCHANGED <<detail, offered, chosen>> \/ (detail' = None /\ chosen' = {} /\ offered' = None)
  BY DEF Hasty!RunCreate, Hasty!dialog
<1>6. (\E p \in TvShows : Hasty!Inspect(p) \/ Hasty!BindChoice(p)) \/ (\E c \in Cid : Hasty!Select(c))
      \/ (\E r \in SeriesRec : Hasty!ByHand(r)) \/ (\E found \in SUBSET TvShows : Hasty!AnswerIdentify(found))
      \/ Hasty!Fail \/ Hasty!Identify \/ Hasty!Create
      => UNCHANGED <<detail, offered, chosen>>
  BY DEF Hasty!Select, Hasty!ByHand, Hasty!Inspect, Hasty!BindChoice, Hasty!AnswerIdentify,
         Hasty!Fail, Hasty!Identify, Hasty!Create, Hasty!dialog
<1>7. Hasty!CloseDialog => detail' = None /\ chosen' = {} /\ offered' = None
  BY DEF Hasty!CloseDialog
<1>. QED
  BY <1>1, <1>2, <1>3, <1>4, <1>5, <1>6, <1>7 DEF Hasty!Next

SeriesTyped == SeriesTypes /\ SourcesApart /\ UnderWay /\ DialogIsOffer

\* Every step of the completion of series keeps its types.
LEMMA SeriesKeepsTyped ==
  ASSUME SeriesTyped, Hasty!SeriesAssumption, Hasty!Next
  PROVE  SeriesTyped'
BY SeriesKeepsTypes, SourcesStayApart, UnderWayStays, DialogStays DEF SeriesTyped

\* They hold at first, for either user.
LEMMA SeriesBeginsTyped ==
  ASSUME CentreAssumption, Hasty!Init \/ Series!Init
  PROVE  SeriesTyped
<1>1. SeriesTypes
  BY SeriesInits DEF HastyInv, PatientInv
<1>2. /\ completing = FALSE /\ inspecting = None /\ detail = None /\ chosen = {} /\ creating = None
      /\ offered = None
  BY DEF Hasty!Init, Series!Init
<1>3. groups \in [Cid -> [kind : SeriesKinds \cup {"universe"}, source : {None}, recs : SUBSET SeasonsIn, rev : {1}]]
  BY DEF Hasty!Init, Series!Init, Hasty!Live, Series!Live, SeasonsIn
<1>4. \A c \in Cid : groups[c].source = None
  BY <1>3
<1>. QED  BY <1>1, <1>2, <1>4 DEF SeriesTyped, SourcesApart, UnderWay, DialogIsOffer

-----------------------------------------------------------------------------
(*                          The types of a search                          *)

\* What is suggested: a source that is known, with records or to be bound.
GoodItem(x) == /\ x.key \in Scan!Keys /\ (x.recs # {} \/ x.binding)
               /\ x.recs \subseteq Found /\ x.target \in {None} \cup Cid

\* The groups of a search, and what is asked about.
SearchTyped ==
  /\ \A k \in DOMAIN scan.groups : k \in Scan!Keys /\ scan.groups[k] # {} /\ scan.groups[k] \subseteq Found
  /\ IsFiniteSet(scan.asked) /\ Cardinality(scan.asked) <= Workers
  /\ \A i \in scan.todo \cup scan.asked : Scan!Matching(i) # {}

\* What the user is asked about a record: sources that are known.
AsksOf(a) ==
  /\ a.imdb \in Scan!Imdbs /\ Scan!Matching(a.imdb) # {} /\ Cardinality(a.choices) > 1
  /\ \A s \in a.choices : s \in ImdbSeeds[a.imdb] /\ s.source # None

ACollection(g) == {"name", "source", "recs"} \subseteq DOMAIN g /\ g.recs \subseteq Found

ScanTyped ==
  /\ DOMAIN coll = Cid /\ \A c \in Cid : coll[c] # None => ACollection(coll[c])
  /\ stored \subseteq Scan!Keys /\ dismissals \subseteq Scan!Keys
  /\ loaded \in BOOLEAN /\ decisions \in 0..MaxDecisions
  /\ \A s \in suggestions : GoodItem(s)
  /\ \A s, t \in suggestions : s.key = t.key => s = t
  /\ \A a \in ambiguities : AsksOf(a)
  /\ \A i \in DOMAIN writes : writes[i].keys \subseteq Scan!Keys
  /\ scan.stage = "search" => SearchTyped
  /\ scan.stage = "verify" => \A x \in scan.found : GoodItem(x)

\* The instance counts as the library does.
LEMMA ScanCounts ==
  ASSUME NEW S
  PROVE  Scan!Cardinality(S) = Cardinality(S) /\ (Scan!IsFiniteSet(S) <=> IsFiniteSet(S))
BY DEF Scan!Cardinality, Cardinality, Scan!IsFiniteSet, IsFiniteSet

\* This is the type invariant.
LEMMA ScanTypeOK == ScanInv /\ ScanTyped => Scan!TypeOK
<1>. SUFFICES ASSUME ScanInv, ScanTyped PROVE Scan!TypeOK
  OBVIOUS
<1>1. \A c \in Cid : coll[c] # None => coll[c].recs \subseteq Found
  BY DEF ScanTyped, ACollection
<1>2. \A s \in suggestions : /\ s.key \in Scan!Keys /\ (s.recs # {} \/ s.binding)
                             /\ s.recs \subseteq Found /\ s.target \in {None} \cup Cid
  BY DEF ScanTyped, GoodItem
<1>3. \A a \in ambiguities : a.recs = Scan!Matching(a.imdb) /\ Scan!Cardinality(a.choices) > 1
  <2>. TAKE a \in ambiguities
  <2>1. Scan!Cardinality(a.choices) = Cardinality(a.choices)
    BY ScanCounts
  <2>. QED  BY <2>1 DEF ScanInv, ScanTyped, AsksOf
<1>4. Scan!Scanning("search") => scan.asked \subseteq Scan!Imdbs /\ Scan!Cardinality(scan.asked) <= Workers
  <2>1. Scan!Cardinality(scan.asked) = Cardinality(scan.asked)
    BY ScanCounts
  <2>2. ASSUME Scan!Scanning("search") PROVE scan.stage = "search" /\ scan # Scan!Idle
    BY <2>2 DEF Scan!Scanning, Scan!Idle
  <2>. QED  BY <2>1, <2>2 DEF ScanInv, ScanTyped, SearchTyped, GroupsApart
<1>5. /\ stored \subseteq Scan!Keys /\ dismissals \subseteq Scan!Keys
      /\ loaded \in BOOLEAN /\ decisions \in 0..MaxDecisions
      /\ \A s, t \in suggestions : s.key = t.key => s = t
  BY DEF ScanTyped
<1>. QED  BY <1>1, <1>2, <1>3, <1>4, <1>5 DEF Scan!TypeOK

\* The sources of seeds and of records are known.
LEMMA SeedIsKnown ==
  ASSUME Scan!ScanAssumption, NEW i \in Scan!Imdbs, NEW s \in ImdbSeeds[i], s.source # None
  PROVE  Scan!Key(s.kind, s.source) \in Scan!Keys
BY DEF Scan!ScanAssumption, Scan!Keys

\* The groups a search begins with.
LEMMA LocalGroupsTyped ==
  ASSUME Scan!ScanAssumption
  PROVE  LET G == Scan!LocalGroups
         IN  \A k \in DOMAIN G : k \in Scan!Keys /\ G[k] # {} /\ G[k] \subseteq Found
<1>. DEFINE G == Scan!LocalGroups
            seasoned == {r \in Found : Datas[r].season # None}
<1>1. ASSUME NEW k \in DOMAIN G
      PROVE  G[k] = {r \in seasoned : Scan!GroupKey(r) = k} /\ \E r \in seasoned : Scan!GroupKey(r) = k
  BY DEF Scan!LocalGroups
<1>2. ASSUME NEW r \in Found PROVE Scan!GroupKey(r) \in Scan!Keys
  <2>1. CASE Datas[r].parent # None
    <3>1. Scan!GroupKey(r) = Scan!Key("tv", Datas[r].parent)
      BY <2>1 DEF Scan!GroupKey
    <3>2. Scan!Key("tv", Datas[r].parent) \in DOMAIN SourceParts
      BY <2>1 DEF Scan!ScanAssumption
    <3>. QED  BY <3>1, <3>2 DEF Scan!Keys
  <2>2. CASE Datas[r].parent = None /\ Datas[r].imdb # None
    BY <2>2 DEF Scan!GroupKey, Scan!Keys, Scan!Imdbs
  <2>3. CASE Datas[r].parent = None /\ Datas[r].imdb = None
    BY <2>3 DEF Scan!GroupKey, Scan!Keys
  <2>. QED  BY <2>1, <2>2, <2>3
<1>. HIDE DEF G
<1>3. \A k \in DOMAIN G : k \in Scan!Keys /\ G[k] # {} /\ G[k] \subseteq Found
  BY <1>1, <1>2
<1>. QED  BY <1>3 DEF G

\* What is left of an item at a collection it belongs to.
LEMMA ReconciledIsGood ==
  ASSUME NEW key \in Scan!Keys, NEW some \in SUBSET Found, some # {}, NEW cs,
         Scan!Reconcile(Scan!Item(key, some, None, FALSE), cs) # None
  PROVE  GoodItem(Scan!Reconcile(Scan!Item(key, some, None, FALSE), cs))
<1>. DEFINE item == Scan!Item(key, some, None, FALSE)
            x == Scan!Reconcile(item, cs)
            homes == {c \in Cid : cs[c] # None /\ Scan!BelongsTo(item, c, cs)}
            home == CHOOSE c \in homes : TRUE
            rest == item.recs \ cs[home].recs
            binds == item.key.kind # "local" /\ cs[home].source # item.key
<1>1. item.key = key /\ item.recs = some /\ item.target = None
  BY DEF Scan!Item
<1>2. x = IF Scan!Covered(item.recs, cs) THEN None
      ELSE IF homes = {} THEN item
      ELSE IF rest = {} /\ ~binds THEN None
      ELSE Scan!Item(item.key, rest, home, binds)
  BY DEF Scan!Reconcile
<1>3. homes # {} => home \in Cid
  OBVIOUS
<1>4. rest \subseteq some
  BY <1>1
<1>. HIDE DEF item, homes, home, rest, binds
<1>5. \/ x = item
      \/ homes # {} /\ (rest # {} \/ binds) /\ x = Scan!Item(item.key, rest, home, binds)
  <2>1. x # None
    BY DEF x, item
  <2>. HIDE DEF x
  <2>. QED  BY <1>2, <2>1
<1>6. CASE x = item
  <2>1. GoodItem(item)
    BY <1>1 DEF GoodItem
  <2>. QED  BY <1>6, <2>1 DEF item
<1>7. CASE homes # {} /\ (rest # {} \/ binds) /\ x = Scan!Item(item.key, rest, home, binds)
  <2>1. x.key = key /\ x.recs = rest /\ x.target = home /\ x.binding = binds
    BY <1>1, <1>7 DEF Scan!Item
  <2>2. GoodItem(x)
    BY <1>3, <1>4, <1>7, <2>1 DEF GoodItem
  <2>. QED  BY <2>2 DEF item
<1>. QED  BY <1>5, <1>6, <1>7

\* The steps of a search.
LEMMA SearchKeepsTyped ==
  ASSUME ScanInv, ScanTyped, Scan!ScanAssumption, Scan!Scanning("search"),
         \/ \E i \in Scan!Imdbs : Scan!PickEntry(i) \/ \E S \in SUBSET ImdbSeeds[i] : Scan!AnswerEntry(i, S)
         \/ Scan!StopScan
  PROVE  ScanTyped'
<1>1. scan.stage = "search" /\ scan # Scan!Idle
  BY DEF Scan!Scanning, Scan!Idle
<1>2. SearchTyped /\ GroupsApart
  BY <1>1 DEF ScanTyped, ScanInv
<1>3. UNCHANGED <<coll, stored, dismissals, loaded, writes, suggestions, decisions>> /\ scan'.stage = "search"
  BY SearchIsScanning DEF Scan!PickEntry, Scan!AnswerEntry, Scan!Answer, Scan!StopScan, Scan!Within, Scan!setting
<1>. SUFFICES SearchTyped' /\ \A a \in ambiguities' : AsksOf(a)
  <2>1. scan'.stage # "verify"
    BY <1>3
  <2>. QED  BY <1>3, <2>1 DEF ScanTyped
<1>4. ASSUME NEW cancel, NEW todo, NEW asked, NEW left, Scan!Search(cancel, todo, asked, left),
             todo \cup asked \subseteq scan.todo \cup scan.asked,
             IsFiniteSet(asked), Cardinality(asked) <= Workers,
             \A k \in DOMAIN left : k \in Scan!Keys /\ left[k] # {} /\ left[k] \subseteq Found
      PROVE  SearchTyped'
  <2>1. scan'.groups = left /\ scan'.todo = todo /\ scan'.asked = asked
    BY <1>4 DEF Scan!Search
  <2>. QED  BY <1>2, <1>4, <2>1 DEF SearchTyped
<1>5. ASSUME NEW k
      PROVE  \A l \in DOMAIN Scan!Without(scan.groups, k) :
               LET g == Scan!Without(scan.groups, k)[l] IN l \in Scan!Keys /\ g # {} /\ g \subseteq Found
  BY <1>2 DEF Scan!Without, SearchTyped
<1>6. IsFiniteSet(scan.asked) /\ Cardinality(scan.asked) <= Workers /\ Workers \in Nat
  BY <1>2 DEF SearchTyped, Scan!ScanAssumption
<1>7. CASE Scan!StopScan
  <2>1. Scan!Search(TRUE, scan.todo, scan.asked, scan.groups) /\ ambiguities' = ambiguities
    BY <1>7 DEF Scan!StopScan
  <2>2. SearchTyped'
    BY <1>2, <1>4, <1>6, <2>1 DEF SearchTyped
  <2>. QED  BY <2>1, <2>2 DEF ScanTyped
<1>8. CASE \E i \in Scan!Imdbs : Scan!PickEntry(i)
  <2>1. PICK i \in Scan!Imdbs : Scan!PickEntry(i)
    BY <1>8
  <2>2. /\ ambiguities' = ambiguities /\ i \in scan.todo /\ Scan!Cardinality(scan.asked) < Workers
        /\ \/ Scan!Search(FALSE, scan.todo \ {i}, scan.asked, Scan!Without(scan.groups, Scan!Key("local", i)))
           \/ Scan!Search(FALSE, scan.todo \ {i}, scan.asked \cup {i}, scan.groups)
    BY <2>1 DEF Scan!PickEntry
  <2>3. CASE Scan!Search(FALSE, scan.todo \ {i}, scan.asked, Scan!Without(scan.groups, Scan!Key("local", i)))
    <3>1. SearchTyped'
      <4>. DEFINE left == Scan!Without(scan.groups, Scan!Key("local", i))
      <4>1. \A k \in DOMAIN left : k \in Scan!Keys /\ left[k] # {} /\ left[k] \subseteq Found
        BY <1>5
      <4>2. Scan!Search(FALSE, scan.todo \ {i}, scan.asked, left)
        BY <2>3
      <4>. HIDE DEF left
      <4>. QED  BY <1>4, <1>6, <4>1, <4>2
    <3>. QED  BY <2>2, <3>1 DEF ScanTyped
  <2>4. CASE Scan!Search(FALSE, scan.todo \ {i}, scan.asked \cup {i}, scan.groups)
    <3>1. Cardinality(scan.asked) < Workers
      BY <2>2, ScanCounts
    <3>2. Cardinality(scan.asked) \in Nat
      BY <1>6, FS_CardinalityType
    <3>3. IsFiniteSet(scan.asked \cup {i}) /\ Cardinality(scan.asked \cup {i}) <= Cardinality(scan.asked) + 1
          /\ Cardinality(scan.asked \cup {i}) \in Nat
      <4>1. IsFiniteSet(scan.asked \cup {i})
        BY <1>6, FS_AddElement
      <4>2. Cardinality(scan.asked \cup {i}) \in {Cardinality(scan.asked), Cardinality(scan.asked) + 1}
        BY <1>6, FS_AddElement
      <4>. QED  BY <3>2, <4>1, <4>2
    <3>4. Cardinality(scan.asked \cup {i}) <= Workers
      BY <1>6, <3>1, <3>2, <3>3
    <3>5. SearchTyped'
      BY <1>2, <1>4, <2>2, <2>4, <3>3, <3>4 DEF SearchTyped
    <3>. QED  BY <2>2, <3>5 DEF ScanTyped
  <2>. QED  BY <2>2, <2>3, <2>4
<1>9. CASE \E i \in Scan!Imdbs : \E S \in SUBSET ImdbSeeds[i] : Scan!AnswerEntry(i, S)
  <2>0. PICK i \in Scan!Imdbs : \E S \in SUBSET ImdbSeeds[i] : Scan!AnswerEntry(i, S)
    BY <1>9
  <2>1. PICK S \in SUBSET ImdbSeeds[i] : Scan!AnswerEntry(i, S)
    BY <2>0
  <2>. DEFINE found == Scan!Choices(i, S)
              left == IF found = {} THEN scan.groups ELSE Scan!Without(scan.groups, Scan!Key("local", i))
              s == CHOOSE x \in found : TRUE
              k == Scan!Key(s.kind, s.source)
              groupsNow == IF Scan!Cardinality(found) # 1 THEN left ELSE Scan!Joined(left, k, Scan!Matching(i))
  <2>2. /\ i \in scan.asked
        /\ Scan!Search(scan.cancel, scan.todo, scan.asked \ {i}, groupsNow)
        /\ ambiguities' = IF Scan!Cardinality(found) < 2 THEN ambiguities
                    ELSE ambiguities \cup {[imdb |-> i, recs |-> Scan!Matching(i), choices |-> found]}
    BY <2>1 DEF Scan!AnswerEntry, Scan!Answer
  <2>3. found \subseteq ImdbSeeds[i] /\ \A x \in found : x.source # None
    BY DEF Scan!Choices, Scan!Qualifies
  <2>4. IsFiniteSet(found)
    <3>1. IsFiniteSet(ImdbSeeds[i])
      BY ScanCounts DEF Scan!ScanAssumption
    <3>. QED  BY <2>3, <3>1, FS_Subset
  <2>5. Scan!Cardinality(found) = Cardinality(found) /\ Cardinality(found) \in Nat
    BY <2>4, ScanCounts, FS_CardinalityType
  <2>6. Scan!Matching(i) # {} /\ Scan!Matching(i) \subseteq Found
    BY <1>2, <2>2 DEF SearchTyped, Scan!Matching
  <2>7. \A l \in DOMAIN left : l \in Scan!Keys /\ left[l] # {} /\ left[l] \subseteq Found
    BY <1>2, <1>5 DEF SearchTyped
  <2>8. Cardinality(found) = 1 => k \in Scan!Keys
    <3>1. Cardinality({}) = 0
      BY FS_EmptySet
    <3>2. found # {} => s \in found
      OBVIOUS
    <3>. HIDE DEF found, s
    <3>3. found # {} => s \in ImdbSeeds[i] /\ s.source # None
      BY <2>3, <3>2
    <3>4. found # {} => Scan!Key(s.kind, s.source) \in Scan!Keys
      BY <3>3, SeedIsKnown
    <3>5. Cardinality(found) = 1 => found # {}
      BY <3>1
    <3>. QED  BY <3>4, <3>5
  <2>. HIDE DEF found, left, s, k
  <2>9. \A l \in DOMAIN groupsNow : l \in Scan!Keys /\ groupsNow[l] # {} /\ groupsNow[l] \subseteq Found
    <3>1. CASE Cardinality(found) # 1
      BY <2>5, <2>7, <3>1
    <3>2. CASE Cardinality(found) = 1
      <4>1. /\ DOMAIN groupsNow = DOMAIN left \cup {k}
            /\ \A l \in DOMAIN left \cup {k} : groupsNow[l] =
                 (IF l = k THEN Scan!Matching(i) ELSE {}) \cup (IF l \in DOMAIN left THEN left[l] ELSE {})
        BY <2>5, <3>2 DEF Scan!Joined
      <4>. HIDE DEF groupsNow
      <4>. QED  BY <2>6, <2>7, <2>8, <3>2, <4>1
    <3>. QED  BY <3>1, <3>2
  <2>. HIDE DEF groupsNow
  <2>10. IsFiniteSet(scan.asked \ {i}) /\ Cardinality(scan.asked \ {i}) <= Workers
    <3>1. IsFiniteSet(scan.asked \ {i}) /\ Cardinality(scan.asked \ {i}) = Cardinality(scan.asked) - 1
      BY <1>6, <2>2, FS_RemoveElement
    <3>2. Cardinality(scan.asked) \in Nat
      BY <1>6, FS_CardinalityType
    <3>. QED  BY <1>6, <3>1, <3>2
  <2>11. SearchTyped'
    BY <1>4, <2>2, <2>9, <2>10
  <2>12. \A a \in ambiguities' : AsksOf(a)
    <3>. TAKE a \in ambiguities'
    <3>1. CASE a \in ambiguities
      BY <3>1 DEF ScanTyped
    <3>2. CASE a \notin ambiguities
      <4>1. a.imdb = i /\ a.choices = found /\ Cardinality(found) > 1
        BY <2>2, <2>5, <3>2
      <4>. QED  BY <2>3, <2>6, <4>1 DEF AsksOf
    <3>. QED  BY <3>1, <3>2
  <2>. QED  BY <2>11, <2>12
<1>. QED  BY <1>7, <1>8, <1>9

\* A search begins; its groups become items; these are suggested.
LEMMA ScanStepsKeepTyped ==
  ASSUME ScanInv, ScanTyped, Scan!ScanAssumption,
         \/ \E read \in {dismissals, stored} : Scan!StartScan(read)
         \/ Scan!Gather
         \/ Scan!Scanning("verify") /\ \E S \in SUBSET {item.key : item \in scan.found} : Scan!Publish(S)
  PROVE  ScanTyped'
<1>1. CASE \E read \in {dismissals, stored} : Scan!StartScan(read)
  <2>1. PICK read \in {dismissals, stored} : Scan!StartScan(read)
    BY <1>1
  <2>2. /\ dismissals' = read /\ loaded' = (loaded \/ read = stored)
        /\ scan' = [stage |-> "search", dismissed |-> read, coll |-> coll, groups |-> Scan!LocalGroups,
                    todo |-> {i \in Scan!Imdbs : Scan!Matching(i) # {}}, asked |-> {}, cancel |-> FALSE]
        /\ ambiguities' = {} /\ UNCHANGED <<coll, stored, writes, suggestions>>
        /\ decisions < MaxDecisions /\ decisions' = decisions + 1
    BY <2>1 DEF Scan!StartScan, Scan!Step
  <2>3. /\ scan'.stage = "search" /\ scan'.groups = Scan!LocalGroups /\ scan'.asked = {}
        /\ scan'.todo = {i \in Scan!Imdbs : Scan!Matching(i) # {}}
    BY <2>2
  <2>4. IsFiniteSet({}) /\ Cardinality({}) = 0
    BY FS_EmptySet
  <2>5. SearchTyped'
    BY <2>3, <2>4, LocalGroupsTyped DEF SearchTyped, Scan!ScanAssumption
  <2>6. scan'.stage # "verify"
    BY <2>3
  <2>7. decisions' \in 0..MaxDecisions
    BY <2>2 DEF ScanTyped, Scan!ScanAssumption
  <2>. QED  BY <2>2, <2>5, <2>6, <2>7 DEF ScanTyped
<1>2. CASE Scan!Gather
  <2>. DEFINE item(k) == Scan!Reconcile(Scan!Item(k, scan.groups[k], None, FALSE), scan.coll)
              items == {item(k) : k \in DOMAIN scan.groups \ scan.dismissed} \ {None}
  <2>1. /\ scan' = [stage |-> "verify", dismissed |-> scan.dismissed, found |-> items]
        /\ UNCHANGED <<coll, stored, dismissals, loaded, writes, suggestions, ambiguities, decisions>>
    BY <1>2 DEF Scan!Gather, Scan!Within, Scan!setting
  <2>2. scan'.stage = "verify" /\ scan'.found = items
    BY <2>1
  <2>3. SearchTyped
    BY <1>2 DEF Scan!Gather, Scan!Scanning, ScanTyped
  <2>4. \A k \in DOMAIN scan.groups : item(k) # None => GoodItem(item(k))
    BY <2>3, ReconciledIsGood DEF SearchTyped
  <2>5. \A x \in items : GoodItem(x)
    BY <2>4
  <2>6. scan'.stage # "search"
    BY <2>2
  <2>. HIDE DEF items
  <2>. QED  BY <2>1, <2>2, <2>5, <2>6 DEF ScanTyped
<1>3. CASE Scan!Scanning("verify") /\ \E S \in SUBSET {item.key : item \in scan.found} : Scan!Publish(S)
  <2>1. scan.stage = "verify" /\ scan # Scan!Idle
    BY <1>3 DEF Scan!Scanning, Scan!Idle
  <2>2. /\ suggestions' \subseteq scan.found /\ scan' = Scan!Idle
        /\ UNCHANGED <<coll, stored, dismissals, loaded, writes, ambiguities, decisions>>
    BY <1>3 DEF Scan!Publish, Scan!setting
  <2>3. scan'.stage # "search" /\ scan'.stage # "verify"
    BY <2>2 DEF Scan!Idle
  <2>4. \A x \in scan.found : GoodItem(x)
    BY <2>1 DEF ScanTyped
  <2>5. \A x, y \in scan.found : x.key = y.key => x = y
    BY <2>1 DEF ScanInv, ItemsApart
  <2>. QED  BY <2>2, <2>3, <2>4, <2>5 DEF ScanTyped
<1>. QED  BY <1>1, <1>2, <1>3

\* The match the user confirms.
LEMMA ResolveKeepsTyped ==
  ASSUME ScanInv, ScanTyped, Scan!ScanAssumption, NEW a \in ambiguities, NEW seed \in a.choices,
         Scan!Resolve(a, seed)
  PROVE  ScanTyped'
<1>. DEFINE key == Scan!Key(seed.kind, seed.source)
            x == Scan!Reconcile(Scan!Item(key, a.recs, None, FALSE), coll)
            prior == {s \in suggestions : s.key = x.key}
            joined == {Scan!Item(s.key, s.recs \cup x.recs, s.target, s.binding) : s \in prior}
<1>1. /\ ambiguities' \subseteq ambiguities
      /\ suggestions' = IF x = None THEN suggestions
                        ELSE IF prior = {} THEN suggestions \cup {x}
                        ELSE (suggestions \ prior) \cup joined
      /\ UNCHANGED <<coll, stored, dismissals, loaded, writes, scan>>
      /\ decisions < MaxDecisions /\ decisions' = decisions + 1
  BY DEF Scan!Resolve, Scan!setting, Scan!Step
<1>2. key \in Scan!Keys /\ a.recs # {} /\ a.recs \in SUBSET Found
  <2>1. AsksOf(a) /\ a.recs = Scan!Matching(a.imdb)
    BY DEF ScanTyped, ScanInv
  <2>. QED  BY <2>1, SeedIsKnown DEF AsksOf, Scan!Matching
<1>3. x # None => GoodItem(x)
  BY <1>2, ReconciledIsGood
<1>. HIDE DEF key, x
<1>4. \A s, t \in suggestions : s.key = t.key => s = t
  BY DEF ScanTyped
<1>5. ASSUME NEW s \in joined, x # None
      PROVE  GoodItem(s) /\ s.key = x.key
  <2>1. PICK p \in prior : s = Scan!Item(p.key, p.recs \cup x.recs, p.target, p.binding)
    OBVIOUS
  <2>2. /\ s.key = p.key /\ s.recs = p.recs \cup x.recs /\ s.target = p.target /\ s.binding = p.binding
    BY <2>1 DEF Scan!Item
  <2>3. GoodItem(p) /\ p.key = x.key
    BY DEF ScanTyped
  <2>. QED  BY <1>3, <1>5, <2>2, <2>3 DEF GoodItem
<1>6. \A s, t \in joined : s = t
  <2>. SUFFICES ASSUME NEW s \in joined, NEW t \in joined PROVE s = t
    OBVIOUS
  <2>1. \A p, q \in prior : p = q
    BY <1>4
  <2>. QED  BY <2>1
<1>7. \A s \in suggestions \ prior : s.key # x.key
  OBVIOUS
<1>. HIDE DEF joined
<1>8. \A s \in suggestions' : GoodItem(s)
  BY <1>1, <1>3, <1>5 DEF ScanTyped
<1>9. \A s, t \in suggestions' : s.key = t.key => s = t
  <2>1. CASE x = None
    BY <1>1, <1>4, <2>1
  <2>2. CASE x # None /\ prior = {}
    BY <1>1, <1>4, <1>7, <2>2
  <2>3. CASE x # None /\ prior # {}
    <3>1. suggestions' = (suggestions \ prior) \cup joined
      BY <1>1, <2>3
    <3>2. \A s \in joined : s.key = x.key
      BY <1>5, <2>3
    <3>. QED  BY <1>4, <1>6, <1>7, <3>1, <3>2
  <2>. QED  BY <2>1, <2>2, <2>3
<1>10. decisions' \in 0..MaxDecisions
  BY <1>1 DEF ScanTyped, Scan!ScanAssumption
<1>. QED  BY <1>1, <1>8, <1>9, <1>10 DEF ScanTyped, SearchTyped

\* A suggestion is applied, or a collection made by hand.
LEMMA CollectingKeepsTyped ==
  ASSUME ScanTyped, Scan!ScanAssumption,
         \/ \E s \in suggestions : Scan!Apply(s)
         \/ \E c \in Cid, item \in Scan!ByHand : Scan!CollectByHand(c, item)
  PROVE  ScanTyped'
<1>1. /\ suggestions' \subseteq suggestions
      /\ UNCHANGED <<stored, dismissals, loaded, writes, ambiguities, scan>>
      /\ decisions < MaxDecisions /\ decisions' = decisions + 1
  BY DEF Scan!Apply, Scan!CollectByHand, Scan!setting, Scan!Step
<1>2. decisions' \in 0..MaxDecisions
  BY <1>1 DEF ScanTyped, Scan!ScanAssumption
<1>3. ASSUME NEW c, NEW g, ACollection(g) \/ g = None, 
             DOMAIN coll' = DOMAIN coll, \A d \in DOMAIN coll : coll'[d] = IF d = c THEN g ELSE coll[d]
      PROVE  DOMAIN coll' = Cid /\ \A d \in Cid : coll'[d] # None => ACollection(coll'[d])
  <2>1. DOMAIN coll = Cid /\ \A d \in Cid : coll[d] # None => ACollection(coll[d])
    BY DEF ScanTyped
  <2>2. DOMAIN coll' = Cid /\ \A d \in Cid : coll'[d] = IF d = c THEN g ELSE coll[d]
    BY <1>3, <2>1
  <2>. QED  BY <1>3, <2>1, <2>2
<1>4. CASE \E s \in suggestions : Scan!Apply(s)
  <2>1. PICK s \in suggestions : Scan!Apply(s)
    BY <1>4
  <2>. DEFINE c == Scan!Target(s)
              source_ == IF s.key.kind = "local" THEN None ELSE s.key
              g == IF coll[c] = None THEN [name |-> Scan!NameOf(s), source |-> source_, recs |-> s.recs]
                   ELSE [coll[c] EXCEPT !.recs = @ \cup s.recs,
                                        !.source = IF source_ = None THEN @ ELSE source_]
  <2>2. /\ DOMAIN coll' = DOMAIN coll
        /\ \A d \in DOMAIN coll : coll'[d] = IF d = c THEN g ELSE coll[d]
    <3>1. coll' = [coll EXCEPT ![c] = g]
      BY <2>1 DEF Scan!Apply, Scan!Applied
    <3>. HIDE DEF c, g
    <3>. QED  BY <3>1
  <2>3. s.recs \subseteq Found
    BY DEF ScanTyped, GoodItem
  <2>4. c \in Cid => ACollection(g)
    <3>1. CASE coll[c] = None
      BY <2>3, <3>1 DEF ACollection
    <3>2. CASE coll[c] # None
      <4>. SUFFICES ASSUME c \in Cid PROVE ACollection(g)
        OBVIOUS
      <4>. DEFINE h == coll[c]
      <4>1. ACollection(h)
        BY <3>2 DEF ScanTyped
      <4>2. g = [h EXCEPT !.recs = @ \cup s.recs, !.source = IF source_ = None THEN @ ELSE source_]
        BY <3>2
      <4>. HIDE DEF g, h, source_, c
      <4>. QED  BY <2>3, <4>1, <4>2 DEF ACollection
    <3>. QED  BY <3>1, <3>2
  <2>5. CASE c \in Cid
    <3>. HIDE DEF c, g
    <3>. QED  BY <1>1, <1>2, <1>3, <2>2, <2>4, <2>5 DEF ScanTyped, SearchTyped
  <2>6. CASE c \notin Cid
    <3>1. DOMAIN coll = Cid
      BY DEF ScanTyped
    <3>. HIDE DEF c, g
    <3>2. DOMAIN coll' = Cid /\ \A d \in Cid : coll'[d] = coll[d]
      BY <2>2, <2>6, <3>1
    <3>. QED  BY <1>1, <1>2, <3>2 DEF ScanTyped, SearchTyped
  <2>. QED  BY <2>5, <2>6
<1>5. CASE \E c \in Cid, item \in Scan!ByHand : Scan!CollectByHand(c, item)
  <2>1. PICK c \in Cid, item \in Scan!ByHand : coll' = [coll EXCEPT ![c] = item]
    BY <1>5 DEF Scan!CollectByHand
  <2>3. DOMAIN coll' = DOMAIN coll /\ \A d \in DOMAIN coll : coll'[d] = IF d = c THEN item ELSE coll[d]
    BY <2>1
  <2>2. ACollection(item)
    BY DEF Scan!ByHand, ACollection
  <2>. QED  BY <1>1, <1>2, <1>3, <2>2, <2>3 DEF ScanTyped, SearchTyped
<1>. QED  BY <1>4, <1>5

\* Decisions, and what becomes of them.
LEMMA DecidingKeepsTyped ==
  ASSUME ScanInv, ScanTyped, Scan!ScanAssumption,
         \/ \E s \in suggestions : Scan!Dismiss(s)
         \/ \E k \in dismissals : Scan!Restore(k)
         \/ Scan!RestoreAll
  PROVE  ScanTyped'
<1>1. \E keys, gone, again : Scan!Write(keys, gone, again) /\ keys \subseteq Scan!Keys
  <2>1. dismissals \subseteq Scan!Keys /\ \A s \in suggestions : s.key \in Scan!Keys
    BY DEF ScanTyped, GoodItem
  <2>2. CASE \E s \in suggestions : Scan!Dismiss(s)
    <3>1. PICK s \in suggestions : Scan!Write(dismissals \cup {s.key}, {s}, {})
      BY <2>2 DEF Scan!Dismiss
    <3>2. dismissals \cup {s.key} \subseteq Scan!Keys
      BY <2>1
    <3>. QED  BY <3>1, <3>2
  <2>3. CASE \E k \in dismissals : Scan!Restore(k)
    <3>1. PICK k \in dismissals : Scan!Write(dismissals \ {k}, {}, {k})
      BY <2>3 DEF Scan!Restore
    <3>2. dismissals \ {k} \subseteq Scan!Keys
      BY <2>1
    <3>. QED  BY <3>1, <3>2
  <2>4. CASE Scan!RestoreAll
    <3>1. Scan!Write({}, {}, dismissals)
      BY <2>4 DEF Scan!RestoreAll
    <3>2. {} \subseteq Scan!Keys
      OBVIOUS
    <3>. QED  BY <3>1, <3>2
  <2>. QED  BY <2>2, <2>3, <2>4
<1>2. PICK keys, gone, again : Scan!Write(keys, gone, again) /\ keys \subseteq Scan!Keys
  BY <1>1
<1>. DEFINE w == Scan!Written(keys, gone, again, TRUE)
<1>3. /\ writes = <<>> /\ writes' = Append(<<>>, w)
      /\ UNCHANGED <<coll, stored, dismissals, loaded, suggestions, ambiguities, scan>>
      /\ decisions < MaxDecisions /\ decisions' = decisions + 1
  BY <1>2 DEF Scan!Write, Scan!Quiet, Scan!Step
<1>4. w.keys = keys
  BY DEF Scan!Written
<1>. HIDE DEF w
<1>5. Append(<<>>, w) = <<w>> /\ DOMAIN <<w>> = {1} /\ <<w>>[1] = w
  OBVIOUS
<1>6. \A i \in DOMAIN writes' : writes'[i].keys \subseteq Scan!Keys
  BY <1>2, <1>3, <1>4, <1>5
<1>7. decisions' \in 0..MaxDecisions
  BY <1>3 DEF ScanTyped, Scan!ScanAssumption
<1>. QED  BY <1>3, <1>6, <1>7 DEF ScanTyped, SearchTyped

\* The setting is written and read, and the centre opened again.
LEMMA WritingKeepsTyped ==
  ASSUME ScanInv, ScanTyped, Scan!ScanAssumption,
         \/ Scan!WriteDone \/ Scan!WriteFailed \/ Scan!Reopen
         \/ \E fails \in BOOLEAN : Scan!ReadDismissals(fails)
  PROVE  ScanTyped'
<1>1. CASE Scan!WriteDone \/ Scan!WriteFailed
  <2>1. writes = <<writes[1]>> /\ writes # <<>>
    BY <1>1 DEF Scan!WriteDone, Scan!WriteFailed, Scan!Answered, ScanInv, PageIsRead
  <2>2. Head(writes) = writes[1] /\ Tail(writes) = <<>> /\ DOMAIN writes = {1}
    BY <2>1, OneWrite
  <2>3. writes[1].keys \subseteq Scan!Keys
    BY <2>2 DEF ScanTyped
  <2>4. /\ DOMAIN writes' = {}
        /\ UNCHANGED <<coll, loaded, ambiguities, scan, decisions>>
        /\ stored' \in {stored, writes[1].keys} /\ dismissals' \in {dismissals, writes[1].keys}
        /\ suggestions' \subseteq suggestions
    BY <1>1, <2>2 DEF Scan!WriteDone, Scan!WriteFailed
  <2>. QED  BY <2>3, <2>4 DEF ScanTyped, SearchTyped
<1>2. CASE Scan!Reopen
  <2>1. /\ dismissals' = {} /\ loaded' = FALSE /\ suggestions' = {} /\ ambiguities' = {} /\ scan' = Scan!Idle
        /\ writes' = [i \in DOMAIN writes |-> Scan!Written(writes[i].keys, writes[i].gone, writes[i].back, FALSE)]
        /\ UNCHANGED <<coll, stored, decisions>>
    BY <1>2 DEF Scan!Reopen
  <2>2. \A i \in DOMAIN writes' : writes'[i].keys \subseteq Scan!Keys
    BY <2>1 DEF Scan!Written, ScanTyped
  <2>3. scan'.stage # "search" /\ scan'.stage # "verify"
    BY <2>1 DEF Scan!Idle
  <2>. QED  BY <2>1, <2>2, <2>3 DEF ScanTyped
<1>3. CASE \E fails \in BOOLEAN : Scan!ReadDismissals(fails)
  BY <1>3 DEF Scan!ReadDismissals, ScanTyped, SearchTyped
<1>. QED  BY <1>1, <1>2, <1>3

\* Every step of a search keeps its types.
LEMMA ScanKeepsTyped ==
  ASSUME ScanInv, ScanTyped, Scan!ScanAssumption, Scan!Next
  PROVE  ScanTyped'
BY SearchKeepsTyped, ScanStepsKeepTyped, ResolveKeepsTyped, CollectingKeepsTyped, DecidingKeepsTyped,
   WritingKeepsTyped DEF Scan!Next, Scan!Scan, Scan!OnSuggestion

\* They hold at first.
LEMMA ScanBeginsTyped == Scan!ScanAssumption /\ Scan!Init => ScanTyped
<1>. SUFFICES ASSUME Scan!ScanAssumption, Scan!Init PROVE ScanTyped
  OBVIOUS
<1>1. /\ coll = [c \in Cid |-> None] /\ dismissals = {} /\ loaded = FALSE /\ suggestions = {} /\ ambiguities = {}
      /\ scan = Scan!Idle /\ writes = <<>> /\ decisions = 0
  BY DEF Scan!Init
<1>2. stored \subseteq Scan!Keys
  BY DEF Scan!Init, Scan!ScanAssumption, Scan!Keys
<1>3. scan.stage = "idle" /\ DOMAIN writes = {} /\ 0 \in 0..MaxDecisions
  BY <1>1 DEF Scan!Idle, Scan!ScanAssumption
<1>. QED  BY <1>1, <1>2, <1>3 DEF ScanTyped

-----------------------------------------------------------------------------
(*                         The types of the centre                         *)

\* A finite set of integers has a greatest element.
LEMMA MaxIsGreatest ==
  ASSUME NEW S \in SUBSET Int, IsFiniteSet(S), S # {}
  PROVE  Max(S) \in S /\ \A y \in S : Max(S) >= y
<1>. DEFINE Greatest(A, x) == x \in A /\ \A y \in A : x >= y
            Rest == {R \in SUBSET S : \E x : Greatest(S \ R, x)}
<1>1. PICK z \in S : TRUE
  OBVIOUS
<1>2. Rest # {}
  <2>1. S \ (S \ {z}) = {z}
    OBVIOUS
  <2>2. Greatest(S \ (S \ {z}), z)
    BY <2>1
  <2>. QED  BY <2>2
<1>3. Rest \subseteq FiniteSubsetsOf(S)
  BY FS_Subset DEF FiniteSubsetsOf
<1>. HIDE DEF Rest
<1>4. PICK R \in Rest : \A Q \in Rest : <<Q, R>> \notin StrictSubsetOrdering(S)
  BY <1>2, <1>3, FS_StrictSubsetOrderingWellFounded, WFMin
<1>5. R \in SUBSET S /\ \E x : Greatest(S \ R, x)
  BY DEF Rest
<1>6. R = {}
  <2>. SUFFICES ASSUME R # {} PROVE FALSE
    OBVIOUS
  <2>1. PICK w \in R : TRUE
    OBVIOUS
  <2>2. PICK x : Greatest(S \ R, x)
    BY <1>5
  <2>3. S \ (R \ {w}) = (S \ R) \cup {w} /\ w \in Int /\ x \in Int /\ S \ R \subseteq Int
    BY <1>5, <2>2
  <2>6. ASSUME NEW y, Greatest(S \ (R \ {w}), y)
        PROVE  FALSE
    <3>1. R \ {w} \in Rest
      BY <1>5, <2>6 DEF Rest
    <3>2. <<R \ {w}, R>> \in StrictSubsetOrdering(S)
      <4>. DEFINE Q == R \ {w}
      <4>1. Q \in SUBSET S /\ R \in SUBSET S /\ Q \subseteq R /\ Q # R
        BY <1>5
      <4>. HIDE DEF Q
      <4>2. <<Q, R>> \in StrictSubsetOrdering(S)
        BY <4>1 DEF StrictSubsetOrdering
      <4>. QED  BY <4>2 DEF Q
    <3>. QED  BY <1>4, <3>1, <3>2
  <2>. HIDE DEF Greatest
  <2>4. CASE w >= x
    <3>1. Greatest(S \ (R \ {w}), w)
      BY <2>2, <2>3, <2>4 DEF Greatest
    <3>. QED  BY <2>6, <3>1
  <2>5. CASE ~(w >= x)
    <3>1. Greatest(S \ (R \ {w}), x)
      BY <2>2, <2>3, <2>5 DEF Greatest
    <3>. QED  BY <2>6, <3>1
  <2>. QED  BY <2>4, <2>5
<1>7. \E x \in S : \A y \in S : x >= y
  BY <1>5, <1>6
<1>. QED  BY <1>7 DEF Max

(* Collections as they should be: in the tables, in the copy, in an answer. *)
Modes == {"manual", "chronological"}
RowsTyped(rows) == /\ DOMAIN rows \subseteq Rec
                   /\ \A r \in DOMAIN rows : rows[r].pos \in Nat /\ rows[r].rev \in Nat
Collected(g) == /\ {"name", "mode", "rev", "rows"} \subseteq DOMAIN g
                /\ g.name \in Name /\ g.mode \in Modes /\ g.rev \in Nat /\ RowsTyped(g.rows)
Library(s) == DOMAIN s = Cid /\ \A c \in Cid : s[c] # None => Collected(s[c])

(* A command says of what it is about, by its kind, as much as it writes.  *)
Kinds == {"create", "update", "delete", "add", "remove", "reorder", "detach"}
Fields == {"kind", "c", "rev", "name", "mode", "recs", "from", "stage", "read", "saw", "meant"}
Says(op, given) ==
  /\ Fields \subseteq DOMAIN op /\ op.kind \in Kinds
  /\ op.kind # "detach" => op.c \in Cid
  /\ op.kind = "create" => op.c \in given
  /\ op.kind \in {"create", "update"} => op.name \in Name /\ op.mode \in Modes
  /\ DOMAIN op.recs \subseteq Nat \ {0}
  /\ op.kind \in {"create", "add"} => DOMAIN op.recs \subseteq {1} /\ \A i \in DOMAIN op.recs : op.recs[i] \in Rec
Ordered(op, given) == Says(op, given) /\ (op.stage = "read" => Library(op.read))

Commands ==
  /\ IsSeq(ops) /\ \A i \in DOMAIN ops : Ordered(ops[i], used)
  /\ IsSeq(saving) /\ \A i \in DOMAIN saving : Ordered(saving[i], used)

Pages ==
  /\ page \in {"library", "center", "form"} /\ selected \in Cid \cup {None}
  /\ busy \in BOOLEAN /\ back \in BOOLEAN /\ outside \in BOOLEAN /\ steps \in 0..MaxSteps
  /\ form \in Form \cup {None} /\ (page = "form" <=> form # None)
  /\ notice \in {"none", "done", "duplicate", "retry", "failed"}

CentreTyped ==
  /\ Library(db) /\ Library(shown) /\ Live(db) \subseteq used /\ used \subseteq Cid
  /\ Commands /\ Pages

\* This is the type invariant.
LEMMA CentreTypeOK == CentreTyped => TypeOK
<1>. SUFFICES ASSUME CentreTyped PROVE TypeOK
  OBVIOUS
<1>1. ASSUME NEW s, Library(s), NEW c \in Live(s)
      PROVE  /\ s[c].name \in Name /\ s[c].mode \in {"manual", "chronological"} /\ s[c].rev \in Nat
             /\ DOMAIN s[c].rows \subseteq Rec
             /\ \A r \in DOMAIN s[c].rows : s[c].rows[r].pos \in Nat /\ s[c].rows[r].rev \in Nat
  BY <1>1 DEF Library, Collected, RowsTyped, Live, Modes
<1>2. Library(db) /\ Library(shown) /\ Live(db) \subseteq used /\ used \subseteq Cid /\ Pages
  BY DEF CentreTyped
<1>3. (page = "form") = (form # None)
  BY <1>2 DEF Pages
<1>. QED  BY <1>1, <1>2, <1>3 DEF TypeOK, Pages

-----------------------------------------------------------------------------
(* What a command writes.                                                  *)
LEMMA BumpedIsCollected ==
  ASSUME NEW g, Collected(g), NEW rows, RowsTyped(rows)
  PROVE  Collected(Bumped(g)) /\ Collected([Bumped(g) EXCEPT !.rows = rows])
<1>. DEFINE h == Bumped(g)
<1>1. h = [g EXCEPT !.rev = g.rev + 1]
  BY DEF Bumped
<1>2. {"name", "mode", "rev", "rows"} \subseteq DOMAIN g /\ g.rev \in Nat /\ RowsTyped(g.rows)
      /\ g.name \in Name /\ g.mode \in Modes
  BY DEF Collected
<1>3. /\ DOMAIN h = DOMAIN g /\ h.rev = g.rev + 1
      /\ h.name = g.name /\ h.mode = g.mode /\ h.rows = g.rows
  BY <1>1, <1>2
<1>4. Collected(h)
  BY <1>2, <1>3 DEF Collected
<1>. HIDE DEF h
<1>. DEFINE k == [h EXCEPT !.rows = rows]
<1>5. /\ DOMAIN k = DOMAIN h /\ k.rows = rows /\ k.rev = h.rev /\ k.name = h.name /\ k.mode = h.mode
  BY <1>2, <1>3
<1>. HIDE DEF k
<1>6. Collected(k)
  BY <1>4, <1>5 DEF Collected
<1>. QED  BY <1>4, <1>6 DEF h, k

\* A member is taken out.
LEMMA WithoutIsCollected ==
  ASSUME NEW g, Collected(g), NEW r
  PROVE  Collected(Without(g, r))
<1>. DEFINE rows == Restrict(Bumped(g).rows, DOMAIN Bumped(g).rows \ {r})
<1>1. RowsTyped(Bumped(g).rows)
  BY BumpedIsCollected DEF Collected
<1>2. RowsTyped(rows)
  BY <1>1 DEF RowsTyped, Restrict
<1>3. Without(g, r) = [Bumped(g) EXCEPT !.rows = rows]
  BY DEF Without
<1>. HIDE DEF rows
<1>. QED  BY <1>2, <1>3, BumpedIsCollected

\* The records that are added come after the last.
LEMMA WithMembersIsCollected ==
  ASSUME NEW g, Collected(g), NEW rs, DOMAIN rs \subseteq {1}, \A i \in DOMAIN rs : rs[i] \in Rec
  PROVE  Collected(WithMembers(g, rs))
<1>. DEFINE new == {i \in DOMAIN rs : rs[i] \notin DOMAIN g.rows}
            places == {-1} \cup {g.rows[r].pos : r \in DOMAIN g.rows}
            last == Max(places)
            at(r) == CHOOSE i \in new : rs[i] = r
            rows == [r \in DOMAIN g.rows \cup {rs[i] : i \in new} |->
                       IF r \in DOMAIN g.rows THEN g.rows[r]
                       ELSE Row(last + Cardinality({i \in new : i <= at(r)}), 1)]
<1>1. RowsTyped(g.rows)
  BY DEF Collected
<1>2. last \in Int /\ last >= -1
  <2>1. IsFiniteSet(DOMAIN g.rows)
    BY <1>1, CenterAssumption, FS_Subset DEF RowsTyped
  <2>2. IsFiniteSet({g.rows[r].pos : r \in DOMAIN g.rows})
    <3>. DEFINE S == DOMAIN g.rows
                T == {g.rows[r].pos : r \in S}
                f == [r \in S |-> g.rows[r].pos]
    <3>1. f \in Surjection(S, T)
      BY DEF Surjection
    <3>2. IsFiniteSet(S)
      BY <2>1
    <3>. HIDE DEF S, T, f
    <3>3. IsFiniteSet(T)
      BY <3>1, <3>2, FS_Surjection DEF ExistsSurjection
    <3>. QED  BY <3>3 DEF S, T
  <2>3. IsFiniteSet(places)
    BY <2>2, FS_Singleton, FS_Union
  <2>4. places \subseteq Int /\ -1 \in places
    BY <1>1 DEF RowsTyped
  <2>. HIDE DEF places
  <2>. QED  BY <2>3, <2>4, MaxIsGreatest
<1>3. ASSUME NEW r \in {rs[i] : i \in new}
      PROVE  Cardinality({i \in new : i <= at(r)}) \in Nat \ {0}
  <2>1. new = {1} /\ at(r) = 1
    OBVIOUS
  <2>2. {i \in new : i <= at(r)} = {1}
    BY <2>1
  <2>3. Cardinality({1}) = 1
    BY FS_Singleton
  <2>. QED  BY <2>2, <2>3
<1>. HIDE DEF last
<1>4. RowsTyped(rows)
  <2>1. DOMAIN rows \subseteq Rec
    BY <1>1 DEF RowsTyped
  <2>2. ASSUME NEW r \in DOMAIN g.rows PROVE rows[r].pos \in Nat /\ rows[r].rev \in Nat
    BY <1>1 DEF RowsTyped
  <2>3. ASSUME NEW r \in {rs[i] : i \in new}, r \notin DOMAIN g.rows
        PROVE  rows[r].pos \in Nat /\ rows[r].rev \in Nat
    <3>. DEFINE n == Cardinality({i \in new : i <= at(r)})
    <3>1. n \in Nat \ {0}
      BY <1>3
    <3>2. rows[r] = Row(last + n, 1)
      BY <2>3
    <3>. HIDE DEF n
    <3>3. rows[r].pos = last + n /\ rows[r].rev = 1
      BY <3>2 DEF Row
    <3>. QED  BY <1>2, <3>1, <3>3
  <2>. HIDE DEF new, at
  <2>. QED  BY <2>1, <2>2, <2>3 DEF RowsTyped
<1>5. WithMembers(g, rs) = IF new = {} THEN g ELSE [Bumped(g) EXCEPT !.rows = rows]
  <2>1. Bumped(g).rows = g.rows
    BY DEF Bumped, Collected
  <2>. QED  BY <2>1 DEF WithMembers, last
<1>. HIDE DEF new, rows
<1>. QED  BY <1>4, <1>5, BumpedIsCollected

\* The members are put in another order: each has its place in it.
LEMMA ReorderedIsCollected ==
  ASSUME NEW g, Collected(g), NEW rs, DOMAIN rs \subseteq Nat \ {0}, ToSet(rs) = DOMAIN g.rows
  PROVE  Collected(Reordered(g, rs))
<1>. DEFINE place(r) == (CHOOSE i \in DOMAIN rs : rs[i] = r) - 1
            moved == {r \in DOMAIN g.rows : g.rows[r].pos # place(r)}
            rows == [r \in DOMAIN g.rows |->
                       IF r \in moved THEN Row(place(r), g.rows[r].rev + 1) ELSE g.rows[r]]
<1>1. RowsTyped(g.rows)
  BY DEF Collected
<1>2. \A r \in DOMAIN g.rows : place(r) \in Nat
  <2>1. \A r \in DOMAIN g.rows : \E i \in DOMAIN rs : rs[i] = r
    BY DEF ToSet
  <2>. QED  BY <2>1
<1>3. RowsTyped(rows)
  <2>. HIDE DEF place
  <2>. QED  BY <1>1, <1>2 DEF RowsTyped, Row
<1>4. Reordered(g, rs) = IF moved = {} THEN g ELSE [Bumped(g) EXCEPT !.rows = rows]
  <2>1. Bumped(g).rows = g.rows
    BY DEF Bumped, Collected
  <2>. QED  BY <2>1 DEF Reordered
<1>. HIDE DEF rows, moved
<1>. QED  BY <1>3, <1>4, BumpedIsCollected

\* A command that is carried out leaves collections, of ids that were given.
LEMMA ResultIsTyped ==
  ASSUME NEW s, Library(s), NEW op, NEW given, Says(op, given), Refusal(s, op) = None, Live(s) \subseteq given
  PROVE  Library(Result(s, op)) /\ Live(Result(s, op)) \subseteq given
<1>1. op.kind \in Kinds
  BY DEF Says
<1>. DEFINE With(c, g) == [s EXCEPT ![c] = g]
<1>2. ASSUME NEW c \in Cid, NEW g, g # None => Collected(g) /\ c \in given
      PROVE  Library(With(c, g)) /\ Live(With(c, g)) \subseteq given
  BY <1>2 DEF Library, Live
<1>. HIDE DEF With
<1>3. CASE op.kind = "create"
  <2>. DEFINE g == [name |-> op.name, mode |-> op.mode, rev |-> 1, rows |-> [r \in ToSet(op.recs) |-> Row(0, 1)]]
  <2>1. Result(s, op) = With(op.c, g)
    BY <1>3 DEF Result, With
  <2>2. op.c \in Cid /\ op.c \in given /\ op.name \in Name /\ op.mode \in Modes
        /\ \A i \in DOMAIN op.recs : op.recs[i] \in Rec
    BY <1>3 DEF Says
  <2>3. RowsTyped([r \in ToSet(op.recs) |-> Row(0, 1)])
    BY <2>2 DEF RowsTyped, Row, ToSet
  <2>4. Collected(g)
    BY <2>2, <2>3 DEF Collected
  <2>. HIDE DEF g
  <2>. QED  BY <1>2, <2>1, <2>2, <2>4
<1>4. ASSUME op.kind \in {"update", "delete", "add", "reorder"}
      PROVE  op.c \in Cid /\ s[op.c] # None /\ Collected(s[op.c]) /\ op.c \in given
  <2>1. op.c \in Cid
    BY <1>4 DEF Says
  <2>2. s[op.c] # None
    BY <1>4, CenterAssumption DEF Refusal
  <2>. QED  BY <2>1, <2>2 DEF Library, Live
<1>5. CASE op.kind = "update"
  <2>. DEFINE b == Bumped(s[op.c])
              g == [b EXCEPT !.name = op.name, !.mode = op.mode]
  <2>1. Result(s, op) \in {s, With(op.c, g)}
    BY <1>5 DEF Result, With
  <2>2. op.name \in Name /\ op.mode \in Modes
    BY <1>5 DEF Says
  <2>3. Collected(b)
    BY <1>4, <1>5, BumpedIsCollected DEF Collected
  <2>. HIDE DEF b
  <2>4. /\ DOMAIN g = DOMAIN b /\ g.name = op.name /\ g.mode = op.mode /\ g.rev = b.rev /\ g.rows = b.rows
    BY <2>3 DEF Collected
  <2>. HIDE DEF g
  <2>5. Collected(g)
    BY <2>2, <2>3, <2>4 DEF Collected
  <2>. QED  BY <1>2, <1>4, <1>5, <2>1, <2>5
<1>6. CASE op.kind = "delete"
  <2>1. Result(s, op) = With(op.c, None)
    BY <1>6 DEF Result, With
  <2>. QED  BY <1>2, <1>4, <1>6, <2>1
<1>7. CASE op.kind = "add"
  <2>1. Result(s, op) = With(op.c, WithMembers(s[op.c], op.recs))
    BY <1>7 DEF Result, With
  <2>2. Collected(WithMembers(s[op.c], op.recs))
    BY <1>4, <1>7, WithMembersIsCollected DEF Says
  <2>. QED  BY <1>2, <1>4, <1>7, <2>1, <2>2
<1>8. CASE op.kind = "reorder"
  <2>1. Result(s, op) = With(op.c, Reordered(s[op.c], op.recs))
    BY <1>8 DEF Result, With
  <2>2. ToSet(op.recs) = Members(s, op.c)
    BY <1>8, CenterAssumption DEF Refusal
  <2>3. Members(s, op.c) = DOMAIN s[op.c].rows
    BY <1>4, <1>8 DEF Members, Live
  <2>4. Collected(Reordered(s[op.c], op.recs))
    BY <1>4, <1>8, <2>2, <2>3, ReorderedIsCollected DEF Says
  <2>. QED  BY <1>2, <1>4, <1>8, <2>1, <2>4
<1>9. ASSUME NEW c, NEW r \in Members(s, c)
      PROVE  c \in Cid /\ c \in given /\ Collected(Without(s[c], r))
  <2>1. c \in Live(s)
    BY <1>9 DEF Members
  <2>2. c \in Cid /\ Collected(s[c])
    BY <2>1 DEF Live, Library
  <2>. QED  BY <2>1, <2>2, WithoutIsCollected
<1>10. CASE op.kind = "remove"
  <2>1. Result(s, op) = With(op.c, Without(s[op.c], op.recs[1]))
    BY <1>10 DEF Result, With
  <2>2. op.recs[1] \in Members(s, op.c)
    BY <1>10, CenterAssumption DEF Refusal
  <2>. QED  BY <1>2, <1>9, <2>1, <2>2
<1>11. CASE op.kind = "detach"
  <2>1. Result(s, op) = [c \in Cid |-> IF op.recs[1] \in Members(s, c) THEN Without(s[c], op.recs[1]) ELSE s[c]]
    BY <1>11 DEF Result
  <2>. QED  BY <1>9, <2>1 DEF Library, Live
<1>. QED  BY <1>1, <1>3, <1>5, <1>6, <1>7, <1>8, <1>10, <1>11 DEF Kinds

(* The steps of the centre.                                                *)
LEMMA OrderIsNumbered ==
  ASSUME NEW rows, DOMAIN rows \subseteq Rec
  PROVE  DOMAIN Order(rows) \subseteq Nat \ {0}
<1>1. IsFiniteSet(DOMAIN rows)
  BY CenterAssumption, FS_Subset
<1>2. Cardinality(DOMAIN rows) \in Nat
  BY <1>1, FS_CardinalityType
<1>3. DOMAIN Order(rows) = 1..Cardinality(DOMAIN rows)
  BY DEF Order
<1>. QED  BY <1>2, <1>3

\* What a command says does not change while it runs.
LEMMA CommandGoesOn ==
  ASSUME NEW op, NEW given, NEW more, given \subseteq more, Says(op, given),
         NEW new, Fields \subseteq DOMAIN new, new.kind = op.kind, new.c = op.c, new.name = op.name,
         new.mode = op.mode, new.recs = op.recs
  PROVE  Says(new, more)
BY DEF Says

\* A command says what it is called with.
LEMMA CalledSays ==
  ASSUME NEW kind \in Kinds, NEW c, NEW v, NEW name, NEW mode, NEW rs, NEW from, NEW given,
         kind # "detach" => c \in Cid,
         kind = "create" => c \in given,
         kind \in {"create", "update"} => name \in Name /\ mode \in Modes,
         DOMAIN rs \subseteq Nat \ {0},
         kind \in {"create", "add"} => DOMAIN rs \subseteq {1} /\ \A i \in DOMAIN rs : rs[i] \in Rec
  PROVE  Ordered(Op(kind, c, v, name, mode, rs, from), given)
<1>. DEFINE op == Op(kind, c, v, name, mode, rs, from)
<1>1. /\ Fields \subseteq DOMAIN op /\ op.kind = kind /\ op.c = c /\ op.name = name /\ op.mode = mode
      /\ op.recs = rs /\ op.stage = "called"
  BY DEF Op, Fields
<1>. HIDE DEF op
<1>2. Ordered(op, given)
  BY <1>1 DEF Ordered, Says
<1>. QED  BY <1>2 DEF op

\* A step that leaves the commands there were.
LEMMA CommandsStay ==
  ASSUME CentreTyped, IsSeq(ops'), IsSeq(saving'), used \subseteq used',
         \A j \in DOMAIN ops' : Ordered(ops'[j], used) \/ Ordered(ops'[j], used'),
         \A j \in DOMAIN saving' : Ordered(saving'[j], used) \/ Ordered(saving'[j], used')
  PROVE  Commands'
<1>1. ASSUME NEW op, Ordered(op, used) PROVE Ordered(op, used')
  BY <1>1 DEF Ordered, Says
<1>2. \A j \in DOMAIN ops' : Ordered(ops'[j], used')
  BY <1>1
<1>3. \A j \in DOMAIN saving' : Ordered(saving'[j], used')
  BY <1>1
<1>. QED  BY <1>2, <1>3 DEF Commands, IsSeq

\* What the invariant says of the commands and the libraries.
LEMMA CommandsAre ==
  ASSUME CentreTyped
  PROVE  /\ IsSeq(ops) /\ IsSeq(saving) /\ IsSeq(<<>>) /\ DOMAIN <<>> = {}
         /\ \A i \in DOMAIN ops : Ordered(ops[i], used)
         /\ \A i \in DOMAIN saving : Ordered(saving[i], used)
         /\ Library(db) /\ Library(shown) /\ Live(db) \subseteq used /\ used \subseteq Cid /\ Pages
<1>1. IsSeq(<<>>)
  BY EmptySeq, SeqIsSeq
<1>2. DOMAIN <<>> = {}
  OBVIOUS
<1>. QED  BY <1>1, <1>2 DEF CentreTyped, Commands

\* What is refused says why.
LEMMA RefusalSaysWhy ==
  ASSUME NEW s, NEW op, op.kind \in Kinds
  PROVE  Refusal(s, op) \in {None, "duplicate", "retry", "failed"}
BY DEF Refusal, Kinds

\* A command is refused, carried out, read after and shown.
LEMMA AnswersKeepTyped ==
  ASSUME CentreTyped, Answers
  PROVE  CentreTyped'
<1>0. PICK i \in DOMAIN ops : Refuse(i) \/ Execute(i) \/ Read(i) \/ Show(i)
  BY DEF Answers
<1>1. /\ IsSeq(ops) /\ IsSeq(saving) /\ IsSeq(<<>>) /\ DOMAIN <<>> = {}
      /\ \A j \in DOMAIN ops : Ordered(ops[j], used)
      /\ \A j \in DOMAIN saving : Ordered(saving[j], used)
      /\ Library(db) /\ Library(shown) /\ Live(db) \subseteq used /\ used \subseteq Cid /\ Pages
  BY CommandsAre
<1>2. Says(ops[i], used) /\ ops[i].kind \in Kinds /\ Fields \subseteq DOMAIN ops[i]
  BY <1>1 DEF Ordered, Says
<1>3. CASE Refuse(i)
  <2>1. /\ ops' = RemoveAt(ops, i) /\ saving' \in {saving, <<>>} /\ busy' \in {busy, FALSE}
        /\ notice' \in {"failed", Refusal(db, ops[i])} /\ Refusal(db, ops[i]) # None
        /\ UNCHANGED <<db, used, shown, page, selected, form, back, outside, steps>>
    BY <1>3 DEF Refuse, Ended, screen
  <2>2. notice' \in {"duplicate", "retry", "failed"}
    BY <1>2, <2>1, RefusalSaysWhy
  <2>3. IsSeq(ops') /\ \A j \in DOMAIN ops' : Ordered(ops'[j], used)
    BY <1>1, <2>1, RemoveAtIsSeq
  <2>4. Commands'
    BY <1>1, <2>1, <2>3, CommandsStay
  <2>5. Pages'
    BY <1>1, <2>1, <2>2 DEF Pages
  <2>. QED  BY <1>1, <2>1, <2>4, <2>5 DEF CentreTyped, Library, Live
<1>4. CASE Execute(i)
  <2>. DEFINE x == [ops[i] EXCEPT !.stage = "ran"]
  <2>1. /\ ops' = [ops EXCEPT ![i] = x] /\ Refusal(db, ops[i]) = None /\ db' = Result(db, ops[i])
        /\ UNCHANGED <<used, shown, page, selected, form, back, busy, saving, notice, outside, steps>>
    BY <1>4 DEF Execute, screen
  <2>2. Ordered(x, used)
    <3>1. /\ Fields \subseteq DOMAIN x /\ x.kind = ops[i].kind /\ x.c = ops[i].c /\ x.name = ops[i].name
          /\ x.mode = ops[i].mode /\ x.recs = ops[i].recs /\ x.stage = "ran"
      BY <1>2 DEF Fields
    <3>. HIDE DEF x
    <3>2. Says(x, used)
      BY <1>2, <3>1, CommandGoesOn
    <3>. QED  BY <3>1, <3>2 DEF Ordered
  <2>. HIDE DEF x
  <2>3. IsSeq(ops') /\ \A j \in DOMAIN ops' : Ordered(ops'[j], used)
    BY <1>1, <2>1, <2>2, ExceptIsSeq
  <2>4. Library(db') /\ Live(db') \subseteq used
    BY <1>1, <1>2, <2>1, ResultIsTyped
  <2>5. Commands'
    BY <1>1, <2>1, <2>3, CommandsStay
  <2>6. Pages'
    BY <1>1, <2>1 DEF Pages
  <2>. QED  BY <1>1, <2>1, <2>4, <2>5, <2>6 DEF CentreTyped, Library, Live
<1>5. CASE Read(i)
  <2>. DEFINE x == [ops[i] EXCEPT !.stage = "read", !.read = db]
  <2>1. /\ ops' = [ops EXCEPT ![i] = x]
        /\ outside' = FALSE
        /\ UNCHANGED <<db, used, shown, page, selected, form, back, busy, saving, notice, steps>>
    BY <1>1, <1>5, ExceptIsSeq DEF Read, screen
  <2>2. Ordered(x, used)
    <3>1. /\ Fields \subseteq DOMAIN x /\ x.kind = ops[i].kind /\ x.c = ops[i].c /\ x.name = ops[i].name
          /\ x.mode = ops[i].mode /\ x.recs = ops[i].recs /\ x.read = db
      BY <1>2 DEF Fields
    <3>. HIDE DEF x
    <3>2. Says(x, used)
      BY <1>2, <3>1, CommandGoesOn
    <3>. QED  BY <1>1, <3>1, <3>2 DEF Ordered
  <2>. HIDE DEF x
  <2>3. IsSeq(ops') /\ \A j \in DOMAIN ops' : Ordered(ops'[j], used)
    BY <1>1, <2>1, <2>2, ExceptIsSeq
  <2>4. Commands'
    BY <1>1, <2>1, <2>3, CommandsStay
  <2>5. Pages'
    BY <1>1, <2>1 DEF Pages
  <2>. QED  BY <1>1, <2>1, <2>4, <2>5 DEF CentreTyped, Library, Live
<1>6. CASE Show(i)
  <2>. DEFINE now == ops[i].read
              wanted == IF ops[i].kind = "create" /\ ops[i].from = "center" THEN ops[i].c ELSE selected
  <2>1. /\ ops' = RemoveAt(ops, i) /\ ops[i].stage = "read" /\ shown' = now
        /\ selected' = IF wanted = None \/ wanted \in Live(now) THEN wanted
                       ELSE IF Live(now) = {} THEN None ELSE CHOOSE c \in Live(now) : TRUE
        /\ notice' \in {notice, "done"} /\ busy' \in {busy, FALSE}
        /\ UNCHANGED <<db, used, page, form, back, saving, outside, steps>>
    BY <1>6 DEF Show, Ended
  <2>2. Library(now)
    BY <1>1, <2>1 DEF Ordered
  <2>3. selected' \in Cid \cup {None}
    <3>1. Live(now) \subseteq Cid
      BY DEF Live
    <3>2. wanted \in Cid \cup {None}
      BY <1>1, <1>2 DEF Pages, Says
    <3>. HIDE DEF wanted, now
    <3>. QED  BY <2>1, <3>1, <3>2
  <2>4. IsSeq(ops') /\ \A j \in DOMAIN ops' : Ordered(ops'[j], used)
    BY <1>1, <2>1, RemoveAtIsSeq
  <2>5. Commands'
    BY <1>1, <2>1, <2>4, CommandsStay
  <2>6. Pages'
    BY <1>1, <2>1, <2>3 DEF Pages
  <2>. QED  BY <1>1, <2>1, <2>2, <2>5, <2>6 DEF CentreTyped, Library, Live
<1>. QED  BY <1>0, <1>3, <1>4, <1>5, <1>6

\* A command that is called.
LEMMA CallKeepsTyped ==
  ASSUME CentreTyped, NEW op, Call(op), Ordered(op, used'), op.kind = "create" => op.c \in Cid,
         busy' \in BOOLEAN, saving' = saving
  PROVE  CentreTyped'
<1>1. /\ IsSeq(ops) /\ IsSeq(saving)
      /\ \A j \in DOMAIN ops : Ordered(ops[j], used)
      /\ \A j \in DOMAIN saving : Ordered(saving[j], used)
      /\ Library(db) /\ Library(shown) /\ Live(db) \subseteq used /\ used \subseteq Cid /\ Pages
  BY CommandsAre
<1>2. /\ ops' = Append(ops, op) /\ steps < MaxSteps /\ steps' = steps + 1
      /\ used' = IF op.kind = "create" THEN used \cup {op.c} ELSE used
      /\ UNCHANGED <<db, shown, page, selected, form, back, notice, outside>>
  BY DEF Call, Send, screen
<1>3. IsSeq(ops') /\ \A j \in DOMAIN ops' : Ordered(ops'[j], used) \/ Ordered(ops'[j], used')
  BY <1>1, <1>2, AppendIsSeq
<1>4. used \subseteq used' /\ used' \subseteq Cid
  BY <1>1, <1>2
<1>5. Commands'
  BY <1>1, <1>3, <1>4, CommandsStay
<1>6. Pages'
  BY <1>1, <1>2, CenterAssumption DEF Pages
<1>. QED  BY <1>1, <1>2, <1>4, <1>5, <1>6 DEF CentreTyped, Library, Live

\* The buttons of the centre, and the library's deletion of a record.
LEMMA CallsKeepTyped ==
  ASSUME CentreTyped, \/ OnSelected
                      \/ \E c \in Cid : \E n \in Name : Create(c, n)
                      \/ \E r \in Rec : DeleteRecord(r)
  PROVE  CentreTyped'
<1>1. ASSUME NEW kind \in Kinds, NEW c, NEW v, NEW name, NEW mode, NEW rs,
             CenterCall(Op(kind, c, v, name, mode, rs, "center")), c \in Cid,
             kind \in {"create", "update"} => name \in Name /\ mode \in Modes,
             DOMAIN rs \subseteq Nat \ {0},
             kind \in {"create", "add"} => DOMAIN rs \subseteq {1} /\ \A i \in DOMAIN rs : rs[i] \in Rec
      PROVE  CentreTyped'
  <2>. DEFINE op == Op(kind, c, v, name, mode, rs, "center")
  <2>1. op.kind = kind /\ op.c = c
    BY DEF Op
  <2>2. Call(op) /\ busy' = TRUE /\ saving' = saving
    BY <1>1 DEF CenterCall
  <2>3. kind = "create" => c \in used'
    BY <2>1, <2>2 DEF Call
  <2>4. Ordered(op, used')
    BY <1>1, <2>3, CalledSays
  <2>. HIDE DEF op
  <2>. QED  BY <1>1, <2>1, <2>2, <2>4, CallKeepsTyped
<1>2. DOMAIN <<>> = {} /\ \A r : DOMAIN <<r>> = {1} /\ <<r>>[1] = r
  OBVIOUS
<1>3. ASSUME NEW r \in Rec, DeleteRecord(r)
      PROVE  CentreTyped'
  <2>. DEFINE op == Op("detach", None, 0, None, None, <<r>>, "library")
  <2>1. op.kind = "detach"
    BY DEF Op
  <2>2. Call(op) /\ busy' = busy /\ saving' = saving
    BY <1>3 DEF DeleteRecord
  <2>3. Ordered(op, used')
    BY <1>2, CalledSays DEF Kinds
  <2>4. busy' \in BOOLEAN
    BY <2>2, CommandsAre DEF Pages
  <2>. HIDE DEF op
  <2>. QED  BY <2>1, <2>2, <2>3, <2>4, CallKeepsTyped
<1>4. ASSUME NEW c \in Cid, NEW n \in Name, Create(c, n)
      PROVE  CentreTyped'
  <2>1. CenterCall(Op("create", c, 0, n, "manual", <<>>, "center"))
    BY <1>4 DEF Create
  <2>. QED  BY <1>1, <1>2, <2>1 DEF Kinds, Modes
<1>5. CASE OnSelected
  <2>1. /\ selected \in Cid /\ Collected(shown[selected])
    BY <1>5, CommandsAre DEF OnSelected, Live, Library
  <2>2. ASSUME NEW n \in Name, SaveEdit(n) PROVE CentreTyped'
    <3>1. CenterCall(Op("update", selected, shown[selected].rev, n, shown[selected].mode, <<>>, "center"))
      BY <2>2 DEF SaveEdit
    <3>. QED  BY <1>1, <1>2, <2>1, <3>1 DEF Kinds, Collected
  <2>3. CASE SetOrderMode
    <3>1. CenterCall(Op("update", selected, shown[selected].rev, shown[selected].name, "chronological", <<>>, "center"))
      BY <2>3 DEF SetOrderMode
    <3>. QED  BY <1>1, <1>2, <2>1, <3>1 DEF Kinds, Collected, Modes
  <2>4. CASE DeleteSelected
    <3>1. CenterCall(Op("delete", selected, shown[selected].rev, None, None, <<>>, "center"))
      BY <2>4 DEF DeleteSelected
    <3>. QED  BY <1>1, <1>2, <2>1, <3>1 DEF Kinds
  <2>5. ASSUME NEW r \in Rec, AddSelectedRecords(r) PROVE CentreTyped'
    <3>1. CenterCall(Op("add", selected, shown[selected].rev, None, None, <<r>>, "center"))
      BY <2>5 DEF AddSelectedRecords
    <3>. QED  BY <1>1, <1>2, <2>1, <3>1 DEF Kinds
  <2>6. ASSUME NEW r \in Rec, RemoveMember(r) PROVE CentreTyped'
    <3>1. CenterCall(Op("remove", selected, shown[selected].rows[r].rev, None, None, <<r>>, "center"))
      BY <2>6 DEF RemoveMember
    <3>. QED  BY <1>1, <1>2, <2>1, <3>1 DEF Kinds
  <2>7. ASSUME NEW i, Move(i) PROVE CentreTyped'
    <3>. DEFINE now == Order(shown[selected].rows)
                rs == [now EXCEPT ![i] = now[i + 1], ![i + 1] = now[i]]
    <3>1. CenterCall(Op("reorder", selected, shown[selected].rev, None, None, rs, "center"))
      BY <2>7 DEF Move
    <3>2. DOMAIN rs = DOMAIN now
      OBVIOUS
    <3>3. DOMAIN now \subseteq Nat \ {0}
      BY <2>1, OrderIsNumbered DEF Collected, RowsTyped
    <3>. HIDE DEF rs, now
    <3>. QED  BY <1>1, <2>1, <3>1, <3>2, <3>3 DEF Kinds
  <2>. QED  BY <1>5, <2>2, <2>3, <2>4, <2>5, <2>6, <2>7 DEF OnSelected
<1>. QED  BY <1>3, <1>4, <1>5

\* The pages: the centre and the form are opened and left.
LEMMA LeaveKeepsCommands ==
  ASSUME CentreTyped, NEW next, Leave(next)
  PROVE  Commands'
<1>. DEFINE new(i) == IF ops[i].from = "center" THEN [ops[i] EXCEPT !.from = "gone"] ELSE ops[i]
            S == {new(i) : i \in DOMAIN ops}
<1>1. /\ IsSeq(ops) /\ IsSeq(saving)
      /\ \A j \in DOMAIN ops : Ordered(ops[j], used)
      /\ \A j \in DOMAIN saving : Ordered(saving[j], used)
  BY CommandsAre
<1>2. /\ ops' = [i \in 1..Len(ops) |-> new(i)] /\ UNCHANGED <<saving, used>>
      /\ Len(ops) \in Nat /\ DOMAIN ops = 1..Len(ops)
  BY <1>1, SeqIsSeq DEF Leave, IsSeq
<1>3. ASSUME NEW i \in DOMAIN ops
      PROVE  new(i) \in S /\ Ordered(new(i), used)
  <2>1. new(i) \in S
    OBVIOUS
  <2>2. Ordered(ops[i], used) /\ Says(ops[i], used) /\ Fields \subseteq DOMAIN ops[i]
    BY <1>1 DEF Ordered, Says
  <2>3. CASE ops[i].from # "center"
    BY <2>1, <2>2, <2>3
  <2>4. CASE ops[i].from = "center"
    <3>. DEFINE x == [ops[i] EXCEPT !.from = "gone"]
    <3>1. /\ Fields \subseteq DOMAIN x /\ x.kind = ops[i].kind /\ x.c = ops[i].c /\ x.name = ops[i].name
          /\ x.mode = ops[i].mode /\ x.recs = ops[i].recs /\ x.read = ops[i].read /\ x.stage = ops[i].stage
      BY <2>2 DEF Fields
    <3>2. new(i) = x
      BY <2>4
    <3>. HIDE DEF x, new, S
    <3>3. Says(x, used)
      BY <2>2, <3>1, CommandGoesOn
    <3>. QED  BY <2>1, <2>2, <3>1, <3>2, <3>3 DEF Ordered
  <2>. QED  BY <2>3, <2>4
<1>. HIDE DEF new, S
<1>4. ops' \in Seq(S)
  BY <1>2, <1>3, IsASeq
<1>5. IsSeq(ops')
  BY <1>4, SeqIsSeq
<1>6. \A j \in DOMAIN ops' : Ordered(ops'[j], used)
  BY <1>2, <1>3
<1>. QED  BY <1>1, <1>2, <1>5, <1>6, CommandsStay

\* The pages but for what they call.
LEMMA PagesKeepTyped ==
  ASSUME CentreTyped, \/ CloseCenter \/ CloseForm
                      \/ \E c \in Cid : Select(c) \/ Tick(c)
                      \/ \E c \in Cid \cup {None} : OpenCenter(c)
                      \/ \E r \in Rec : EditRecord(r)
  PROVE  CentreTyped'
<1>1. /\ IsSeq(ops) /\ IsSeq(saving) /\ Library(db) /\ Library(shown) /\ Live(db) \subseteq used
      /\ used \subseteq Cid /\ Pages /\ Commands /\ None \notin Form
  BY CommandsAre, CenterAssumption DEF CentreTyped
<1>2. Live(shown) \subseteq Cid
  BY DEF Live
<1>. SUFFICES Commands' /\ Pages' /\ UNCHANGED <<db, used, shown>>
  BY <1>1 DEF CentreTyped, Library, Live
<1>3. CASE CloseCenter
  <2>1. /\ page = "center" /\ page' = "library" /\ busy' = FALSE /\ Leave("library")
        /\ UNCHANGED <<db, used, shown, selected, saving, notice, outside, steps, form, back>>
    BY <1>3 DEF CloseCenter, Leave
  <2>2. Commands'
    BY <2>1, LeaveKeepsCommands
  <2>. QED  BY <1>1, <2>1, <2>2 DEF Pages
<1>4. ASSUME NEW r \in Rec, EditRecord(r)
      PROVE  Commands' /\ Pages' /\ UNCHANGED <<db, used, shown>>
  <2>1. /\ page' = "form" /\ busy' = FALSE /\ Leave("form") /\ back' \in BOOLEAN
        /\ form' = [rec |-> r, chosen |-> Ticked(r), off |-> {}, sent |-> FALSE]
        /\ UNCHANGED <<db, used, shown, selected, saving, notice, outside, steps>>
    BY <1>4 DEF EditRecord, Leave
  <2>2. form' \in Form
    <3>1. Ticked(r) \in SUBSET Cid
      BY DEF Ticked
    <3>. QED  BY <2>1, <3>1 DEF Form
  <2>3. form' # None
    BY <1>1, <2>2
  <2>4. Commands'
    BY <2>1, LeaveKeepsCommands
  <2>. QED  BY <1>1, <2>1, <2>2, <2>3, <2>4 DEF Pages
<1>5. CASE CloseForm
  <2>1. /\ page' \in {"center", "library"} /\ form' = None /\ back' = FALSE
        /\ selected' \in {selected, None} \cup Live(shown)
        /\ UNCHANGED <<db, used, shown, ops, busy, saving, notice, outside, steps>>
    BY <1>5 DEF CloseForm
  <2>. QED  BY <1>1, <1>2, <2>1 DEF Pages, Commands, IsSeq
<1>6. ASSUME NEW c \in Cid, Select(c)
      PROVE  Commands' /\ Pages' /\ UNCHANGED <<db, used, shown>>
  <2>1. /\ selected' = c
        /\ UNCHANGED <<db, used, shown, ops, page, busy, form, back, saving, notice, outside, steps>>
    BY <1>6 DEF Select
  <2>. QED  BY <1>1, <2>1 DEF Pages, Commands, IsSeq
<1>7. ASSUME NEW c \in Cid, Tick(c)
      PROVE  Commands' /\ Pages' /\ UNCHANGED <<db, used, shown>>
  <2>1. /\ page = "form"
        /\ form' = [form EXCEPT !.chosen = SymDiff(@, {c}),
                                !.off = IF c \in form.chosen THEN @ \cup {c} ELSE @ \ {c}]
        /\ UNCHANGED <<db, used, shown, ops, page, selected, busy, back, saving, notice, outside, steps>>
    BY <1>7 DEF Tick
  <2>2. form \in Form
    BY <1>1, <2>1 DEF Pages
  <2>3. form' \in Form
    BY <2>1, <2>2 DEF Form, SymDiff
  <2>4. form' # None
    BY <1>1, <2>3
  <2>. QED  BY <1>1, <2>1, <2>3, <2>4 DEF Pages, Commands, IsSeq
<1>8. ASSUME NEW c \in Cid \cup {None}, OpenCenter(c)
      PROVE  Commands' /\ Pages' /\ UNCHANGED <<db, used, shown>>
  <2>1. /\ page = "library" /\ page' = "center" /\ selected' = c
        /\ UNCHANGED <<db, used, shown, ops, busy, form, back, saving, notice, outside, steps>>
    BY <1>8 DEF OpenCenter
  <2>. QED  BY <1>1, <2>1 DEF Pages, Commands, IsSeq
<1>. QED  BY <1>3, <1>4, <1>5, <1>6, <1>7, <1>8

\* A pass writes the tables.
LEMMA SyncKeepsTyped ==
  ASSUME CentreTyped, NEW c \in Cid, Sync(c)
  PROVE  CentreTyped'
<1>1. /\ IsSeq(ops) /\ IsSeq(saving) /\ Library(db) /\ Library(shown) /\ Live(db) \subseteq used
      /\ used \subseteq Cid /\ Pages
      /\ \A j \in DOMAIN ops : Ordered(ops[j], used)
      /\ \A j \in DOMAIN saving : Ordered(saving[j], used)
  BY CommandsAre
<1>2. ASSUME NEW col, Synced(c, col), col # None => Collected(col)
      PROVE  CentreTyped'
  <2>1. /\ steps < MaxSteps /\ steps' = steps + 1 /\ db' = [db EXCEPT ![c] = col]
        /\ outside' = TRUE /\ used' = used \cup {c}
        /\ UNCHANGED <<shown, ops, page, selected, form, back, busy, saving, notice>>
    BY <1>2 DEF Synced, screen
  <2>2. Library(db') /\ Live(db') \subseteq used'
    BY <1>1, <1>2, <2>1 DEF Library, Live
  <2>3. Commands'
    BY <1>1, <2>1, CommandsStay
  <2>4. Pages'
    BY <1>1, <2>1, CenterAssumption DEF Pages
  <2>. QED  BY <1>1, <2>1, <2>2, <2>3, <2>4 DEF CentreTyped, Library, Live
<1>. DEFINE v == IF db[c] = None THEN 1 ELSE IF SyncBumps THEN db[c].rev + 1 ELSE db[c].rev
            rows(S) == [r \in S |-> IF r \in Members(db, c) THEN db[c].rows[r] ELSE Row(0, 1)]
            col(n, S) == [name |-> n, mode |-> "manual", rev |-> v, rows |-> rows(S)]
<1>3. v \in Nat
  <2>1. db[c] = None \/ Collected(db[c])
    BY <1>1 DEF Library
  <2>. QED  BY <2>1 DEF Collected
<1>4. ASSUME NEW S \in SUBSET Rec
      PROVE  RowsTyped(rows(S))
  <2>1. ASSUME NEW r \in S, r \in Members(db, c)
        PROVE  db[c].rows[r].pos \in Nat /\ db[c].rows[r].rev \in Nat
    <3>1. c \in Live(db) /\ r \in DOMAIN db[c].rows
      BY <2>1 DEF Members
    <3>2. Collected(db[c])
      BY <1>1, <3>1 DEF Library, Live
    <3>. QED  BY <3>1, <3>2 DEF Collected, RowsTyped
  <2>. QED  BY <2>1 DEF RowsTyped, Row
<1>5. ASSUME NEW n \in Name, NEW S \in SUBSET Rec
      PROVE  Collected(col(n, S))
  <2>. HIDE DEF v, rows
  <2>. QED  BY <1>3, <1>4 DEF Collected, Modes
<1>6. \/ Synced(c, None)
      \/ \E n \in Name, S \in SUBSET Rec : Synced(c, col(n, S))
  BY DEF Sync
<1>. HIDE DEF col
<1>. QED  BY <1>2, <1>5, <1>6

\* The form is sent.
LEMMA SaveFormKeepsTyped ==
  ASSUME CentreTyped, NEW drafts \in Drafts, SaveForm(drafts)
  PROVE  CentreTyped'
<1>. DEFINE r == form.rec
            missing == Ticked(r) \ form.chosen
            added == (form.chosen \ Ticked(r)) \cap Live(shown)
            gone == SetToSeq(missing)
            new == SetToSeq(added)
            removal(c) == [Op("remove", c, shown[c].rows[r].rev, None, None, <<r>>, "form")
                             EXCEPT !.meant = c \in form.off]
            addition(c) == Op("add", c, shown[c].rev, None, None, <<r>>, "form")
            a == [i \in DOMAIN gone |-> removal(gone[i])]
            b == [i \in DOMAIN new |-> addition(new[i])]
            S == {removal(c) : c \in missing} \cup {addition(c) : c \in added} \cup ToSet(drafts)
            given == used \cup {drafts[i].c : i \in DOMAIN drafts}
<1>0. /\ IsSeq(ops) /\ IsSeq(saving) /\ Library(db) /\ Library(shown) /\ Live(db) \subseteq used
      /\ used \subseteq Cid /\ Pages /\ None \notin Form
      /\ \A j \in DOMAIN ops : Ordered(ops[j], used)
  BY CommandsAre, CenterAssumption
<1>1. /\ page = "form"
      /\ form' = [form EXCEPT !.sent = TRUE]
      /\ saving' = a \o b \o drafts
      /\ steps' = steps + Len(saving') /\ steps' <= MaxSteps /\ used' = given
      /\ UNCHANGED <<db, shown, ops, page, selected, back, busy, notice, outside>>
  BY DEF SaveForm
<1>2. form \in Form /\ form # None /\ r \in Rec
  BY <1>0, <1>1 DEF Pages, Form
<1>3. /\ missing \subseteq Cid /\ added \subseteq Cid
      /\ gone \in Seq(missing) /\ new \in Seq(added)
  <2>1. missing \subseteq Cid /\ added \subseteq Cid
    BY DEF Ticked, Live
  <2>2. IsFiniteSet(missing) /\ IsFiniteSet(added)
    BY <2>1, CenterAssumption, FS_Subset
  <2>. HIDE DEF missing, added
  <2>. QED  BY <2>1, <2>2, SetToSeqIsSeq
<1>4. DOMAIN <<r>> = {1} /\ <<r>>[1] = r
  OBVIOUS
<1>5. ASSUME NEW c \in missing
      PROVE  removal(c) \in S /\ Ordered(removal(c), given)
  <2>. DEFINE op == Op("remove", c, shown[c].rows[r].rev, None, None, <<r>>, "form")
              x == [op EXCEPT !.meant = c \in form.off]
  <2>0. removal(c) \in S
    OBVIOUS
  <2>1. c \in Cid
    BY <1>3
  <2>. HIDE DEF S, given, missing, r
  <2>2. Ordered(op, given)
    BY <1>4, <2>1, CalledSays DEF Kinds
  <2>3. op.stage = "called"
    BY DEF Op
  <2>. HIDE DEF op
  <2>4. Says(op, given) /\ Fields \subseteq DOMAIN op
    BY <2>2 DEF Ordered, Says
  <2>5. /\ Fields \subseteq DOMAIN x /\ x.kind = op.kind /\ x.c = op.c /\ x.name = op.name
        /\ x.mode = op.mode /\ x.recs = op.recs /\ x.stage = "called"
    BY <2>3, <2>4 DEF Fields
  <2>. HIDE DEF x
  <2>6. Says(x, given)
    BY <2>4, <2>5, CommandGoesOn
  <2>7. Ordered(x, given)
    BY <2>5, <2>6 DEF Ordered
  <2>. QED  BY <2>0, <2>7 DEF x, op
<1>6. ASSUME NEW c \in added
      PROVE  addition(c) \in S /\ Ordered(addition(c), given)
  <2>0. addition(c) \in S
    OBVIOUS
  <2>1. c \in Cid
    BY <1>3
  <2>. HIDE DEF S, given, added, r
  <2>2. Ordered(Op("add", c, shown[c].rev, None, None, <<r>>, "form"), given)
    BY <1>2, <1>4, <2>1, CalledSays DEF Kinds
  <2>. QED  BY <2>0, <2>2
<1>7. /\ drafts \in Seq(S) /\ given \subseteq Cid /\ used \subseteq given
      /\ \A op \in ToSet(drafts) : Ordered(op, given)
  <2>1. CASE drafts = <<>>
    <3>1. DOMAIN drafts = {} /\ ToSet(drafts) = {}
      BY <2>1 DEF ToSet
    <3>. HIDE DEF S
    <3>. QED  BY <1>0, <2>1, <3>1
  <2>2. ASSUME NEW c \in Cid, NEW n \in Name, drafts = <<Op("create", c, 0, n, "manual", <<r>>, "form")>>
        PROVE  /\ drafts \in Seq(S) /\ given \subseteq Cid /\ used \subseteq given
               /\ \A op \in ToSet(drafts) : Ordered(op, given)
    <3>. DEFINE op == Op("create", c, 0, n, "manual", <<r>>, "form")
    <3>1. op.c = c
      BY DEF Op
    <3>2. drafts = <<op>>
      BY <2>2
    <3>. HIDE DEF op
    <3>3. DOMAIN drafts = {1} /\ drafts[1] = op
      BY <3>2
    <3>4. ToSet(drafts) = {op} /\ given = used \cup {c}
      BY <3>1, <3>3 DEF ToSet
    <3>5. op \in S
      BY <3>4
    <3>. HIDE DEF S, given, r
    <3>6. drafts \in Seq(S)
      BY <3>2, <3>5
    <3>7. Ordered(op, given)
      BY <1>2, <1>4, <3>4, CalledSays DEF Kinds, Modes, op
    <3>. QED  BY <1>0, <3>4, <3>6, <3>7
  <2>3. \/ drafts = <<>>
        \/ \E c \in Cid, n \in Name : drafts = <<Op("create", c, 0, n, "manual", <<r>>, "form")>>
    BY <1>2 DEF Drafts
  <2>. HIDE DEF S, given, r
  <2>. QED  BY <2>1, <2>2, <2>3
<1>8. a \in Seq(S)
  <2>1. \A i \in DOMAIN gone : gone[i] \in missing
    BY <1>3
  <2>2. DOMAIN gone = 1..Len(gone) /\ Len(gone) \in Nat
    BY <1>3
  <2>. HIDE DEF gone, missing, removal, S
  <2>3. \A i \in 1..Len(gone) : removal(gone[i]) \in S
    BY <1>5, <2>1, <2>2
  <2>. QED  BY <2>2, <2>3, IsASeq
<1>9. b \in Seq(S)
  <2>1. \A i \in DOMAIN new : new[i] \in added
    BY <1>3
  <2>2. DOMAIN new = 1..Len(new) /\ Len(new) \in Nat
    BY <1>3
  <2>. HIDE DEF new, added, addition, S
  <2>3. \A i \in 1..Len(new) : addition(new[i]) \in S
    BY <1>6, <2>1, <2>2
  <2>. QED  BY <2>2, <2>3, IsASeq
<1>10. \A x \in S : Ordered(x, given)
  <2>. HIDE DEF given, removal, addition, missing, added
  <2>. QED  BY <1>5, <1>6, <1>7
<1>. HIDE DEF a, b, S, given
<1>11. saving' \in Seq(S)
  BY <1>1, <1>7, <1>8, <1>9, ConcatProperties
<1>12. IsSeq(saving') /\ Len(saving') \in Nat /\ \A i \in DOMAIN saving' : Ordered(saving'[i], given)
  BY <1>10, <1>11, SeqIsSeq, ElementOfSeq
<1>13. form' \in Form /\ form' # None
  BY <1>0, <1>1, <1>2 DEF Form
<1>14. Commands'
  BY <1>0, <1>1, <1>7, <1>12, CommandsStay DEF IsSeq
<1>15. Pages'
  BY <1>0, <1>1, <1>2, <1>12, <1>13, CenterAssumption DEF Pages
<1>. QED  BY <1>0, <1>1, <1>7, <1>14, <1>15 DEF CentreTyped, Library, Live

\* The next command of the save is called.
LEMMA SaveNextKeepsTyped ==
  ASSUME CentreTyped, SaveNext
  PROVE  CentreTyped'
<1>1. /\ IsSeq(ops) /\ IsSeq(saving) /\ Library(db) /\ Library(shown) /\ Live(db) \subseteq used
      /\ used \subseteq Cid /\ Pages
      /\ \A j \in DOMAIN ops : Ordered(ops[j], used)
      /\ \A j \in DOMAIN saving : Ordered(saving[j], used)
  BY CommandsAre
<1>2. /\ saving # <<>> /\ ops' = Append(ops, Head(saving)) /\ saving' = Tail(saving)
      /\ UNCHANGED <<db, used, shown, page, selected, form, back, busy, notice, outside, steps>>
  BY DEF SaveNext, Send, screen
<1>3. /\ IsSeq(saving') /\ Head(saving) = saving[1] /\ 1 \in DOMAIN saving
      /\ \A j \in DOMAIN saving' : \E i \in DOMAIN saving : saving'[j] = saving[i]
  BY <1>1, <1>2, TailIsSeq
<1>4. /\ IsSeq(ops')
      /\ \A j \in DOMAIN ops' : ops'[j] = saving[1] \/ \E i \in DOMAIN ops : ops'[j] = ops[i]
  BY <1>1, <1>2, <1>3, AppendIsSeq
<1>5. Commands'
  BY <1>1, <1>2, <1>3, <1>4, CommandsStay
<1>6. Pages'
  BY <1>1, <1>2 DEF Pages
<1>. QED  BY <1>1, <1>2, <1>5, <1>6 DEF CentreTyped, Library, Live

\* Every step of the centre keeps its types.
LEMMA CentreKeepsTyped == CentreTyped /\ [Next]_vars => CentreTyped'
<1>. SUFFICES ASSUME CentreTyped, [Next]_vars PROVE CentreTyped'
  OBVIOUS
<1>1. CASE UNCHANGED vars
  BY <1>1 DEF vars, CentreTyped, Commands, Pages, Library, Live, IsSeq
<1>2. CASE Next
  BY <1>2, AnswersKeepTyped, CallsKeepTyped, PagesKeepTyped, SyncKeepsTyped, SaveFormKeepsTyped,
     SaveNextKeepsTyped DEF Next
<1>. QED  BY <1>1, <1>2

\* They hold at first.
LEMMA CentreBeginsTyped == Init => CentreTyped
<1>. SUFFICES ASSUME Init PROVE CentreTyped
  OBVIOUS
<1>1. PICK c \in Cid : \E n \in Name : \E r \in Rec :
         /\ db = [x \in Cid |-> IF x = c THEN [name |-> n, mode |-> "manual", rev |-> 1,
                                               rows |-> [y \in {r} |-> Row(0, 1)]] ELSE None]
         /\ used = {c}
  BY DEF Init
<1>2. PICK n \in Name, r \in Rec :
         /\ db = [x \in Cid |-> IF x = c THEN [name |-> n, mode |-> "manual", rev |-> 1,
                                               rows |-> [y \in {r} |-> Row(0, 1)]] ELSE None]
         /\ used = {c}
  BY <1>1
<1>. DEFINE g == [name |-> n, mode |-> "manual", rev |-> 1, rows |-> [y \in {r} |-> Row(0, 1)]]
<1>3. RowsTyped([y \in {r} |-> Row(0, 1)])
  BY DEF RowsTyped, Row
<1>4. Collected(g)
  BY <1>3 DEF Collected, Modes
<1>5. db = [x \in Cid |-> IF x = c THEN g ELSE None]
  BY <1>2
<1>. HIDE DEF g
<1>6. Library(db) /\ Live(db) \subseteq used /\ used \subseteq Cid
  BY <1>2, <1>4, <1>5 DEF Library, Live
<1>7. IsSeq(<<>>)
  BY EmptySeq, SeqIsSeq
<1>8. DOMAIN <<>> = {}
  OBVIOUS
<1>9. /\ shown = db /\ ops = <<>> /\ page = "library" /\ selected = None /\ busy = FALSE
      /\ form = None /\ back = FALSE /\ saving = <<>> /\ notice = "none" /\ outside = FALSE /\ steps = 0
  BY DEF Init
<1>10. Commands
  BY <1>7, <1>8, <1>9 DEF Commands
<1>11. Pages
  <2>1. 0 \in 0..MaxSteps
    BY CenterAssumption
  <2>2. busy \in BOOLEAN /\ back \in BOOLEAN /\ outside \in BOOLEAN
    BY <1>9
  <2>3. page # "form"
    BY <1>9
  <2>. QED  BY <1>9, <2>1, <2>2, <2>3 DEF Pages
<1>. QED  BY <1>6, <1>9, <1>10, <1>11 DEF CentreTyped

-----------------------------------------------------------------------------
(*                        The centre as a whole                            *)

\* One component runs, the others keep their state.
LEMMA OneRuns ==
  ASSUME [AllNext]_allVars
  PROVE  /\ part' = part
         /\ part = "centre" => Next \/ UNCHANGED vars
         /\ part = "scan" => Scan!Next \/ UNCHANGED ScanVars
         /\ part = "hasty series" => Hasty!Next \/ UNCHANGED SeriesVars
         /\ part = "series" => Series!Next \/ UNCHANGED SeriesVars
         /\ part = "movies" => Movies!Next \/ UNCHANGED MoviesVars
BY DEF AllNext, allVars

\* A search suggests no record twice and no source that the user dismissed,
\* for a user who waits for a search and for a decision to be written: no
\* record is in two groups while TMDB is asked, and one that is still to be
\* asked about only in the group of its IMDb id.
THEOREM SuggestionsStaySound == AllSpec => []SuggestionsAreSound
<1>. DEFINE Inv == part = "scan" => ScanInv
<1>1. AllInit => Inv
  BY ScanInit DEF AllInit
<1>2. Inv /\ [AllNext]_allVars => Inv'
  <2>1. UNCHANGED ScanVars /\ ScanInv => ScanInv'
    BY DEF ScanVars, ScanInv, PageIsRead, GroupsApart, ItemsApart, Scan!DismissedIsNotSuggested
  <2>. QED
    BY <2>1, OneRuns, ScanInvInductive, CentreAssumption DEF CentreAssumption
<1>3. Inv => SuggestionsAreSound
  BY ScanInit DEF SuggestionsAreSound
<1>. QED
  BY <1>1, <1>2, <1>3, PTL DEF AllSpec

\* Seasons are created in a universe or in the collection that is bound to
\* their show, for a user who does not leave the collection while the page is
\* busy: every look-up and every dialog is about a home of its show, and only
\* a collection that is nobody's home is bound.
THEOREM SeasonsGoHome == AllSpec => []SeasonsGoToTheirSeries
<1>. DEFINE Inv == part = "series" => PatientInv
<1>1. AllInit => Inv
  BY SeriesInits, CentreAssumption DEF AllInit
<1>2. Inv /\ [AllNext]_allVars => Inv'
  <2>1. UNCHANGED SeriesVars /\ PatientInv => PatientInv'
    BY DEF SeriesVars, PatientInv, SeriesTypes, RecordsAndGroups, Dialogs, Selection, MadeAtHome, Home, SeasonsIn
  <2>. QED
    BY <2>1, OneRuns, PatientInvInductive, CentreAssumption DEF CentreAssumption
<1>3. Inv => SeasonsGoToTheirSeries
  BY SeriesInits DEF SeasonsGoToTheirSeries
<1>. QED
  BY <1>1, <1>2, <1>3, PTL DEF AllSpec

\* Completing a series puts no season into a collection that has it, however
\* hasty the user; completing a movie collection creates no record of a movie
\* that a record of the library is, by either of its ids.
THEOREM CompletionsAddOnce == AllSpec => CompletionAddsOnce
<1>. DEFINE Inv == (part = "hasty series" => HastyInv) /\ (part = "movies" => MoviesInv)
            Once == /\ part = "hasty series" => Hasty!AddsOnce
                    /\ part = "movies" => Movies!MovieOnceStep
<1>1. AllInit => Inv
  <2>1. Movies!Init => MoviesInv
    <3>1. DOMAIN Movies!NoCandidates = {}
      BY DEF Movies!NoCandidates
    <3>. QED  BY <3>1 DEF Movies!Init, MoviesInv
  <2>. QED
    BY <2>1, SeriesInits, CentreAssumption DEF AllInit
<1>2. Inv /\ [AllNext]_allVars => Inv'
  <2>1. UNCHANGED SeriesVars /\ HastyInv => HastyInv'
    BY DEF SeriesVars, HastyInv, SeriesTypes, RecordsAndGroups, Dialogs, NoUniverse, SeasonsIn
  <2>2. UNCHANGED MoviesVars /\ MoviesInv => MoviesInv'
    BY DEF MoviesVars, MoviesInv
  <2>. QED
    BY <2>1, <2>2, OneRuns, HastyInvInductive, MoviesInvInductive, CentreAssumption DEF CentreAssumption
<1>3. Inv /\ [AllNext]_allVars => [Once]_allVars
  <2>1. UNCHANGED SeriesVars => Hasty!AddsOnce
    BY DEF SeriesVars, Hasty!AddsOnce
  <2>2. UNCHANGED MoviesVars => Movies!MovieOnceStep
    BY DEF MoviesVars, Movies!MovieOnceStep
  <2>. QED
    BY <2>1, <2>2, OneRuns, CreationAddsOnce, MovieMadeOnce, CentreAssumption DEF CentreAssumption
<1>. QED
  BY <1>1, <1>2, <1>3, PTL DEF AllSpec, CompletionAddsOnce
\* Every component's state has its types: a library, an answer and a command
\* that waits hold collections as they should be, a result of a search comes
\* from a source that is known and has records of the library or a collection
\* to bind, what is under way in a dialog is about what the page shows.
THEOREM CentreIsTyped == AllSpec => []StatesAreTyped
<1>. DEFINE Inv == /\ part = "centre" => CentreTyped
                   /\ part = "scan" => ScanInv /\ ScanTyped
                   /\ part \in {"hasty series", "series"} => SeriesTyped
                   /\ part = "movies" => Movies!TypeOK
<1>1. /\ Scan!ScanAssumption /\ Hasty!SeriesAssumption /\ Series!SeriesAssumption /\ Movies!MovieAssumption
  BY CentreAssumption DEF CentreAssumption
<1>2. AllInit => Inv
  BY <1>1, CentreAssumption, CentreBeginsTyped, ScanInit, ScanBeginsTyped, SeriesBeginsTyped, MoviesBeginTyped DEF AllInit
<1>3. Inv /\ [AllNext]_allVars => Inv'
  <2>. SUFFICES ASSUME Inv, [AllNext]_allVars PROVE Inv'
    OBVIOUS
  <2>1. /\ part' = part
        /\ part = "centre" => Next \/ UNCHANGED vars
        /\ part = "scan" => Scan!Next \/ UNCHANGED ScanVars
        /\ part = "hasty series" => Hasty!Next \/ UNCHANGED SeriesVars
        /\ part = "series" => Series!Next \/ UNCHANGED SeriesVars
        /\ part = "movies" => Movies!Next \/ UNCHANGED MoviesVars
    BY OneRuns
  <2>2. CASE part = "centre"
    BY <2>1, <2>2, CentreKeepsTyped
  <2>3. CASE part = "scan"
    <3>1. UNCHANGED ScanVars => ScanInv' /\ ScanTyped'
      BY <2>3 DEF ScanVars, ScanInv, PageIsRead, GroupsApart, ItemsApart, Scan!DismissedIsNotSuggested,
                  ScanTyped, SearchTyped
    <3>. QED  BY <1>1, <2>1, <2>3, <3>1, ScanInvInductive, ScanKeepsTyped
  <2>4. CASE part \in {"hasty series", "series"}
    <3>1. ASSUME UNCHANGED SeriesVars PROVE SeriesTyped'
      <4>1. SeriesTypes /\ SourcesApart /\ UnderWay /\ DialogIsOffer
        BY <2>4 DEF SeriesTyped
      <4>2. SeriesTypes'
        BY <3>1, <4>1 DEF SeriesVars, SeriesTypes, RecordsAndGroups, Dialogs, SeasonsIn
      <4>3. SourcesApart' /\ UnderWay' /\ DialogIsOffer'
        BY <3>1, <4>1 DEF SeriesVars, SourcesApart, UnderWay, DialogIsOffer
      <4>. QED  BY <4>2, <4>3 DEF SeriesTyped
    <3>2. Series!Next /\ SeriesTyped => Hasty!Next
      BY <1>1, PatientStep DEF SeriesTyped
    <3>. QED  BY <1>1, <2>1, <2>4, <3>1, <3>2, SeriesKeepsTyped
  <2>5. CASE part = "movies"
    <3>1. UNCHANGED MoviesVars => Movies!TypeOK'
      BY <2>5 DEF MoviesVars, Movies!TypeOK, Movies!Live, Movies!OfStatus, Movies!Selectable
    <3>. QED  BY <1>1, <2>1, <2>5, <3>1, MoviesKeepTypes
  <2>. QED  BY <2>1, <2>2, <2>3, <2>4, <2>5
<1>4. Inv => StatesAreTyped
  BY CentreTypeOK, ScanTypeOK, SeriesTypeOK DEF StatesAreTyped, SeriesTyped
<1>. HIDE DEF Inv
<1>. QED
  BY <1>2, <1>3, <1>4, PTL DEF AllSpec
=============================================================================
