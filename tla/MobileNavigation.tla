------------------------- MODULE MobileNavigation --------------------------
(* The pages of the mobile surface and the history of its web view.  A     *)
(* page is an entry of the history; going back is asynchronous, and so are *)
(* the saves and deletions whose answers close pages.                      *)
EXTENDS Integers, Sequences, FiniteSets, SequencesExt

CONSTANTS Id,        \* records
          Tabs,      \* the routes of the bar other than the library
          None,
          MaxDepth,  \* bound on the history
          MaxForms,  \* bound on the forms opened
          Impatient  \* whether pages are left while a command is under way

ASSUME MobileNavigationAssumption ==
  /\ None \notin Id /\ Tabs \cap {"library", "detail", "form"} = {}
  /\ {MaxDepth, MaxForms} \subseteq Nat /\ Impatient \in BOOLEAN

VARIABLES
  stack,    \* the entries of window.history
  pos,      \* the current one
  page,     \* route, detailId and formMode of useMobileNavigation
  pops,     \* calls of history.back() not yet carried out
  form,     \* the mounted form: its number, whether it is dirty, saving, saved,
            \* and has changes that no save has taken
  forms,    \* the number of forms mounted so far
  saves,    \* saves under way, by the number of the form
  deletes,  \* deletions under way
  alive,    \* the records the page has
  asked     \* the user has agreed to leave the form

vars == <<stack, pos, page, pops, form, forms, saves, deletes, alive, asked>>

Entry == [route : {"library", "detail", "form"} \cup Tabs, id : Id \cup {None}]
Root == [route |-> "library", id |-> None]

TypeOK ==
  /\ stack \in Seq(Entry) /\ pos \in 1..Len(stack)
  /\ page \in Entry /\ pops \in 0..2
  /\ form = None \/ form \in [no : 1..MaxForms, dirty : BOOLEAN, saving : BOOLEAN, saved : BOOLEAN, typed : BOOLEAN]
  /\ forms \in 0..MaxForms /\ saves \subseteq 1..MaxForms
  /\ deletes \subseteq Id /\ alive \subseteq Id /\ asked \in BOOLEAN

Shell(e) == IF e.route = "library" THEN "root" ELSE IF e.route \in Tabs THEN "tab" ELSE e.route

\* A form of a record that is gone is replaced by a message.
Mounted(e, live) == e.route = "form" /\ (e.id = None \/ e.id \in live)

(* Deviation: the number of the record stays when the page changes *)
ShowKeepsId(e, live) ==
  /\ page' = [e EXCEPT !.id = IF @ = None THEN page.id ELSE @]
  /\ forms' = forms /\ form' = IF Mounted(e, live) THEN [no |-> 1, dirty |-> FALSE, saving |-> FALSE, saved |-> FALSE, typed |-> FALSE] ELSE None

\* React shows a page: a form that stays keeps its draft, others are new.
Show(e, live) ==
  /\ page' = e
  /\ IF ~Mounted(e, live) THEN form' = None /\ forms' = forms
     ELSE IF form # None /\ Mounted(page, live) /\ page = e THEN UNCHANGED <<form, forms>>
     ELSE /\ forms < MaxForms
          /\ forms' = forms + 1
          /\ form' = [no |-> forms + 1, dirty |-> FALSE, saving |-> FALSE, saved |-> FALSE, typed |-> FALSE]

Push(e) ==
  /\ pos < MaxDepth
  /\ stack' = Append(SubSeq(stack, 1, pos), e)
  /\ pos' = pos + 1
  /\ asked' = FALSE

Replace(e) ==
  /\ stack' = [stack EXCEPT ![pos] = e]
  /\ pos' = pos
  /\ asked' = FALSE

Busy == saves # {} \/ deletes # {}
MayLeave == Impatient \/ ~Busy

\* The user does nothing but press Back in the moment before popstate.
Still == pops = 0

----------------------------------------------------------------------------
(* Moving forward *)

\* navigate: from the library a tab is pushed, anything else is replaced.
Go(route, live) ==
  LET e == [route |-> route, id |-> None] IN
  IF page.route = route
  THEN /\ UNCHANGED <<stack, pos, asked>>
       /\ Show(page, live)
  ELSE /\ IF route # "library" /\ Shell(stack[pos]) = "root" THEN Push(e) ELSE Replace(e)
       /\ Show(e, live)

\* The bar at the bottom, which detail pages and forms lack.
Navigate(route) ==
  /\ Shell(page) \in {"root", "tab"} /\ MayLeave
  /\ Still
  /\ route # page.route
  /\ Go(route, alive)
  /\ UNCHANGED <<pops, saves, deletes, alive>>

NavigateDetail(i) ==
  /\ Still
  /\ page.route = "library" /\ i \in alive /\ MayLeave
  /\ Push([route |-> "detail", id |-> i])
  /\ Show([route |-> "detail", id |-> i], alive)
  /\ UNCHANGED <<pops, saves, deletes, alive>>

\* The button of every tab opens an empty form, a card or the detail page
\* that of a record.
NavigateForm(i) ==
  /\ Still
  /\ IF i = None THEN Shell(page) \in {"root", "tab"}
     ELSE i \in alive /\ (page.route = "library" \/ page = [route |-> "detail", id |-> i])
  /\ MayLeave
  /\ Push([route |-> "form", id |-> i])
  /\ Show([route |-> "form", id |-> i], alive)
  /\ UNCHANGED <<pops, saves, deletes, alive>>

----------------------------------------------------------------------------
(* Going back *)

HistoryBack == pops < 2 /\ pops' = pops + 1

\* popstate: the page follows the location.
Traverse ==
  /\ pops > 0
  /\ pops' = pops - 1
  /\ pos' = IF pos = 1 THEN 1 ELSE pos - 1
  /\ IF pos = 1 THEN UNCHANGED <<page, form, forms>> ELSE Show(stack[pos - 1], alive)
  /\ asked' = FALSE
  /\ UNCHANGED <<stack, saves, deletes, alive>>

MustAsk == form # None /\ form.dirty /\ ~form.saved

\* The Back key and the form's own button: a dirty form asks first, and the
\* library is left for good, to start anew.
Back ==
  /\ MayLeave
  /\ IF page.route = "library"
     THEN /\ stack' = <<Root>> /\ pos' = 1 /\ page' = Root /\ pops' = 0 /\ form' = None
          /\ saves' = {} /\ deletes' = {} /\ asked' = FALSE
          /\ UNCHANGED <<forms, alive>>
     ELSE /\ HistoryBack
          /\ asked' = (asked \/ MustAsk)
          /\ UNCHANGED <<stack, pos, page, form, forms, saves, deletes, alive>>

(* Deviation: only the detail page looks whether its record is there *)
GoneDetail == page.route = "detail" /\ page.id # None /\ page.id \notin alive

\* The effect of MobileLibraryPage, after any rendering.
Gone == page.id # None /\ page.id \notin alive

LeaveGone ==
  /\ Gone
  /\ HistoryBack
  /\ UNCHANGED <<stack, pos, page, form, forms, saves, deletes, alive, asked>>

----------------------------------------------------------------------------
(* Commands *)

Type ==
  /\ Still
  /\ form # None /\ ~form.typed
  /\ Impatient \/ ~form.saving
  /\ form' = [form EXCEPT !.dirty = TRUE, !.typed = TRUE]
  /\ UNCHANGED <<stack, pos, page, pops, forms, saves, deletes, alive, asked>>

Submit ==
  /\ Still
  /\ form # None /\ ~form.saving
  /\ form' = [form EXCEPT !.saving = TRUE, !.typed = FALSE]
  /\ saves' = saves \cup {form.no}
  /\ UNCHANGED <<stack, pos, page, pops, forms, deletes, alive, asked>>

\* submit goes on, whether its form is still there or not.
SaveAnswered(n, ok) ==
  /\ n \in saves
  /\ saves' = saves \ {n}
  /\ form' = IF form = None THEN None
             ELSE IF form.no = n THEN [form EXCEPT !.saving = FALSE, !.saved = ok, !.typed = @ \/ (~ok /\ form.dirty)] ELSE form
  /\ IF ok THEN HistoryBack ELSE pops' = pops
  /\ UNCHANGED <<stack, pos, page, forms, deletes, alive, asked>>

\* From a card's sheet, the detail page or the form.
Delete(i) ==
  /\ Still
  /\ i \in alive \ deletes
  /\ page.route = "library" \/ page.id = i
  /\ deletes' = deletes \cup {i}
  /\ UNCHANGED <<stack, pos, page, pops, form, forms, saves, alive, asked>>

DeleteAnswered(i) ==
  /\ i \in deletes
  /\ deletes' = deletes \ {i}
  /\ alive' = alive \ {i}
  /\ Go("library", alive')
  /\ UNCHANGED <<pops, saves>>

DeleteRefused(i) ==
  /\ i \in deletes
  /\ deletes' = deletes \ {i}
  /\ UNCHANGED <<stack, pos, page, pops, form, forms, saves, alive, asked>>

\* A pass has removed a record, or the deletion comes from the other surface.
Removed(i) ==
  /\ i \in alive
  /\ alive' = alive \ {i}
  /\ Show(page, alive')
  /\ UNCHANGED <<stack, pos, pops, saves, deletes, asked>>

----------------------------------------------------------------------------

Init ==
  /\ stack = <<Root>> /\ pos = 1 /\ page = Root
  /\ pops = 0 /\ form = None /\ forms = 0
  /\ saves = {} /\ deletes = {} /\ alive = Id /\ asked = FALSE

Move == \/ \E t \in Tabs \cup {"library"} : Navigate(t)
        \/ \E i \in Id : NavigateDetail(i)
        \/ \E i \in Id \cup {None} : NavigateForm(i)
Command == \/ Type \/ Submit
           \/ \E n \in saves, ok \in BOOLEAN : SaveAnswered(n, ok)
           \/ \E i \in Id : Delete(i) \/ DeleteAnswered(i) \/ DeleteRefused(i) \/ Removed(i)

Next == Move \/ Back \/ Traverse \/ LeaveGone \/ Command

\* history.back() is carried out and React runs its effects.
Spec == Init /\ [][Next]_vars /\ WF_vars(Traverse) /\ WF_vars(LeaveGone)

----------------------------------------------------------------------------
(* Properties *)

\* The page is the entry of the history it claims to be, so that going back
\* goes where the user came from (useMobileNavigation: state and location are
\* written separately).
PageIsTheEntry == page = stack[pos]

\* No tab is left underneath the library (navigate).
NoTabUnderTheLibrary ==
  \A i, j \in 1..pos : (i < j /\ stack[j].route = "library") => stack[i].route \notin Tabs

\* A form with changes that were not saved goes away only after the user
\* agreed, or with its record (MobileRecordForm, leave and the overlay).
UnsavedIsAskedStep ==
  (form # None /\ (form' # None => form'.no # form.no)) => ~form.typed \/ asked \/ (page.id # None /\ page.id \notin alive')
UnsavedIsAsked == [][UnsavedIsAskedStep]_vars

\* The page of a record that is gone is left (MobileLibraryPage, the effect).
PageIsGone == page.id \notin alive \cup {None}
GonePageIsLeft == PageIsGone ~> ~PageIsGone

=============================================================================
