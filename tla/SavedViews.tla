---------------------------- MODULE SavedViews -----------------------------
(* The saved views of the desktop list: named conditions kept in a setting, *)
(* one of which may be applied at launch.  Every operation computes the     *)
(* whole list from what is shown when it is called and writes it.           *)
EXTENDS Integers, Sequences, FiniteSets, Functions

CONSTANTS Id, Name, Cond,  \* views, their names, and conditions with order and layout
          All,       \* the conditions of "all records"
          None,
          MaxViews,  \* MAX_SAVED_VIEWS
          MaxCalls,  \* bound on the calls under way
          Faults,    \* what may fail: "read", "write"
          Impatient  \* whether the user goes on before a call is answered

SavedViewsAssumption ==
  /\ All \in Cond /\ None \notin Id \cup Cond /\ {MaxViews, MaxCalls} \subseteq Nat
  /\ Faults \subseteq {"read", "write"} /\ Impatient \in BOOLEAN

VARIABLES
  stored, storedStartup,   \* the two settings
  views, startup, loaded,  \* useSavedWatchlistViews
  cond, active,            \* query, sortBy and viewMode; activeViewId (App.tsx)
  calls,    \* the calls not yet answered, in order
  used,     \* identifiers given out
  told,     \* what the user has been told of views: saved as, or None once deleted
  wish,     \* the startup view the user has been told of
  edited    \* the conditions were changed by the user since a view was applied or saved

vars == <<stored, storedStartup, views, startup, loaded, cond, active, calls, used, told, wish, edited>>

View == [name : Name, cond : Cond]
NoViews == <<>>
Lists == UNION {[I -> View] : I \in SUBSET Id}
With(f, i, v) == [j \in DOMAIN f \cup {i} |-> IF j = i THEN v ELSE f[j]]
Without(f, i) == Restrict(f, DOMAIN f \ {i})
At(f, i) == IF i \in DOMAIN f THEN f[i] ELSE None
Op == {"load", "create", "update", "delete", "delete_startup", "unstar", "startup"}

TypeOK ==
  /\ stored \in Lists /\ views \in Lists
  /\ Cardinality(DOMAIN stored) <= MaxViews
  /\ {storedStartup, startup, active, wish} \subseteq Id \cup {None}
  /\ cond \in Cond /\ {loaded, edited} \subseteq BOOLEAN
  /\ \A k \in 1..Len(calls) : calls[k].op \in Op /\ calls[k].next \in Lists
  /\ used \subseteq Id /\ DOMAIN told \subseteq used

Init ==
  /\ stored = NoViews /\ storedStartup = None
  /\ views = NoViews /\ startup = None /\ loaded = FALSE
  /\ cond = All /\ active = None
  /\ calls = <<[op |-> "load", id |-> None, next |-> NoViews]>>
  /\ used = {} /\ told = NoViews /\ wish = None /\ edited = FALSE

Ready == Len(calls) < MaxCalls /\ (Impatient \/ calls = <<>>)

(* Deviation: the list is shown before it is written *)
PersistEarly(op, id, next) ==
  /\ calls' = Append(calls, [op |-> op, id |-> id, next |-> next])
  /\ views' = next

Persist(op, id, next) ==
  /\ calls' = Append(calls, [op |-> op, id |-> id, next |-> next])
  /\ views' = views

\* The menu's view: none when the active one is not in the list.
Active == IF active \in DOMAIN views THEN active ELSE None
Dirty == cond # (IF Active # None THEN views[active].cond ELSE All)

\* validateSavedViewName
NameTaken(name) == \E i \in DOMAIN views : views[i].name = name

Create(name) ==
  /\ Ready /\ ~NameTaken(name) /\ Cardinality(DOMAIN views) < MaxViews
  /\ \E id \in Id \ used :
       /\ used' = used \cup {id}
       /\ Persist("create", id, With(views, id, [name |-> name, cond |-> cond]))
  /\ UNCHANGED <<stored, storedStartup, startup, loaded, cond, active, told, wish, edited>>

Update ==
  /\ Ready /\ Active # None /\ Dirty
  /\ Persist("update", active, [views EXCEPT ![active].cond = cond])
  /\ UNCHANGED <<stored, storedStartup, startup, loaded, cond, active, used, told, wish, edited>>

Delete ==
  /\ Ready /\ Active # None
  /\ Persist(IF startup = active THEN "delete_startup" ELSE "delete", active, Without(views, active))
  /\ told' = Without(told, active)
  /\ UNCHANGED <<stored, storedStartup, startup, loaded, cond, active, used, wish, edited>>

ToggleStartup ==
  /\ Ready /\ Active # None
  /\ calls' = Append(calls, [op |-> "startup", id |-> IF startup = active THEN None ELSE active, next |-> NoViews])
  /\ UNCHANGED <<stored, storedStartup, views, startup, loaded, cond, active, used, told, wish, edited>>

Head1 == calls[1]
Answered == calls' = Tail(calls)

\* The effect that reads both settings, and the one that applies the startup view once.
ReadStored ==
  /\ Head1.op = "load" /\ Answered
  /\ views' = stored /\ loaded' = TRUE
  /\ startup' = IF storedStartup \in DOMAIN stored THEN storedStartup ELSE None
  /\ IF startup' # None
     THEN cond' = stored[startup'].cond /\ active' = startup' /\ edited' = FALSE
     ELSE UNCHANGED <<cond, active, edited>>
  /\ UNCHANGED <<stored, storedStartup, used, told, wish>>

ReadFails ==
  /\ "read" \in Faults /\ Head1.op = "load" /\ Answered
  /\ loaded' = TRUE
  /\ UNCHANGED <<stored, storedStartup, views, startup, cond, active, used, told, wish, edited>>

WriteViews ==
  /\ Head1.op \in {"create", "update"} /\ Answered
  /\ stored' = Head1.next /\ views' = Head1.next
  /\ told' = With(told, Head1.id, Head1.next[Head1.id])
  /\ active' = IF Head1.op = "create" THEN Head1.id ELSE active
  /\ edited' = (edited /\ cond # Head1.next[Head1.id].cond)
  /\ UNCHANGED <<storedStartup, startup, loaded, cond, used, wish>>

\* deleteView goes on to the startup setting when it names the view.
WriteDeleted ==
  /\ Head1.op \in {"delete", "delete_startup"}
  /\ stored' = Head1.next /\ views' = Head1.next
  /\ told' = With(told, Head1.id, None)
  /\ IF Head1.op = "delete_startup"
     THEN calls' = Append(Tail(calls), [op |-> "unstar", id |-> Head1.id, next |-> NoViews]) /\ UNCHANGED active
     ELSE Answered /\ active' = None
  /\ UNCHANGED <<cond, edited, storedStartup, startup, loaded, used, wish>>

WriteStartup ==
  /\ Head1.op \in {"startup", "unstar"} /\ Answered
  /\ storedStartup' = (IF Head1.op = "unstar" THEN None ELSE Head1.id)
  /\ startup' = storedStartup'
  /\ wish' = (IF Head1.op = "startup" THEN Head1.id ELSE IF wish = Head1.id THEN None ELSE wish)
  /\ active' = (IF Head1.op = "unstar" THEN None ELSE active)
  /\ UNCHANGED <<stored, views, loaded, cond, used, told, edited>>

WriteFails ==
  /\ "write" \in Faults /\ Head1.op # "load" /\ Answered
  /\ UNCHANGED <<stored, storedStartup, views, startup, loaded, cond, active, used, told, wish, edited>>

Answer == calls # <<>> /\ (ReadStored \/ ReadFails \/ WriteViews \/ WriteDeleted \/ WriteStartup \/ WriteFails)

\* applySavedView
Apply(id) ==
  /\ Ready /\ id \in DOMAIN views
  /\ cond' = views[id].cond /\ active' = id /\ edited' = FALSE
  /\ UNCHANGED <<stored, storedStartup, views, startup, loaded, calls, used, told, wish>>

ResetToAll ==
  /\ Ready /\ (active # None \/ cond # All)
  /\ cond' = All /\ active' = None /\ edited' = FALSE
  /\ UNCHANGED <<stored, storedStartup, views, startup, loaded, calls, used, told, wish>>

\* The bars and panels that set a condition, and those that clear all of them.
Change ==
  /\ Ready /\ edited' = TRUE
  /\ \/ cond' \in Cond \ {cond} /\ active' = active
     \/ cond' \in Cond /\ active' = None /\ active # None
  /\ UNCHANGED <<stored, storedStartup, views, startup, loaded, calls, used, told, wish>>

\* The program is closed, at any time, and started again.
Restart ==
  /\ views' = NoViews /\ startup' = None /\ loaded' = FALSE
  /\ cond' = All /\ active' = None /\ edited' = FALSE
  /\ calls' = <<[op |-> "load", id |-> None, next |-> NoViews]>>
  /\ loaded
  /\ UNCHANGED <<stored, storedStartup, used, told, wish>>

Next ==
  \/ \E name \in Name : Create(name)
  \/ \E id \in Id : Apply(id)
  \/ Update \/ Delete \/ ToggleStartup \/ Answer \/ ResetToAll \/ Change \/ Restart

Spec == Init /\ [][Next]_vars

-----------------------------------------------------------------------------
(* What the user has been told stays so: a view whose saving was confirmed  *)
(* is stored as it was saved until its deletion is asked for, and one whose *)
(* deletion went through does not return (persist, useSavedWatchlistViews). *)
AnswersAreKept == \A i \in DOMAIN told : At(stored, i) = told[i]

(* A view shown as modified has been modified: its conditions differ from   *)
(* those on the screen only after the user changed them (viewDirty).        *)
ModifiedMeansEdited == Active # None /\ Dirty => edited

(* The view the user made the startup view is the one the next launch       *)
(* applies, with the conditions it was last saved with, whatever other      *)
(* views were deleted and whatever calls failed in between.                 *)
LaunchShowsTheStartupViewStep ==
  ~loaded /\ calls # <<>> /\ ReadStored /\ wish \in DOMAIN told /\ told[wish] # None
    => active' = wish /\ cond' = told[wish].cond
LaunchShowsTheStartupView == [][LaunchShowsTheStartupViewStep]_vars
=============================================================================
