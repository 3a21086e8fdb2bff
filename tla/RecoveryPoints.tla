---------------------------- MODULE RecoveryPoints ---------------------------
(***************************************************************************)
(* The files of the recovery points (recovery_points.rs), the operations   *)
(* that save one before they change the library, and the panel that        *)
(* retains, deletes and restores them (useRecoveryPoints.ts).  A point is  *)
(* a copy of the database and a manifest beside it; only a copy with a     *)
(* manifest is listed.  Commands run one after the other; the panel acts   *)
(* on the list it read last.                                               *)
(*                                                                         *)
(* A library is one value here; what a restored one means for sync is the  *)
(* matter of WatchSyncRecovery.                                            *)
(***************************************************************************)
EXTENDS Integers, FiniteSets, FiniteSetsExt, Functions

CONSTANTS
  Content,    \* libraries
  Size,       \* the size of a copy of each
  MaxPoints,  \* MAX_AUTOMATIC_POINTS
  Capacity,   \* CAPACITY_BYTES
  Faults,     \* what may go wrong in a restore: "copy", "verify", "queue", "rotate"
  Crashing,   \* the program may die between two changes of files
  Setback,    \* how far the clock of the system may be set back once
  MaxMade,    \* bound on the points made
  None

RecoveryPointsAssumption ==
  /\ None \notin Content /\ Size \in [Content -> Nat]
  /\ MaxPoints \in Nat \ {0} /\ Capacity \in Nat /\ MaxMade \in Nat
  /\ Faults \subseteq {"copy", "verify", "queue", "rotate"}
  /\ Crashing \in BOOLEAN /\ Setback \in Nat

VARIABLES
  db,      \* the library
  files,   \* the copies by number: content (None once damaged), size, at (created_at),
           \* retained, and whether there is a manifest
  made,    \* points made so far
  behind,  \* what the clock of the system is behind
  shown,   \* the list the panel read last: retained and whether it may be restored
  busy,    \* recoveryBusyId # null, until the list has been read again
  status   \* recoveryStatus after a restore: "restored", "refused" or None

vars == <<db, files, made, behind, shown, busy, status>>

Listed(f) == {p \in DOMAIN f : f[p].manifest}
Automatic(f) == {p \in Listed(f) : ~f[p].retained}
Sizes(f) == [p \in DOMAIN f |-> f[p].size]
Total(f) == SumFunctionOnSet(Sizes(f), Listed(f))

TypeOK ==
  /\ db \in Content /\ made \in 0..MaxMade /\ behind \in {0, Setback} /\ busy \in BOOLEAN
  /\ DOMAIN files \subseteq 1..made
  /\ \A p \in DOMAIN files : /\ files[p].content \in Content \cup {None} /\ files[p].at \in Int
                             /\ files[p].retained \in BOOLEAN /\ files[p].manifest \in BOOLEAN
  /\ DOMAIN shown \subseteq 1..made /\ status \in {"restored", "refused", None}

Listing(f) ==
  [p \in Listed(f) |-> [retained |-> f[p].retained, sound |-> f[p].content # None]]

Init ==
  /\ db \in Content /\ files = [p \in {} |-> None] /\ shown = files
  /\ made = 0 /\ behind = 0 /\ busy = FALSE /\ status = None

-------------------------------------------------------------------------------
(* Making and rotating points.                                             *)

(* create_raw: the copy is verified, renamed and gets its manifest.        *)
WithPoint(f, manifest) ==
  [p \in DOMAIN f \cup {made + 1} |->
     IF p # made + 1 THEN f[p]
     ELSE [content |-> db, size |-> Size[db], at |-> 2 * (made + 1) - behind,
           retained |-> FALSE, manifest |-> manifest]]

Without(f, P) == Restrict(f, DOMAIN f \ P)
Newest(f, P) == {p \in P : \A q \in P : f[q].at <= f[p].at}
Oldest(f, n) == {p \in Automatic(f) : Cardinality({q \in Automatic(f) : f[q].at < f[p].at}) < n}

(* Deviation: list returns the newest first, and nothing sorts it again.   *)
RotatedNewest(f) ==
  LET surplus == Cardinality(Automatic(f)) > MaxPoints
  IN  IF surplus THEN Without(f, Newest(f, Automatic(f))) ELSE f

(* rotate: the oldest automatic points go until neither their number nor   *)
(* the size of all points is too large; for the size, one stays.           *)
Rotated(f) ==
  LET kept(n) == Automatic(f) \ Oldest(f, n)
      Fits(n) == /\ Cardinality(kept(n)) <= MaxPoints
                 /\ Total(Without(f, Oldest(f, n))) <= Capacity \/ Cardinality(kept(n)) <= 1
      fewest == Min({n \in 0..Cardinality(Automatic(f)) : Fits(n)})
  IN  Without(f, Oldest(f, fewest))

Edit ==
  /\ \E c \in Content : db' = c
  /\ UNCHANGED <<files, made, behind, shown, busy, status>>

(* An import, the commit of a sync or a batch: create, and only then the   *)
(* new library, which may be refused; without its point nothing happens.   *)
Guarded ==
  /\ made < MaxMade /\ made' = made + 1
  /\ \/ /\ files' = Rotated(WithPoint(files, TRUE))
        /\ \E c \in Content : db' = c
     \/ /\ "rotate" \in Faults
        /\ files' = WithPoint(files, TRUE) /\ UNCHANGED db
  /\ UNCHANGED <<behind, shown, busy, status>>

-------------------------------------------------------------------------------
(* The panel.  The list is read when the tools are opened, by its button   *)
(* and after each operation that succeeded.                                *)

RefreshList ==
  /\ shown' = Listing(files) /\ busy' = FALSE
  /\ UNCHANGED <<db, files, made, behind, status>>

Click(p) == ~busy /\ p \in DOMAIN shown

(* set_retained: a point that the user no longer retains may be rotated.   *)
SetRetained(p) ==
  /\ Click(p)
  /\ LET f == [files EXCEPT ![p].retained = ~shown[p].retained]
     IN  IF p \notin Listed(files) THEN UNCHANGED <<files, busy>>
         ELSE busy' = TRUE /\ files' = IF shown[p].retained THEN Rotated(f) ELSE f
  /\ UNCHANGED <<db, made, behind, shown, status>>

DeletePoint(p) ==
  /\ Click(p)
  /\ files' = Without(files, {p}) /\ busy' = TRUE
  /\ UNCHANGED <<db, made, behind, shown, status>>

(* restore, before it changes anything.                                    *)
Usable(p) == p \in Listed(files) /\ files[p].content # None

(* Deviation: a restored database that fails verification stays.           *)
RecoveredUnverified(p, fault) == IF fault = "copy" THEN db ELSE files[p].content

(* What is in place once restore has failed: the pre-restore point is put  *)
(* back, but not when only the rotation at the end failed.                 *)
Recovered(p, fault) == IF fault = "rotate" THEN files[p].content ELSE db

Restored(p) ==
  /\ db' = files[p].content /\ files' = Rotated(WithPoint(files, TRUE))
  /\ busy' = TRUE /\ status' = "restored"

RestoreFailed(p, fault) ==
  /\ db' = Recovered(p, fault) /\ files' = WithPoint(files, TRUE)
  /\ status' = "refused" /\ UNCHANGED busy

RestorePoint(p) ==
  /\ Click(p) /\ shown[p].sound
  /\ IF Usable(p)
     THEN /\ made < MaxMade /\ made' = made + 1
          /\ Restored(p) \/ \E fault \in Faults : RestoreFailed(p, fault)
     ELSE status' = "refused" /\ UNCHANGED <<db, files, made, busy>>
  /\ UNCHANGED <<behind, shown>>

-------------------------------------------------------------------------------
(* The system.                                                             *)

(* The program dies and is started again; temporary files are removed.     *)
Restart == shown' = [p \in {} |-> None] /\ busy' = FALSE /\ status' = None

(* ... when create_raw has no manifest yet, or a guarded operation has its *)
(* point and no more                                                       *)
DieCreating ==
  /\ Crashing /\ Restart
  /\ made < MaxMade /\ made' = made + 1
  /\ \E manifest \in BOOLEAN : files' = WithPoint(files, manifest)
  /\ UNCHANGED <<db, behind>>

(* ... when write_manifest has removed the old manifest and not yet put    *)
(* the new one, a temporary file, in its place                             *)
DieRetaining(p) ==
  /\ Crashing /\ Restart
  /\ Click(p) /\ p \in Listed(files)
  /\ files' = [files EXCEPT ![p].manifest = FALSE]
  /\ UNCHANGED <<db, made, behind>>

DamageFile(p) ==
  /\ files[p].content # None
  /\ files' = [files EXCEPT ![p].content = None]
  /\ UNCHANGED <<db, made, behind, shown, busy, status>>

SetClockBack ==
  /\ behind # Setback /\ behind' = Setback
  /\ UNCHANGED <<db, files, made, shown, busy, status>>

Next ==
  \/ Edit \/ Guarded \/ RefreshList \/ DieCreating \/ SetClockBack
  \/ \E p \in DOMAIN shown : SetRetained(p) \/ DeletePoint(p) \/ RestorePoint(p) \/ DieRetaining(p)
  \/ \E p \in DOMAIN files : DamageFile(p)

Spec == Init /\ [][Next]_vars
-------------------------------------------------------------------------------
(* An operation that replaces the library leaves a point from which the    *)
(* former one can be restored (rotate runs before the operation itself,    *)
(* and after a restore).                                                   *)
LeavesAPoint ==
  Guarded \/ (\E p \in DOMAIN shown : RestorePoint(p)) =>
    db' = db \/ \E p \in Listed(files') : files'[p].content = db
ReplacedCanBeRestored == [][LeavesAPoint]_vars

(* A point disappears only when the user deletes it or as a surplus: it is *)
(* not retained and MaxPoints automatic points made later remain, or a     *)
(* later one and no room for it and those later (rotate, set_retained).    *)
Surplus(p) ==
  LET later == {q \in Automatic(files') : q > p}
      gone == {q \in Listed(files) \ Listed(files') : q >= p}
  IN  /\ files[p].retained => SetRetained(p)
      /\ \/ Cardinality(later) >= MaxPoints
         \/ later # {} /\ Total(files') + SumFunctionOnSet(Sizes(files), gone) > Capacity

RotatesSurplus ==
  \A p \in Listed(files) : p \in Listed(files') \/ Surplus(p) \/ (p \in DOMAIN shown /\ DeletePoint(p))
OnlySurplusIsRotated == [][RotatesSurplus]_vars

(* A restore that the panel reports as failed has changed nothing,         *)
(* whichever of its steps failed.                                          *)
RefusalKeepsAll == \A p \in DOMAIN shown : RestorePoint(p) /\ status' = "refused" => db' = db
RefusedRestoreChangesNothing == [][RefusalKeepsAll]_vars
==============================================================================
