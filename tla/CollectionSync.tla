--------------------------- MODULE CollectionSync --------------------------
(***************************************************************************)
(* Collections and their members on several devices that share one cloud   *)
(* file: the commands of src-tauri/src/collections.rs, the merge of        *)
(* src/shared/lib/collectionSync.ts and the part of a sync pass that       *)
(* carries them (syncService.ts, sync_state.rs).                           *)
(*                                                                         *)
(* A collection or a membership is, on each side, absent, live or gone     *)
(* (only its tombstone is left).  Its `at' stands for updatedAt, rev and   *)
(* revActor together: every edit stamps what it touches with a new one.    *)
(* Records themselves are merged by SyncMerge and are all present here.    *)
(***************************************************************************)
EXTENDS Integers, FiniteSets, FiniteSetsExt, Functions

CONSTANTS
  Device,
  Cid,          \* collection ids, numbered in the order of their text
  Rec,          \* records
  Name,         \* names, numbered in the order of normalizedName
  NamesOf,      \* NamesOf[c]: the names the users give collection c
  Creator,      \* Creator[c]: the device whose fresh uuid c is
  Shared,       \* a function from the collections all devices start with to their names
  Filed,        \* a function from the memberships they start with to positions
  MaxAt,        \* bound: edits made on all devices together
  None

CollectionAssumption ==
  /\ IsFiniteSet(Device) /\ Cid \subseteq Nat /\ IsFiniteSet(Cid)
  /\ Name \subseteq Nat \ {0} /\ NamesOf \in [Cid -> SUBSET Name]
  /\ Creator \in [Cid -> Device]
  /\ DOMAIN Shared \subseteq Cid /\ DOMAIN Filed \subseteq (DOMAIN Shared) \X Rec /\ MaxAt \in Nat

Modes == {"manual", "chronological"}
Member == Cid \X Rec

Absent == [st |-> "absent", at |-> 0]
Gone(at) == [st |-> "gone", at |-> at]
Collection(n, m, at) == [st |-> "live", at |-> at, f |-> [name |-> n, mode |-> m]]
Membership(p, at) == [st |-> "live", at |-> at, f |-> [pos |-> p]]
IsLive(e) == e.st = "live"

Idle == [running |-> FALSE, state |-> None]
Running(s) == [running |-> TRUE, state |-> s]

VARIABLES
  lib,      \* lib[d]: the collections and members in d's database
  base,     \* base[d]: those of the baseline d's last pass stored
  cloud,    \* those of the cloud file
  pass,     \* pass[d]: whether a pass of d is running, and what it published and will commit
  dirty,    \* dirty[d]: d was edited since its pass read the library
  at,       \* edits made so far
  \* history, for the properties
  author,   \* author[c][x]: the devices that have edited field x of c
  written,  \* written[c][x]: the value the last of these edits gave it
  disputed, \* collections that were deleted, or that a user was asked about
  unconfirmed \* devices of which a pass has published and was not committed

db == <<lib, base, cloud, pass, dirty, at>>
history == <<author, written, disputed, unconfirmed>>
vars == <<db, history>>

LiveCols(s) == {c \in Cid : IsLive(s.cols[c])}
MembersOf(s, c) == {r \in Rec : IsLive(s.mems[<<c, r>>])}
NameOf(s, c) == s.cols[c].f.name

Init ==
  LET start == [cols |-> [c \in Cid |-> IF c \in DOMAIN Shared
                                        THEN Collection(Shared[c], "manual", 0) ELSE Absent],
                mems |-> [m \in Member |-> IF m \in DOMAIN Filed
                                           THEN Membership(Filed[m], 0) ELSE Absent]]
  IN  /\ lib = [d \in Device |-> start] /\ base = lib /\ cloud = start
      /\ pass = [d \in Device |-> Idle] /\ dirty = [d \in Device |-> FALSE]
      /\ at = 0
      /\ author = [c \in Cid |-> [x \in {"name", "mode"} |-> {}]]
      /\ written = [c \in Cid |-> [x \in {"name", "mode"} |-> None]]
      /\ disputed = {} /\ unconfirmed = {}

-----------------------------------------------------------------------------
(* The commands: each is one transaction that stamps what it changed and   *)
(* queues it for the next pass.                                            *)
Edited(d, cols, mems) ==
  /\ at < MaxAt
  /\ at' = at + 1
  /\ lib' = [lib EXCEPT ![d] = [cols |-> cols, mems |-> mems]]
  /\ dirty' = [dirty EXCEPT ![d] = TRUE]
  /\ LET was(c) == lib[d].cols[c]
         edits(c, x) == IsLive(cols[c]) /\ (was(c) = Absent \/ was(c).f[x] # cols[c].f[x])
     IN  /\ author' = [c \in Cid |-> [x \in {"name", "mode"} |->
              IF edits(c, x) THEN author[c][x] \cup {d} ELSE author[c][x]]]
         /\ written' = [c \in Cid |-> [x \in {"name", "mode"} |->
              IF edits(c, x) THEN cols[c].f[x] ELSE written[c][x]]]
         /\ disputed' = disputed \cup {c \in Cid : cols[c].st = "gone"}
  /\ UNCHANGED <<base, cloud, pass, unconfirmed>>

Bump(cols, c) == [cols EXCEPT ![c].at = at + 1]
NameTaken(s, n, c) == \E o \in LiveCols(s) \ {c} : NameOf(s, o) = n

(* create                                                                  *)
Create(d, c, n) ==
  /\ Creator[c] = d /\ lib[d].cols[c] = Absent
  /\ ~NameTaken(lib[d], n, c)
  /\ Edited(d, [lib[d].cols EXCEPT ![c] = Collection(n, "manual", at + 1)], lib[d].mems)

(* create_for_record                                                       *)
CreateForRecord(d, c, n, r) ==
  /\ Creator[c] = d /\ lib[d].cols[c] = Absent
  /\ ~NameTaken(lib[d], n, c)
  /\ Edited(d, [lib[d].cols EXCEPT ![c] = Collection(n, "manual", at + 1)],
               [lib[d].mems EXCEPT ![<<c, r>>] = Membership(0, at + 1)])

(* update: a change of nothing returns before it stamps.                   *)
Update(d, c, n, m) ==
  /\ c \in LiveCols(lib[d])
  /\ lib[d].cols[c].f # [name |-> n, mode |-> m]
  /\ ~NameTaken(lib[d], n, c)
  /\ Edited(d, [lib[d].cols EXCEPT ![c] = Collection(n, m, at + 1)], lib[d].mems)

(* add_members: after the last one.                                        *)
NextPosition(s, c) == Max({-1} \cup {s.mems[<<c, r>>].f.pos : r \in MembersOf(s, c)}) + 1

AddMember(d, c, r) ==
  /\ c \in LiveCols(lib[d]) /\ r \notin MembersOf(lib[d], c)
  /\ Edited(d, Bump(lib[d].cols, c),
               [lib[d].mems EXCEPT ![<<c, r>>] = Membership(NextPosition(lib[d], c), at + 1)])

(* remove_member                                                           *)
RemoveMember(d, c, r) ==
  /\ r \in MembersOf(lib[d], c)
  /\ Edited(d, Bump(lib[d].cols, c), [lib[d].mems EXCEPT ![<<c, r>>] = Gone(at + 1)])

(* reorder: the positions become the index, and only moved ones are stamped *)
Reorder(d, c, place) ==
  LET moved == {r \in MembersOf(lib[d], c) : lib[d].mems[<<c, r>>].f.pos # place[r]}
  IN  /\ c \in LiveCols(lib[d]) /\ moved # {}
      /\ \A r \in MembersOf(lib[d], c) : place[r] < Cardinality(MembersOf(lib[d], c))
      /\ Edited(d, Bump(lib[d].cols, c),
                   [m \in Member |-> IF m[1] = c /\ m[2] \in moved
                                     THEN Membership(place[m[2]], at + 1) ELSE lib[d].mems[m]])

(* delete: the collection and each of its members leave a tombstone.       *)
Delete(d, c) ==
  /\ c \in LiveCols(lib[d])
  /\ Edited(d, [lib[d].cols EXCEPT ![c] = Gone(at + 1)],
               [m \in Member |-> IF m[1] = c /\ IsLive(lib[d].mems[m])
                                 THEN Gone(at + 1) ELSE lib[d].mems[m]])

-----------------------------------------------------------------------------
(* mergeDisjoint                                                           *)
Changed(b, e) == {x \in DOMAIN b.f : b.f[x] # e.f[x]}
Mergeable(b, l, r) ==
  /\ IsLive(b) /\ IsLive(l) /\ IsLive(r)
  /\ \A x \in Changed(b, l) \cap Changed(b, r) : l.f[x] = r.f[x]

(* Deviation: what the other device changed is left out.                   *)
MergeDisjointLocal(b, l, r) == [l EXCEPT !.at = Max({l.at, r.at})]

MergeDisjoint(b, l, r) ==
  [b EXCEPT !.at = Max({l.at, r.at}),
            !.f = [x \in DOMAIN b.f |-> IF x \in Changed(b, r) THEN r.f[x]
                                        ELSE IF x \in Changed(b, l) THEN l.f[x] ELSE b.f[x]]]

(* mergeSet: the user is asked about these...                              *)
Conflicting(b, l, r) == l # r /\ l # b /\ r # b /\ ~Mergeable(b, l, r)

(* ... and this is what is kept.                                           *)
Selected(b, l, r, mine) ==
  IF l \in {b, r} THEN r
  ELSE IF r = b THEN l
  ELSE IF Mergeable(b, l, r) THEN MergeDisjoint(b, l, r)
  ELSE IF mine THEN l ELSE r

(* mergeCollectionStates: a membership of a collection that is not kept is *)
(* dropped, without a tombstone.                                           *)
Merged(b, l, r, mineC, mineM) ==
  LET cols == [c \in Cid |-> Selected(b.cols[c], l.cols[c], r.cols[c], c \in mineC)]
      kept(m) == Selected(b.mems[m], l.mems[m], r.mems[m], m \in mineM)
  IN  [cols |-> cols,
       mems |-> [m \in Member |-> IF IsLive(kept(m)) /\ ~IsLive(cols[m[1]])
                                  THEN Absent ELSE kept(m)]]

AskedCols(d) == {c \in Cid : Conflicting(base[d].cols[c], lib[d].cols[c], cloud.cols[c])}
AskedMems(d) == {m \in Member : Conflicting(base[d].mems[m], lib[d].mems[m], cloud.mems[m])}

(* A pass reads the library and the cloud file, asks the user (who takes   *)
(* this device's version of mineC and mineM and the cloud's of the others) *)
(* and writes the cloud file if that changes it; the conditional PUT makes *)
(* the read and the write of the cloud one step.                           *)
Publish(d, mineC, mineM) ==
  LET merged == Merged(base[d], lib[d], cloud, mineC, mineM)
  IN  /\ ~pass[d].running
      /\ cloud' = merged
      /\ pass' = [pass EXCEPT ![d] = Running(merged)]
      /\ dirty' = [dirty EXCEPT ![d] = FALSE]
      /\ disputed' = disputed \cup AskedCols(d)
      /\ UNCHANGED <<lib, base, at, author, written, unconfirmed>>

(* UNIQUE(normalizedName) and the foreign keys of the tables               *)
Storable(s) ==
  /\ \A c, o \in LiveCols(s) : NameOf(s, c) = NameOf(s, o) => c = o
  /\ \A c \in Cid : MembersOf(s, c) # {} => c \in LiveCols(s)

(* Deviation: collections alone do not make the commit write the tables.   *)
CommitBaselineOnly(d) ==
  /\ pass[d].running
  /\ pass' = [pass EXCEPT ![d] = Idle]
  /\ base' = IF dirty[d] THEN base ELSE [base EXCEPT ![d] = pass[d].state]
  /\ UNCHANGED <<lib, cloud, dirty, at, history>>

(* commit_sync_result: refused when the library moved on or when a table   *)
(* refuses the rows; the pass ends either way.                             *)
Commit(d) ==
  /\ pass[d].running
  /\ pass' = [pass EXCEPT ![d] = Idle]
  /\ IF dirty[d] \/ ~Storable(pass[d].state)
     THEN unconfirmed' = unconfirmed \cup {d} /\ UNCHANGED <<lib, base>>
     ELSE /\ lib' = [lib EXCEPT ![d] = pass[d].state]
          /\ base' = [base EXCEPT ![d] = pass[d].state]
          /\ UNCHANGED unconfirmed
  /\ UNCHANGED <<cloud, dirty, at, author, written, disputed>>

(* collections_changed: commit_sync_result compares the rows in the order  *)
(* of the tables' queries with those of the pass, which mergeSet sorted by *)
(* id; then it saves a recovery point and writes every row again.          *)
Before(s, c, o) == NameOf(s, c) < NameOf(s, o)
Rewrites(d) ==
  \/ pass[d].state # lib[d]
  \/ \E c, o \in LiveCols(lib[d]) : c < o /\ Before(lib[d], o, c)

-----------------------------------------------------------------------------
Places == {p \in [Rec -> 0..(Cardinality(Rec) - 1)] : IsInjective(p)}

Edit(d) ==
  \E c \in Cid :
    \/ \E n \in NamesOf[c] : Create(d, c, n) \/ \E r \in Rec : CreateForRecord(d, c, n, r)
    \/ \E n \in NamesOf[c], m \in Modes : Update(d, c, n, m)
    \/ \E m \in Modes : c \in LiveCols(lib[d]) /\ Update(d, c, NameOf(lib[d], c), m)
    \/ \E r \in Rec : AddMember(d, c, r) \/ RemoveMember(d, c, r)
    \/ \E p \in Places : Reorder(d, c, p)
    \/ Delete(d, c)

Start(d) ==
  \E mineC \in SUBSET AskedCols(d), mineM \in SUBSET AskedMems(d) : Publish(d, mineC, mineM)

Next == \E d \in Device : Edit(d) \/ Start(d) \/ Commit(d)

(* The periodic check starts passes, and a started pass ends.              *)
Spec == Init /\ [][Next]_vars /\ \A d \in Device : WF_vars(Start(d)) /\ WF_vars(Commit(d))
-----------------------------------------------------------------------------
Entities ==
  {Absent} \cup {Gone(n) : n \in 1..MaxAt}
  \cup {Collection(n, m, k) : n \in Name, m \in Modes, k \in 0..MaxAt}
  \cup {Membership(p, k) : p \in 0..Cardinality(Rec), k \in 0..MaxAt}

IsState(s) ==
  /\ \A c \in Cid : s.cols[c] \in Entities /\ (IsLive(s.cols[c]) => "name" \in DOMAIN s.cols[c].f)
  /\ \A m \in Member : s.mems[m] \in Entities /\ (IsLive(s.mems[m]) => "pos" \in DOMAIN s.mems[m].f)

(* Every side holds collections and memberships with positions a table     *)
(* accepts (0 or more).                                                    *)
TypeOK ==
  /\ \A d \in Device : IsState(lib[d]) /\ IsState(base[d])
  /\ IsState(cloud)
  /\ \A d \in Device : pass[d].running => IsState(pass[d].state)
  /\ dirty \in [Device -> BOOLEAN] /\ at \in 0..MaxAt /\ disputed \subseteq Cid

(* Neither the cloud file nor a library ever has a membership of a         *)
(* collection it does not have: a database refuses it, and the pass that   *)
(* read it would fail on every device (collection_reference_invalid).      *)
NoDanglingMember ==
  \A s \in {lib[d] : d \in Device} \cup {cloud} :
    \A c \in Cid : MembersOf(s, c) # {} => c \in LiveCols(s)

EditStays(d) ==
  \A c \in Cid : \A x \in {"name", "mode"} :
    author[c][x] = {d} /\ c \notin disputed
      => IsLive(lib[d].cols[c]) /\ lib[d].cols[c].f[x] = written[c][x]

(* What the user of one device gave a name or an order, and nobody else    *)
(* edited, stays at that device, whatever the others do to other fields of *)
(* the collection and however often both sync, unless somebody was asked   *)
(* about the collection or deleted it.                                     *)
SoleEditorKeepsTheEdit == \A d \in Device \ unconfirmed : EditStays(d)

(* The same for a device that was edited during a pass, or refused what it *)
(* published, whose upload is not confirmed here: the published intent     *)
(* tells the next pass that the cloud's version is its own.                *)
PublishedEditIsOwn == \A d \in Device : EditStays(d)

(* A collection that is gone from the cloud file comes back only when a    *)
(* user was asked and kept it.                                             *)
DeletedStaysDeletedStep ==
  \A c \in Cid :
    cloud.cols[c].st = "gone" /\ IsLive(cloud'.cols[c])
      => \E d \in Device : ~pass[d].running /\ pass'[d].running /\ c \in AskedCols(d)
DeletedStaysDeleted == [][DeletedStaysDeletedStep]_vars

(* Once nobody edits, every device comes to show what the cloud file has.  *)
InStep == \A d \in Device : lib[d] = cloud
Converges == <>[]InStep

(* A collection a user made reaches every other device, unless it is gone  *)
(* again.                                                                  *)
CollectionsReachEveryDevice ==
  \A d, e \in Device, c \in Cid :
    IsLive(lib[d].cols[c]) ~> IsLive(lib[e].cols[c]) \/ ~IsLive(lib[d].cols[c])

(* A user who keeps this device's version of a collection keeps what is in *)
(* it.                                                                     *)
KeptCollectionKeepsItsMembers ==
  [][\A d \in Device, c \in Cid :
       ( /\ ~pass[d].running /\ pass'[d].running
         /\ c \in AskedCols(d) /\ pass'[d].state.cols[c] = lib[d].cols[c]
         /\ IsLive(lib[d].cols[c]) /\ \A r \in Rec : <<c, r>> \notin AskedMems(d) )
         => MembersOf(lib[d], c) \subseteq MembersOf(pass'[d].state, c)]_vars

(* A pass that brings nothing new neither writes the tables again nor      *)
(* saves another recovery point.                                           *)
CleanCheckWritesNothing ==
  [][\A d \in Device :
       pass[d].running /\ ~pass'[d].running /\ ~dirty[d] /\ pass[d].state = lib[d] => ~Rewrites(d)]_vars
=============================================================================
