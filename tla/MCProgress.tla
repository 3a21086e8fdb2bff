----------------------------- MODULE MCProgress ------------------------------
(* The pages of the mobile surface (MobileNavigation, extended here) and    *)
(* the collections of two devices, with what must happen eventually: a page *)
(* is left, the devices agree. They share no state, so one of them runs,    *)
(* whichever the initial state says, and each brings the fairness of its    *)
(* own actions.                                                             *)
EXTENDS MobileNavigation, TLC

CONSTANTS p1, p2

VARIABLES
  part,   \* the component that runs
  lib, base, cloud, merging, dirty, at, author, written, disputed,
  unconfirmed   \* CollectionSync

\* Each of two devices creates a collection besides the one they share.
Phones == {"one", "other"}
Cids == {1, 2}
Recs == {p1, p2}
Names == 1..3
OwnNames == (1 :> {1, 3}) @@ (2 :> {2})
EachCreates == (1 :> "one") @@ (2 :> "other")
OneShared == 1 :> 1
TwoFiled == (<<1, p1>> :> 0) @@ (<<1, p2>> :> 1)

Bar == {"stats", "settings"}

Collections == INSTANCE CollectionSync WITH
  Device <- Phones, Cid <- Cids, Rec <- Recs, Name <- Names, NamesOf <- OwnNames,
  Creator <- EachCreates, Shared <- OneShared, Filed <- TwoFiled, MaxAt <- 2,
  pass <- merging

ASSUME ProgressAssumption == Collections!CollectionAssumption

CollectionVars == <<lib, base, cloud, merging, dirty, at, author, written, disputed,
  unconfirmed>>

\* A component that does not run has no state.
NoCollection == lib = None /\ base = None /\ cloud = None /\ merging = None /\
  dirty = None /\ at = None /\ author = None /\ written = None /\ disputed = None /\
  unconfirmed = None

AllInit ==
  \/ part = "pages"       /\ Init /\ NoCollection
  \/ part = "collections" /\ Collections!Init /\ Init

AllNext ==
  \/ part = "pages"       /\ Next /\ UNCHANGED <<part, CollectionVars>>
  \/ part = "collections" /\ Collections!Next /\ UNCHANGED <<part, vars>>

allVars == <<part, vars, CollectionVars>>
\* The fairness of the two specifications, each for the part that runs.
AllFairness ==
  /\ WF_vars(Traverse) /\ WF_vars(LeaveGone)
  /\ \A d \in Phones : /\ WF_CollectionVars(part = "collections" /\ Collections!Start(d))
                       /\ WF_CollectionVars(part = "collections" /\ Collections!Commit(d))

AllSpec == AllInit /\ [][AllNext]_allVars /\ AllFairness
------------------------------------------------------------------------------
\* Once nobody edits, every device comes to show what the cloud file has
\* (collectionSync.ts; the periodic check).
Converges == <>[](part = "collections" => Collections!InStep)
==============================================================================
