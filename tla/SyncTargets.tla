---------------------------- MODULE SyncTargets ----------------------------
(***************************************************************************)
(* Several WebDAV targets, of which one is active: sync_targets.rs, the    *)
(* credentials of secret_store.rs, the settings pages that probe, activate *)
(* and disconnect a target (MobileSyncSettingsPage.tsx,                    *)
(* useSyncSettings.ts), and a sync pass that runs meanwhile.               *)
(*                                                                         *)
(* Every target keeps its own baseline and outbox in the database under    *)
(* keys with its id; before there were targets they had none (Unscoped).   *)
(* Contents are sets of items that only grow: what a merge decides is the  *)
(* matter of SyncMerge, here only where a content may end up matters.  A   *)
(* database command holds the connection's mutex and is one step, unless   *)
(* it fails between two writes that no transaction joins.                  *)
(***************************************************************************)
EXTENDS Naturals

CONSTANTS Url, User, Password, Item,
          Right,          \* the password the servers accept
          Mobile,         \* the Android page, else the desktop's settings tab
          Undecipherable, \* old credentials may turn out to be unreadable
          MaxEpoch,       \* bound on the target epoch
          Unscoped, None

Target == [url : Url, user : User]
Key    == Target \cup {Unscoped}

ASSUME SyncTargetsAssumption ==
  /\ Right \in Password
  /\ {Mobile, Undecipherable} \subseteq BOOLEAN
  /\ Unscoped \notin Target /\ None \notin Target /\ \A c \in SUBSET Item : None # c

VARIABLES
  cloud,     \* cloud[t]: the content of t's records-v3.json, None if missing
  lib,       \* the library
  registry,  \* the stored registry, None before its first use
  legacy,    \* credentials from before there were targets, or None
  base,      \* base[k]: the baseline stored under k, or None
  pending,   \* pending[k]: the outbox stored under k
  vault,     \* vault[t]: the password in the system's secret store, or None
  ref,       \* ref[t]: what the setting with t's credentials holds
  form,      \* the inputs of the settings page and the probe it shows
  page,      \* the operation the settings page is busy with, or None
  pass,      \* the sync pass under way, or None
  probed     \* history: what probes have succeeded

db   == <<registry, legacy, base, pending, ref>>
vars == <<cloud, lib, registry, legacy, base, pending, vault, ref, form, page, pass, probed>>

Content  == SUBSET Item
Registry == [active : Target \cup {None}, epoch : 0..MaxEpoch]
Form     == [target : Target, password : Password \cup {None}, probe : BOOLEAN]
Op       == {"probing", "telling", "syncing"}
Page     == [op : Op, target : Target, password : Password]
Stage    == {"checking", "fetching", "fetched", "sent", "merged", "reloading"}
Pass     == [at : Stage, target : Target, epoch : 0..MaxEpoch, touched : BOOLEAN,
             lib : Content, base : Content, remote : {None} \cup Content]

(* None is no password, no credentials, no registry, no operation, no pass. *)
ASSUME NoneAssumption ==
  /\ None \notin Password /\ None \notin [target : Target, readable : BOOLEAN]
  /\ None \notin Registry /\ None \notin Page /\ None \notin Pass
ASSUME BoundAssumption == MaxEpoch \in Nat \ {0}

TypeOK ==
  /\ cloud \in [Target -> {None} \cup Content] /\ lib \in Content
  /\ registry \in Registry \cup {None}
  /\ legacy \in [target : Target, readable : BOOLEAN] \cup {None}
  /\ base \in [Key -> {None} \cup Content] /\ pending \in [Key -> BOOLEAN]
  /\ vault \in [Target -> Password \cup {None}]
  /\ ref \in [Target -> {"none", "legacy", "vault"}]
  /\ form \in Form /\ page \in Page \cup {None} /\ pass \in Pass \cup {None}
  /\ probed \subseteq Target \X Password

Held(c) == IF c = None THEN {} ELSE c

(* A new installation, or one that synchronised with one target before     *)
(* there were several.                                                     *)
Init ==
  /\ \E c \in Content : cloud \in [Target -> {c, None}]
  /\ lib \in Content
  /\ registry = None
  /\ legacy \in {None} \cup [target : Target, readable : {TRUE} \cup {~Undecipherable}]
  /\ legacy # None => cloud[legacy.target] # None
  /\ base = [k \in Key |-> IF legacy # None /\ k = Unscoped THEN cloud[legacy.target] ELSE None]
  /\ pending = [k \in Key |-> k = Unscoped /\ ~(lib \subseteq Held(base[k]))]
  /\ vault = [t \in Target |-> None] /\ ref = [t \in Target |-> "none"]
  /\ form \in [target : Target, password : {None}, probe : {FALSE}]
  /\ page = None /\ pass = None /\ probed = {}
-----------------------------------------------------------------------------
(* The registry.                                                           *)

NewRegistry == [active |-> None, epoch |-> 0]

(* active_key: where the outbox is that a local write marks.               *)
Active    == IF registry = None THEN None ELSE registry.active
ActiveKey == IF Active = None THEN Unscoped ELSE Active

(* Deviation: any active target will do.                                   *)
VerifiedLoosely(target, epoch) == Active # None

(* verify_context.                                                         *)
Verified(target, epoch) == Active = target /\ registry.epoch = epoch

Available(t) == ref[t] = "legacy" \/ (ref[t] = "vault" /\ vault[t] # None)

(* The scoped keys take over the values of the unscoped ones.              *)
Rescoped(f, t, empty) == [f EXCEPT ![t] = f[Unscoped], ![Unscoped] = empty]

(* ensure_migrated, at the start of every command about targets.           *)
EnsureMigrated ==
  /\ registry = None
  /\ legacy # None => legacy.readable
  /\ IF legacy = None
       THEN registry' = NewRegistry /\ UNCHANGED <<legacy, base, pending, ref>>
       ELSE /\ registry' = [active |-> legacy.target, epoch |-> 1]
            /\ base' = Rescoped(base, legacy.target, None)
            /\ pending' = Rescoped(pending, legacy.target, FALSE)
            /\ ref' = [ref EXCEPT ![legacy.target] = "legacy"]
            /\ legacy' = None
  /\ UNCHANGED <<cloud, lib, vault, form, page, pass, probed>>

(* resolve_or_migrate: an old credential goes to the vault once a request  *)
(* needs it; it may fail between the vault and the setting.                *)
MigrateSecret(t) ==
  /\ Active = t /\ ref[t] = "legacy"
  /\ vault' = [vault EXCEPT ![t] = Right]
  /\ ref' \in {ref, [ref EXCEPT ![t] = "vault"]}
  /\ UNCHANGED <<cloud, lib, registry, legacy, base, pending, form, page, pass, probed>>

(* Deviation: switching back to a known target rebuilds nothing.           *)
ActivatedAsLeft(t) ==
  /\ registry' = IF Active = t THEN registry
                 ELSE [active |-> t, epoch |-> registry.epoch + 1]
  /\ ref' = [ref EXCEPT ![t] = "vault"]
  /\ UNCHANGED <<legacy, base, pending>>

(* activate on a migrated registry: a switch rebuilds the staging from the *)
(* library and the target's baseline, and queues what differs.             *)
Activated(t) ==
  /\ registry' = IF Active = t THEN registry
                 ELSE [active |-> t, epoch |-> registry.epoch + 1]
  /\ ref' = [ref EXCEPT ![t] = "vault"]
  /\ pending' = [pending EXCEPT ![t] = @ \/ (Active # t /\ lib # Held(base[t]))]
  /\ UNCHANGED <<legacy, base>>

(* activate when the old credentials cannot be read (replacement_registry):*)
(* the entered target takes over what belongs to the old one.              *)
Replaced(t) ==
  /\ registry' = [active |-> t, epoch |-> 1]
  /\ base' = Rescoped(base, t, None)
  /\ pending' = Rescoped(pending, t, FALSE)
  /\ ref' = [ref EXCEPT ![t] = "vault"]
  /\ legacy' = None

(* The command activate: the secret is written first; what follows is one  *)
(* transaction, which may fail.                                            *)
ActivateTarget(t, password, done) ==
  /\ vault' = [vault EXCEPT ![t] = password]
  /\ IF ~done THEN UNCHANGED db
     ELSE IF registry # None
     THEN registry.epoch < MaxEpoch /\ Activated(t)
     ELSE /\ legacy # None /\ ~legacy.readable
          /\ Replaced(t)
-----------------------------------------------------------------------------
(* The settings pages.                                                     *)

(* The inputs of the Android page stay open while it is busy; an edit      *)
(* takes the shown probe away.                                             *)
EditInput ==
  /\ page # None => Mobile /\ page.op = "probing"
  /\ \E t \in Target, p \in Password \cup {None} :
       form' = [target |-> t, password |-> p, probe |-> FALSE]
  /\ UNCHANGED <<cloud, lib, db, vault, page, pass, probed>>

RunProbe ==
  /\ Mobile /\ page = None /\ form.password # None
  /\ page' = [op |-> "probing", target |-> form.target, password |-> form.password]
  /\ form' = [form EXCEPT !.probe = FALSE]
  /\ UNCHANGED <<cloud, lib, db, vault, pass, probed>>

(* The answer; the address goes back into the form, normalised.            *)
Probed ==
  /\ Mobile /\ page # None /\ page.op = "probing"
  /\ page' = None
  /\ \/ /\ page.password = Right
        /\ form' = [form EXCEPT !.target.url = page.target.url, !.probe = TRUE]
        /\ probed' = probed \cup {<<page.target, page.password>>}
     \/ UNCHANGED <<form, probed>>
  /\ UNCHANGED <<cloud, lib, db, vault, pass>>

(* activate of the page; on failure the password input is emptied.         *)
ActivateMobile ==
  /\ Mobile /\ page = None /\ form.probe /\ form.password # None
  /\ \E done \in BOOLEAN :
       /\ ActivateTarget(form.target, form.password, done)
       /\ form' = [form EXCEPT !.password = None, !.probe = @ /\ ~done]
       /\ page' = IF done THEN [op |-> "telling", target |-> form.target,
                                password |-> form.password] ELSE None
  /\ UNCHANGED <<cloud, lib, pass, probed>>

(* Deviation: the user name is not part of a target's identity.            *)
SameAddress(t) ==
  IF Active = None THEN FALSE ELSE Available(Active) /\ Active.url = t.url

(* handleSave of the desktop: the active target's own password may be      *)
(* replaced without a probe.                                               *)
SameIdentity(t) == IF Active = t THEN Available(t) ELSE FALSE

HandleSave ==
  /\ ~Mobile /\ page = None /\ form.password # None /\ ~SameIdentity(form.target)
  /\ page' = [op |-> "probing", target |-> form.target, password |-> form.password]
  /\ UNCHANGED <<cloud, lib, db, vault, form, pass, probed>>

ActivateDesktop(t, password) ==
  \E done \in BOOLEAN :
    /\ ActivateTarget(t, password, done)
    /\ form' = [form EXCEPT !.password = IF done THEN None ELSE @]
    /\ page' = IF done THEN [op |-> "syncing", target |-> t, password |-> password] ELSE None

SaveProbed ==
  /\ ~Mobile /\ page # None /\ page.op = "probing"
  /\ \/ /\ page.password = Right
        /\ ActivateDesktop(page.target, page.password)
        /\ probed' = probed \cup {<<page.target, page.password>>}
     \/ page' = None /\ UNCHANGED <<db, vault, form, probed>>
  /\ UNCHANGED <<cloud, lib, pass>>

SavePassword ==
  /\ ~Mobile /\ page = None /\ form.password # None /\ SameIdentity(form.target)
  /\ ActivateDesktop(form.target, form.password)
  /\ UNCHANGED <<cloud, lib, pass, probed>>

(* disconnect: the vault, then the setting, then the registry; it may stop *)
(* after each.                                                             *)
Disconnect ==
  /\ page = None /\ Active # None /\ registry.epoch < MaxEpoch
  /\ vault' = [vault EXCEPT ![Active] = None]
  /\ \/ UNCHANGED <<registry, ref>>
     \/ ref' = [ref EXCEPT ![Active] = "none"] /\ UNCHANGED registry
     \/ /\ ref' = [ref EXCEPT ![Active] = "none"]
        /\ registry' = [active |-> None, epoch |-> registry.epoch + 1]
  /\ UNCHANGED <<cloud, lib, legacy, base, pending, form, page, pass, probed>>
-----------------------------------------------------------------------------
(* The library and the cloud.                                              *)

(* mark_local_records_mutated.                                             *)
Mark == IF registry # None /\ Active = None THEN pending
        ELSE [pending EXCEPT ![ActiveKey] = TRUE]

LocalWrite ==
  /\ \E x \in Item \ lib : lib' = lib \cup {x}
  /\ pending' = Mark
  /\ pass' = IF pass # None /\ pass.at \notin {"checking", "reloading"}
               THEN [pass EXCEPT !.touched = TRUE] ELSE pass
  /\ UNCHANGED <<cloud, registry, legacy, base, vault, ref, form, page, probed>>

OtherDevice ==
  /\ \E t \in Target, x \in Item : cloud' = [cloud EXCEPT ![t] = Held(@) \cup {x}]
  /\ UNCHANGED <<lib, db, vault, form, page, pass, probed>>
-----------------------------------------------------------------------------
(* A sync pass; the coordinator starts one at any time, one at a time.     *)

NewPass == [at |-> "checking", target |-> Active, epoch |-> registry.epoch, touched |-> FALSE,
            lib |-> {}, base |-> {}, remote |-> None]

(* getCreds.                                                               *)
PassStart ==
  /\ pass = None /\ Active # None /\ Available(Active)
  /\ pass' = NewPass
  /\ UNCHANGED <<cloud, lib, db, vault, form, page, probed>>

(* The folder request and getSyncSnapshot, whose target must be the one    *)
(* the credentials are for.                                                *)
PassSnapshot ==
  /\ pass # None /\ pass.at = "checking" /\ Verified(pass.target, pass.epoch)
  /\ pass' = [pass EXCEPT !.at = "fetching", !.lib = lib, !.base = Held(base[pass.target])]
  /\ UNCHANGED <<cloud, lib, db, vault, form, page, probed>>

(* A request resolves the credentials anew and refuses a stale target.     *)
PassGet ==
  /\ pass # None /\ pass.at = "fetching" /\ Verified(pass.target, pass.epoch)
  /\ pass' = [pass EXCEPT !.at = "fetched", !.remote = cloud[pass.target]]
  /\ UNCHANGED <<cloud, lib, db, vault, form, page, probed>>

Merged == pass.lib \cup pass.base \cup Held(pass.remote)

PassMerge ==
  /\ pass # None /\ pass.at = "fetched" /\ Verified(pass.target, pass.epoch)
  /\ pass' = [pass EXCEPT !.at = IF Merged = pass.remote THEN "merged" ELSE "sent"]
  /\ UNCHANGED <<cloud, lib, db, vault, form, page, probed>>

(* The conditional PUT reaches the server, whatever happened here since.   *)
PassPut ==
  /\ pass # None /\ pass.at = "sent"
  /\ IF cloud[pass.target] = pass.remote
       THEN /\ cloud' = [cloud EXCEPT ![pass.target] = Merged]
            /\ pass' = [pass EXCEPT !.at = "merged"]
       ELSE /\ pass' = [pass EXCEPT !.at = "fetching", !.remote = None]
            /\ UNCHANGED cloud
  /\ UNCHANGED <<lib, db, vault, form, page, probed>>

(* commit_sync_result writes under the key that is active by then.         *)
PassCommit ==
  /\ pass # None /\ pass.at = "merged"
  /\ Verified(pass.target, pass.epoch) /\ ~pass.touched
  /\ lib' = Merged
  /\ base' = [base EXCEPT ![ActiveKey] = Merged]
  /\ pending' = [pending EXCEPT ![ActiveKey] = FALSE]
  /\ pass' = [pass EXCEPT !.at = "reloading"]
  /\ UNCHANGED <<cloud, registry, legacy, vault, ref, form, page, probed>>

(* A settings page that waits for a sync gets the answer of the pass that  *)
(* runs: syncInFlightRef.                                                  *)
Answered == IF page # None /\ page.op = "syncing" THEN None ELSE page

PassReload ==
  /\ pass # None /\ pass.at = "reloading"
  /\ pass' = None /\ page' = Answered
  /\ UNCHANGED <<cloud, lib, db, vault, form, probed>>

(* A refused request, a network failure, a library that moved; a request   *)
(* that was sent may have reached the server, which PassPut shows.         *)
PassFail ==
  /\ pass # None /\ pass.at # "reloading"
  /\ pass' = None /\ page' = Answered
  /\ UNCHANGED <<cloud, lib, db, vault, form, probed>>

(* onConfigurationChanged returns, the page asks for the first sync.       *)
Told ==
  /\ page # None /\ page.op = "telling"
  /\ page' = [page EXCEPT !.op = "syncing"]
  /\ UNCHANGED <<cloud, lib, db, vault, form, pass, probed>>

Settings == EditInput \/ RunProbe \/ Probed \/ ActivateMobile \/ HandleSave \/ SaveProbed
            \/ SavePassword \/ Disconnect \/ Told
Syncing  == PassStart \/ PassSnapshot \/ PassGet \/ PassMerge \/ PassPut \/ PassCommit
            \/ PassReload \/ PassFail

Next == EnsureMigrated \/ (\E t \in Target : MigrateSecret(t)) \/ Settings \/ Syncing
        \/ LocalWrite \/ OtherDevice
Spec == Init /\ [][Next]_vars
-----------------------------------------------------------------------------
(* Properties.                                                             *)

(* The targets are isolated: what a device takes for the last common state *)
(* with a target is content of that target's cloud, whatever was switched  *)
(* while a pass was under way.  Otherwise a merge would take another       *)
(* cloud's records for ones this cloud has deleted.                        *)
Isolation == \A t \in Target : base[t] # None => Held(base[t]) \subseteq Held(cloud[t])

(* What the active target lacks is queued for it, also what was written    *)
(* while another target, or none, was active.                              *)
DifferenceIsQueued ==
  Active # None => pending[Active] \/ lib \subseteq Held(base[Active])

(* Only a target that answered a probe with the very user and password is  *)
(* made the active one (docs/PROJECT_PLAN.md:153).                         *)
ActivatesProbed == Active' \notin {Active, None} /\ legacy = None => <<Active', vault'[Active']>> \in probed'
OnlyProbedIsActivated == [][ActivatesProbed]_vars

(* "First sync done" is said of the target that was activated: it has a    *)
(* baseline by then (docs/PROJECT_PLAN.md:164).                            *)
FirstSyncWasOfTheTarget ==
  [][page # None /\ page.op = "syncing" /\ page' = None /\ pass.at = "reloading"
     => base[page.target] # None]_vars
=============================================================================
