------------------------- MODULE SyncTargetsProofs -------------------------
(***************************************************************************)
(* The targets stay apart, and what a target lacks is queued for it, for   *)
(* any number of targets, items and switches.                              *)
(***************************************************************************)
EXTENDS Targets, TLAPS

(* Before the first use of the registry the unscoped baseline is that of   *)
(* the one target there was; afterwards there is none.                     *)
UnscopedIsLegacy ==
  /\ registry # None => legacy = None
  /\ base[Unscoped] # None => legacy # None /\ Held(base[Unscoped]) \subseteq Held(cloud[legacy.target])

(* What a pass has read is in its target's cloud, and so is the merge that *)
(* it is about to commit.                                                  *)
MergeIsStored ==
  pass # None =>
    /\ Held(pass.remote) \subseteq Held(cloud[pass.target])
    /\ pass.at = "merged" => Merged \subseteq Held(cloud[pass.target])

(* While there is no registry, the unscoped outbox queues for the target   *)
(* that will be the first.                                                 *)
FirstIsQueued == registry = None => pending[Unscoped] \/ lib \subseteq Held(base[Unscoped])

OldAreReadable == legacy # None => legacy.readable

-----------------------------------------------------------------------------
(*                                  Types                                  *)

(* The active target, if there is one, and the contents that are merged.   *)
LEMMA ContentTypes ==
  ASSUME TypeOK
  PROVE  /\ Active \in Target \cup {None} /\ ActiveKey \in Key
         /\ \A k \in Key : Held(base[k]) \in Content
         /\ \A t \in Target : Held(cloud[t]) \in Content
         /\ pass # None => Merged \in Content
<1>1. Active \in Target \cup {None}
  BY DEF TypeOK, Active, Registry
<1>2. ActiveKey \in Key
  BY <1>1 DEF ActiveKey, Key
<1>3. ASSUME NEW c \in {None} \cup Content
      PROVE  Held(c) \in Content
  BY <1>3 DEF Held, Content
<1>4. ASSUME pass # None
      PROVE  Merged \in Content
  <2>1. pass.lib \in Content /\ pass.base \in Content /\ Held(pass.remote) \in Content
    BY <1>3, <1>4 DEF TypeOK, Pass
  <2>. QED  BY <2>1 DEF Merged, Content
<1>. QED  BY <1>1, <1>2, <1>3, <1>4 DEF TypeOK

(* A target takes over the value of the unscoped key; the others stay.     *)
LEMMA RescopedTypes ==
  ASSUME NEW S, NEW f \in [Key -> S], NEW t \in Target, NEW e \in S
  PROVE  /\ Rescoped(f, t, e) \in [Key -> S]
         /\ Rescoped(f, t, e)[t] = f[Unscoped] /\ Rescoped(f, t, e)[Unscoped] = e
         /\ \A o \in Target \ {t} : Rescoped(f, t, e)[o] = f[o]
BY SyncTargetsAssumption DEF Rescoped, Key

(* A target becomes the active one: types, and what changes.               *)
LEMMA ActivateTypes ==
  ASSUME TypeOK, NEW t \in Target, NEW password \in Password, NEW done \in BOOLEAN,
         ActivateTarget(t, password, done)
  PROVE  /\ vault' \in [Target -> Password \cup {None}]
         /\ registry' \in Registry \cup {None}
         /\ legacy' \in [target : Target, readable : BOOLEAN] \cup {None}
         /\ base' \in [Key -> {None} \cup Content] /\ pending' \in [Key -> BOOLEAN]
         /\ ref' \in [Target -> {"none", "legacy", "vault"}]
<1>. USE DEF TypeOK
<1>1. vault' \in [Target -> Password \cup {None}]
  BY DEF ActivateTarget
<1>2. CASE UNCHANGED db
  BY <1>1, <1>2 DEF db
<1>3. CASE registry # None /\ registry.epoch < MaxEpoch /\ Activated(t)
  <2>1. registry' \in Registry
    BY <1>3, BoundAssumption DEF Activated, Registry
  <2>2. pending' \in [Key -> BOOLEAN]
    BY <1>3 DEF Activated, Key
  <2>. QED  BY <1>1, <1>3, <2>1, <2>2 DEF Activated
<1>4. CASE Replaced(t)
  <2>1. registry' \in Registry
    BY <1>4, BoundAssumption DEF Replaced, Registry
  <2>. QED  BY <1>1, <1>4, <2>1 DEF Replaced, Rescoped, Key
<1>. QED  BY <1>2, <1>3, <1>4 DEF ActivateTarget

(* Every step keeps the types.                                             *)
LEMMA TypesKept ==
  ASSUME TypeOK, [Next]_vars
  PROVE  TypeOK'
<1>. USE SyncTargetsAssumption, BoundAssumption, NoneAssumption DEF TypeOK, db
<1>c. Active \in Target \cup {None} /\ ActiveKey \in Key /\ (pass # None => Merged \in Content)
      /\ \A k \in Key : Held(base[k]) \in Content
  BY ContentTypes
<1>p. page' = Answered => page' \in Page \cup {None}
  BY DEF Answered
<1>1. ASSUME EnsureMigrated
      PROVE  TypeOK'
  <2>1. CASE legacy = None
    <3>1. registry' \in Registry
      BY <1>1, <2>1 DEF EnsureMigrated, NewRegistry, Registry
    <3>. QED  BY <1>1, <2>1, <3>1 DEF EnsureMigrated
  <2>2. CASE legacy # None
    <3>1. legacy.target \in Target
      BY <2>2
    <3>2. registry' \in Registry
      BY <1>1, <2>2, <3>1 DEF EnsureMigrated, Registry
    <3>3. base' \in [Key -> {None} \cup Content] /\ pending' \in [Key -> BOOLEAN]
      <4>1. Rescoped(base, legacy.target, None) \in [Key -> {None} \cup Content]
        BY <3>1, RescopedTypes
      <4>2. Rescoped(pending, legacy.target, FALSE) \in [Key -> BOOLEAN]
        BY <3>1, RescopedTypes
      <4>. QED  BY <1>1, <2>2, <4>1, <4>2 DEF EnsureMigrated
    <3>4. ref' \in [Target -> {"none", "legacy", "vault"}] /\ legacy' = None
      BY <1>1, <2>2, <3>1 DEF EnsureMigrated
    <3>. QED  BY <1>1, <3>2, <3>3, <3>4 DEF EnsureMigrated
  <2>. QED  BY <2>1, <2>2
<1>2. ASSUME NEW t \in Target, MigrateSecret(t)
      PROVE  TypeOK'
  BY <1>c, <1>p, <1>2 DEF MigrateSecret
<1>3. ASSUME EditInput
      PROVE  TypeOK'
  BY <1>c, <1>p, <1>3 DEF EditInput, Form
<1>4. ASSUME RunProbe
      PROVE  TypeOK'
  BY <1>c, <1>p, <1>4 DEF RunProbe, Page, Form, Op
<1>5. ASSUME Probed
      PROVE  TypeOK'
  <2>1. page.target \in Target /\ page.password \in Password /\ page' = None
    BY <1>5 DEF Probed, Page
  <2>2. CASE form' = [form EXCEPT !.target.url = page.target.url, !.probe = TRUE]
             /\ probed' = probed \cup {<<page.target, page.password>>}
    <3>1. form' \in Form
      <4>1. page.target.url \in Url
        BY <2>1 DEF Target
      <4>. QED  BY <2>2, <4>1 DEF Form, Target
    <3>. QED  BY <1>5, <2>1, <2>2, <3>1 DEF Probed
  <2>3. CASE UNCHANGED <<form, probed>>
    BY <1>5, <2>1, <2>3 DEF Probed
  <2>. QED  BY <1>5, <2>2, <2>3 DEF Probed
<1>6. ASSUME ActivateMobile
      PROVE  TypeOK'
  <2>1. form.target \in Target /\ form.password \in Password
    BY <1>6 DEF ActivateMobile, Form
  <2>2. PICK done \in BOOLEAN : ActivateTarget(form.target, form.password, done)
    BY <1>6 DEF ActivateMobile
  <2>3. /\ vault' \in [Target -> Password \cup {None}]
        /\ registry' \in Registry \cup {None}
        /\ legacy' \in [target : Target, readable : BOOLEAN] \cup {None}
        /\ base' \in [Key -> {None} \cup Content] /\ pending' \in [Key -> BOOLEAN]
        /\ ref' \in [Target -> {"none", "legacy", "vault"}]
    BY <2>1, <2>2, ActivateTypes
  <2>4. form' \in Form /\ page' \in Page \cup {None}
    <3>1. PICK ok \in BOOLEAN :
            /\ form' = [form EXCEPT !.password = None, !.probe = @ /\ ~ok]
            /\ page' = IF ok THEN [op |-> "telling", target |-> form.target,
                                     password |-> form.password] ELSE None
      BY <1>6 DEF ActivateMobile
    <3>2. form' \in Form
      BY <3>1 DEF Form
    <3>. QED  BY <2>1, <3>1, <3>2 DEF Page, Op
  <2>. QED  BY <1>6, <2>3, <2>4 DEF ActivateMobile
<1>7. ASSUME HandleSave
      PROVE  TypeOK'
  BY <1>c, <1>p, <1>7 DEF HandleSave, Form, Page, Op
<1>8. ASSUME SaveProbed
      PROVE  TypeOK'
  <2>1. page.target \in Target /\ page.password \in Password
    BY <1>8 DEF SaveProbed, Page
  <2>2. CASE ActivateDesktop(page.target, page.password) /\ probed' = probed \cup {<<page.target, page.password>>}
    <3>2. PICK done \in BOOLEAN : ActivateTarget(page.target, page.password, done)
      BY <2>2 DEF ActivateDesktop
    <3>3. /\ vault' \in [Target -> Password \cup {None}]
          /\ registry' \in Registry \cup {None}
          /\ legacy' \in [target : Target, readable : BOOLEAN] \cup {None}
          /\ base' \in [Key -> {None} \cup Content] /\ pending' \in [Key -> BOOLEAN]
          /\ ref' \in [Target -> {"none", "legacy", "vault"}]
      BY <2>1, <3>2, ActivateTypes
    <3>4. form' \in Form /\ page' \in Page \cup {None}
      BY <2>1, <2>2 DEF ActivateDesktop, Form, Page, Op
    <3>. QED  BY <1>8, <2>1, <2>2, <3>3, <3>4 DEF SaveProbed
  <2>3. CASE page' = None /\ UNCHANGED <<db, vault, form, probed>>
    BY <1>8, <2>3 DEF SaveProbed
  <2>. QED  BY <1>8, <2>2, <2>3 DEF SaveProbed
<1>9. ASSUME SavePassword
      PROVE  TypeOK'
  <2>1. form.target \in Target /\ form.password \in Password
    BY <1>9 DEF SavePassword, Form
  <2>2. PICK done \in BOOLEAN : ActivateTarget(form.target, form.password, done)
    BY <1>9 DEF SavePassword, ActivateDesktop
  <2>3. /\ vault' \in [Target -> Password \cup {None}]
        /\ registry' \in Registry \cup {None}
        /\ legacy' \in [target : Target, readable : BOOLEAN] \cup {None}
        /\ base' \in [Key -> {None} \cup Content] /\ pending' \in [Key -> BOOLEAN]
        /\ ref' \in [Target -> {"none", "legacy", "vault"}]
    BY <2>1, <2>2, ActivateTypes
  <2>4. form' \in Form /\ page' \in Page \cup {None}
    BY <1>9, <2>1 DEF SavePassword, ActivateDesktop, Form, Page, Op
  <2>. QED  BY <1>9, <2>3, <2>4 DEF SavePassword
<1>10. ASSUME Disconnect
       PROVE  TypeOK'
  <2>1. Active \in Target /\ registry \in Registry
    BY <1>c, <1>10 DEF Disconnect, Active
  <2>2. ref' \in [Target -> {"none", "legacy", "vault"}]
    BY <1>10, <2>1 DEF Disconnect
  <2>3. registry' \in Registry
    <3>1. [active |-> None, epoch |-> registry.epoch + 1] \in Registry
      BY <1>10, <2>1 DEF Disconnect, Registry
    <3>. QED  BY <1>10, <2>1, <3>1 DEF Disconnect
  <2>4. vault' \in [Target -> Password \cup {None}]
    BY <1>10, <2>1 DEF Disconnect
  <2>. QED  BY <1>10, <2>2, <2>3, <2>4 DEF Disconnect
<1>11. ASSUME Told
       PROVE  TypeOK'
  BY <1>c, <1>p, <1>11 DEF Told, Page, Op
<1>12. ASSUME PassStart
       PROVE  TypeOK'
  <2>1. Active \in Target /\ registry.epoch \in 0..MaxEpoch
    BY <1>c, <1>12 DEF PassStart, Active, Registry
  <2>2. NewPass \in Pass
    BY <2>1 DEF NewPass, Pass, Stage, Content
  <2>. QED  BY <1>12, <2>2 DEF PassStart
<1>13. ASSUME PassSnapshot
       PROVE  TypeOK'
  BY <1>c, <1>p, <1>13 DEF PassSnapshot, Pass, Stage, Key
<1>14. ASSUME PassGet
       PROVE  TypeOK'
  BY <1>c, <1>p, <1>14 DEF PassGet, Pass, Stage
<1>15. ASSUME PassMerge
       PROVE  TypeOK'
  BY <1>c, <1>p, <1>15 DEF PassMerge, Pass, Stage
<1>16. ASSUME PassPut
       PROVE  TypeOK'
  <2>1. pass \in Pass /\ Merged \in Content
    BY <1>c, <1>16 DEF PassPut
  <2>2. CASE cloud[pass.target] = pass.remote
    <3>1. cloud' \in [Target -> {None} \cup Content]
      BY <1>16, <2>1, <2>2 DEF PassPut, Pass
    <3>2. pass' \in Pass
      BY <1>16, <2>1, <2>2 DEF PassPut, Pass, Stage
    <3>. QED  BY <1>16, <3>1, <3>2 DEF PassPut
  <2>3. CASE cloud[pass.target] # pass.remote
    <3>1. pass' \in Pass
      BY <1>16, <2>1, <2>3 DEF PassPut, Pass, Stage
    <3>. QED  BY <1>16, <2>3, <3>1 DEF PassPut
  <2>. QED  BY <2>2, <2>3
<1>17. ASSUME PassCommit
       PROVE  TypeOK'
  BY <1>c, <1>p, <1>17 DEF PassCommit, Pass, Stage
<1>18. ASSUME PassReload
       PROVE  TypeOK'
  BY <1>c, <1>p, <1>18 DEF PassReload, Pass
<1>19. ASSUME PassFail
       PROVE  TypeOK'
  BY <1>c, <1>p, <1>19 DEF PassFail, Pass
<1>20. ASSUME LocalWrite
       PROVE  TypeOK'
  BY <1>c, <1>p, <1>20 DEF LocalWrite, Mark, Pass, Content
<1>21. ASSUME OtherDevice
       PROVE  TypeOK'
  BY <1>c, <1>p, <1>21 DEF OtherDevice, Content, Held
<1>22. CASE UNCHANGED vars
  BY <1>22 DEF vars
<1>. QED
  BY <1>1, <1>2, <1>3, <1>4, <1>5, <1>6, <1>7, <1>8, <1>9, <1>10, <1>11, <1>12, <1>13, <1>14, <1>15, <1>16, <1>17, <1>18, <1>19, <1>20, <1>21, <1>22 DEF Next, Settings, Syncing

(* What a device starts with is typed.                                     *)
LEMMA InitTyped == Init => TypeOK
<1>. SUFFICES ASSUME Init PROVE TypeOK
  OBVIOUS
<1>. USE NoneAssumption, SyncTargetsAssumption DEF Init
<1>1. cloud \in [Target -> {None} \cup Content]
  <2>1. PICK c \in Content : cloud \in [Target -> {c, None}]
    OBVIOUS
  <2>. QED  BY <2>1
<1>2. legacy \in [target : Target, readable : BOOLEAN] \cup {None}
  OBVIOUS
<1>3. base \in [Key -> {None} \cup Content] /\ pending \in [Key -> BOOLEAN]
  BY <1>1, <1>2
<1>4. form \in Form
  BY DEF Form
<1>. QED  BY <1>1, <1>2, <1>3, <1>4 DEF TypeOK

(* TypeOK of the runs: the variables have their types.                     *)
THEOREM TypeOKHolds == Spec => []TypeOK
BY InitTyped, TypesKept, PTL DEF Spec
-----------------------------------------------------------------------------
(*                     What a target lacks is queued                       *)

Queued == DifferenceIsQueued /\ FirstIsQueued

(* Activating a target queues what differs from it.                        *)
LEMMA ActivateQueues ==
  ASSUME TypeOK, Queued, NEW t \in Target, NEW password \in Password, NEW done \in BOOLEAN,
         ActivateTarget(t, password, done), UNCHANGED lib
  PROVE  Queued'
<1>. USE SyncTargetsAssumption, NoneAssumption DEF Queued, DifferenceIsQueued, FirstIsQueued
<1>1. CASE UNCHANGED db
  BY <1>1 DEF db, Active
<1>b. registry # None /\ Activated(t) => registry.epoch < MaxEpoch \/ UNCHANGED db
  BY DEF ActivateTarget
<1>2. CASE registry # None /\ Activated(t) /\ ~UNCHANGED db
  <2>1. registry' # None /\ Active' = t
    <3>1. CASE Active = t
      BY <1>2, <3>1 DEF Activated, Active
    <3>2. CASE Active # t
      <4>1. registry.epoch + 1 \in 0..MaxEpoch
        BY <1>2, <1>b, BoundAssumption DEF TypeOK, Registry
      <4>2. registry' = [active |-> t, epoch |-> registry.epoch + 1]
        BY <1>2, <3>2 DEF Activated
      <4>3. registry' \in Registry
        BY <4>1, <4>2 DEF Registry
      <4>. QED  BY <4>2, <4>3 DEF Active
    <3>. QED  BY <3>1, <3>2
  <2>2. pending'[t] = (pending[t] \/ (Active # t /\ lib # Held(base[t]))) /\ base' = base
    BY <1>2 DEF Activated, TypeOK, Key
  <2>. QED  BY <2>1, <2>2
<1>3. CASE registry = None /\ Replaced(t) /\ legacy # None
  <2>1. registry' # None /\ Active' = t
    BY <1>3, BoundAssumption DEF Replaced, Active, Registry
  <2>2. pending'[t] = pending[Unscoped] /\ base'[t] = base[Unscoped]
    <3>1. base \in [Key -> {None} \cup Content] /\ pending \in [Key -> BOOLEAN]
      BY DEF TypeOK
    <3>2. Rescoped(base, t, None)[t] = base[Unscoped] /\ Rescoped(pending, t, FALSE)[t] = pending[Unscoped]
      BY <3>1, SyncTargetsAssumption DEF Rescoped, Key
    <3>. QED  BY <1>3, <3>2 DEF Replaced
  <2>. QED  BY <1>3, <2>1, <2>2
<1>. QED  BY <1>1, <1>2, <1>3 DEF ActivateTarget

(* No write, switch or commit leaves a difference that is not queued.      *)
LEMMA QueuedKept ==
  ASSUME TypeOK, Queued, [Next]_vars
  PROVE  Queued'
<1>. USE SyncTargetsAssumption, NoneAssumption DEF Queued, DifferenceIsQueued, FirstIsQueued, db
<1>t. TypeOK'
  BY TypesKept
<1>c. Active \in Target \cup {None} /\ ActiveKey \in Key
  BY ContentTypes
<1>1. ASSUME EnsureMigrated
      PROVE  Queued'
  <2>1. CASE legacy = None
    BY <1>1, <2>1 DEF EnsureMigrated, NewRegistry, Active, Registry
  <2>2. CASE legacy # None
    <3>1. legacy.target \in Target /\ UNCHANGED lib
      BY <1>1, <2>2 DEF TypeOK, EnsureMigrated
    <3>2. registry' # None /\ Active' = legacy.target
      BY <1>1, <2>2, <3>1, BoundAssumption DEF EnsureMigrated, Active, Registry
    <3>3. pending'[legacy.target] = pending[Unscoped] /\ base'[legacy.target] = base[Unscoped]
      <4>1. base \in [Key -> {None} \cup Content] /\ pending \in [Key -> BOOLEAN]
        BY DEF TypeOK
      <4>2. /\ Rescoped(base, legacy.target, None)[legacy.target] = base[Unscoped]
            /\ Rescoped(pending, legacy.target, FALSE)[legacy.target] = pending[Unscoped]
        BY <3>1, <4>1, SyncTargetsAssumption DEF Rescoped, Key
      <4>. QED  BY <1>1, <2>2, <4>2 DEF EnsureMigrated
    <3>. QED  BY <1>1, <3>1, <3>2, <3>3 DEF EnsureMigrated
  <2>. QED  BY <2>1, <2>2
<1>2. ASSUME NEW t \in Target, MigrateSecret(t)
      PROVE  Queued'
  BY <1>2 DEF MigrateSecret, Active
<1>3. ASSUME EditInput
      PROVE  Queued'
  BY <1>3 DEF EditInput, Active
<1>4. ASSUME RunProbe
      PROVE  Queued'
  BY <1>4 DEF RunProbe, Active
<1>5. ASSUME Probed
      PROVE  Queued'
  BY <1>5 DEF Probed, Active
<1>6. ASSUME ActivateMobile
      PROVE  Queued'
  <2>1. form.target \in Target /\ form.password \in Password
    BY <1>6 DEF ActivateMobile, Form, TypeOK
  <2>2. PICK done \in BOOLEAN : ActivateTarget(form.target, form.password, done)
    BY <1>6 DEF ActivateMobile
  <2>. QED  BY <1>6, <2>1, <2>2, ActivateQueues DEF ActivateMobile
<1>7. ASSUME HandleSave
      PROVE  Queued'
  BY <1>7 DEF HandleSave, Active
<1>8. ASSUME SaveProbed
      PROVE  Queued'
  <2>1. page.target \in Target /\ page.password \in Password /\ UNCHANGED lib
    BY <1>8 DEF SaveProbed, Page, TypeOK
  <2>2. CASE ActivateDesktop(page.target, page.password)
    <3>1. PICK done \in BOOLEAN : ActivateTarget(page.target, page.password, done)
      BY <2>2 DEF ActivateDesktop
    <3>. QED  BY <2>1, <3>1, ActivateQueues
  <2>3. CASE UNCHANGED db
    BY <2>1, <2>3 DEF Active
  <2>. QED  BY <1>8, <2>2, <2>3 DEF SaveProbed
<1>9. ASSUME SavePassword
      PROVE  Queued'
  <2>1. form.target \in Target /\ form.password \in Password
    BY <1>9 DEF SavePassword, Form, TypeOK
  <2>2. PICK done \in BOOLEAN : ActivateTarget(form.target, form.password, done)
    BY <1>9 DEF SavePassword, ActivateDesktop
  <2>. QED  BY <1>9, <2>1, <2>2, ActivateQueues DEF SavePassword
<1>10. ASSUME Disconnect
       PROVE  Queued'
  <2>1. UNCHANGED <<lib, base, pending>> /\ registry # None
    BY <1>10 DEF Disconnect, Active
  <2>2. CASE registry' = registry
    BY <2>1, <2>2 DEF Active
  <2>3. CASE registry' = [active |-> None, epoch |-> registry.epoch + 1]
    <3>1. registry' # None /\ Active' = None
      <4>1. registry' \in Registry
        BY <1>10, <2>1, <2>3, BoundAssumption DEF TypeOK, Registry, Disconnect
      <4>. QED  BY <2>3, <4>1 DEF Active
    <3>. QED  BY <2>1, <3>1
  <2>. QED  BY <1>10, <2>2, <2>3 DEF Disconnect
<1>11. ASSUME Told
       PROVE  Queued'
  BY <1>11 DEF Told, Active
<1>12. ASSUME PassStart
       PROVE  Queued'
  BY <1>12 DEF PassStart, Active
<1>13. ASSUME PassSnapshot
       PROVE  Queued'
  BY <1>13 DEF PassSnapshot, Active
<1>14. ASSUME PassGet
       PROVE  Queued'
  BY <1>14 DEF PassGet, Active
<1>15. ASSUME PassMerge
       PROVE  Queued'
  BY <1>15 DEF PassMerge, Active
<1>16. ASSUME PassPut
       PROVE  Queued'
  BY <1>16 DEF PassPut, Active
<1>17. ASSUME PassCommit
       PROVE  Queued'
  <2>1. registry # None /\ Active # None /\ ActiveKey = Active
    BY <1>c, <1>17 DEF PassCommit, Verified, Active, ActiveKey, TypeOK, Pass
  <2>2. Merged \in Content /\ Held(Merged) = Merged
    BY <1>17, ContentTypes DEF PassCommit, Held, Content
  <2>3. base'[Active] = Merged /\ lib' = Merged /\ registry' = registry /\ Active' = Active
    BY <1>c, <1>17, <2>1 DEF PassCommit, TypeOK, Active
  <2>. QED  BY <2>1, <2>2, <2>3
<1>18. ASSUME PassReload
       PROVE  Queued'
  BY <1>18 DEF PassReload, Active
<1>19. ASSUME PassFail
       PROVE  Queued'
  BY <1>19 DEF PassFail, Active
<1>20. ASSUME LocalWrite
       PROVE  Queued'
  <2>1. registry' = registry /\ Active' = Active /\ ActiveKey' = ActiveKey
    BY <1>20 DEF LocalWrite, Active, ActiveKey
  <2>2. CASE registry # None /\ Active = None
    BY <2>1, <2>2
  <2>3. CASE ~(registry # None /\ Active = None)
    <3>1. pending'[ActiveKey] = TRUE
      BY <1>c, <1>20, <2>3 DEF LocalWrite, Mark, TypeOK
    <3>. QED  BY <2>1, <3>1 DEF ActiveKey, Active
  <2>. QED  BY <2>2, <2>3
<1>21. ASSUME OtherDevice
       PROVE  Queued'
  BY <1>21 DEF OtherDevice, Active
<1>22. CASE UNCHANGED vars
  BY <1>22 DEF vars, Active
<1>. QED
  BY <1>1, <1>2, <1>3, <1>4, <1>5, <1>6, <1>7, <1>8, <1>9, <1>10, <1>11, <1>12, <1>13, <1>14, <1>15, <1>16, <1>17, <1>18, <1>19, <1>20, <1>21, <1>22 DEF Next, Settings, Syncing

(* DifferenceIsQueued of the runs: what the active target lacks is queued  *)
(* for it, also what was written while another target was active.          *)
THEOREM DifferencesQueued == Spec => []DifferenceIsQueued
<1>1. Init => Queued
  <2>. SUFFICES ASSUME Init PROVE Queued
    OBVIOUS
  <2>1. Active = None
    BY DEF Init, Active
  <2>2. pending[Unscoped] = ~(lib \subseteq Held(base[Unscoped]))
    BY DEF Init, Key
  <2>. QED  BY <2>1, <2>2 DEF Queued, DifferenceIsQueued, FirstIsQueued
<1>2. TypeOK /\ Queued /\ [Next]_vars => TypeOK' /\ Queued'
  BY TypesKept, QueuedKept
<1>3. Queued => DifferenceIsQueued
  BY DEF Queued
<1>. QED  BY <1>1, <1>2, <1>3, InitTyped, PTL DEF Spec
-----------------------------------------------------------------------------
(*                         The targets stay apart                          *)

Apart == Isolation /\ UnscopedIsLegacy /\ MergeIsStored /\ OldAreReadable

(* The content of a cloud file only grows.                                 *)
LEMMA CloudGrows ==
  ASSUME TypeOK, [Next]_vars
  PROVE  \A t \in Target : Held(cloud[t]) \subseteq Held(cloud'[t])
<1>1. CASE UNCHANGED cloud
  BY <1>1
<1>2. CASE OtherDevice
  <2>1. PICK u \in Target, x \in Item : cloud' = [cloud EXCEPT ![u] = Held(@) \cup {x}]
    BY <1>2 DEF OtherDevice
  <2>2. ASSUME NEW t \in Target
        PROVE  Held(cloud[t]) \subseteq Held(cloud'[t])
    <3>1. CASE t # u
      BY <2>1, <3>1 DEF TypeOK
    <3>2. CASE t = u
      <4>1. cloud'[t] = Held(cloud[t]) \cup {x} /\ cloud'[t] \in Content
        BY <2>1, <3>2, ContentTypes DEF TypeOK, Content
      <4>. QED  BY <4>1, SyncTargetsAssumption DEF Held, Content
    <3>. QED  BY <3>1, <3>2
  <2>. QED  BY <2>2
<1>3. CASE PassPut
  <2>1. pass \in Pass /\ Merged \in Content
    BY <1>3, ContentTypes DEF PassPut, TypeOK
  <2>2. CASE cloud' = [cloud EXCEPT ![pass.target] = Merged] /\ cloud[pass.target] = pass.remote
    <3>1. Held(pass.remote) \subseteq Merged /\ Held(Merged) = Merged
      BY <2>1, SyncTargetsAssumption DEF Merged, Held, Content
    <3>. QED  BY <2>1, <2>2, <3>1 DEF TypeOK, Pass
  <2>. QED  BY <1>1, <1>3, <2>2 DEF PassPut
<1>. QED
  BY <1>1, <1>2, <1>3 DEF Next, Settings, Syncing, EnsureMigrated, MigrateSecret, EditInput, RunProbe,
     Probed, ActivateMobile, HandleSave, SaveProbed, SavePassword, Disconnect, Told, PassStart,
     PassSnapshot, PassGet, PassMerge, PassCommit, PassReload, PassFail, LocalWrite, vars

(* A step that leaves baselines and pass alone.                            *)
LEMMA ApartStays ==
  ASSUME TypeOK, Apart, [Next]_vars,
         base' = base, legacy' = legacy, pass' = pass, registry' # None => legacy = None
  PROVE  Apart'
<1>1. \A t \in Target : Held(cloud[t]) \subseteq Held(cloud'[t])
  BY CloudGrows
<1>2. Merged' = Merged
  BY DEF Merged
<1>3. Isolation'
  BY <1>1, SyncTargetsAssumption DEF Apart, Isolation
<1>4. UnscopedIsLegacy'
  <2>1. legacy # None => legacy.target \in Target
    BY DEF TypeOK
  <2>. QED  BY <1>1, <2>1 DEF Apart, UnscopedIsLegacy
<1>5. MergeIsStored'
  <2>1. pass # None => pass.target \in Target
    BY DEF TypeOK, Pass
  <2>. QED  BY <1>1, <1>2, <2>1 DEF Apart, MergeIsStored
<1>. QED  BY <1>3, <1>4, <1>5 DEF Apart, OldAreReadable

(* A step of a pass that leaves the baselines alone.                       *)
LEMMA PassStays ==
  ASSUME TypeOK, Apart, [Next]_vars, UNCHANGED <<registry, legacy, base>>, MergeIsStored'
  PROVE  Apart'
<1>1. \A t \in Target : Held(cloud[t]) \subseteq Held(cloud'[t])
  BY CloudGrows
<1>2. legacy # None => legacy.target \in Target
  BY DEF TypeOK
<1>3. UnscopedIsLegacy'
  BY <1>1, <1>2 DEF Apart, UnscopedIsLegacy
<1>. QED  BY <1>1, <1>3, SyncTargetsAssumption DEF Apart, Isolation, OldAreReadable

(* Activating a target, when the old credentials are readable, leaves the  *)
(* baselines alone.                                                        *)
LEMMA ActivateStays ==
  ASSUME TypeOK, Apart, [Next]_vars, NEW t, NEW password, NEW done,
         ActivateTarget(t, password, done), pass' = pass
  PROVE  Apart'
<1>1. CASE UNCHANGED db
  BY <1>1, ApartStays DEF db, Apart, UnscopedIsLegacy
<1>2. CASE registry # None /\ Activated(t)
  BY <1>2, ApartStays DEF Activated, Apart, UnscopedIsLegacy
<1>3. CASE legacy # None /\ ~legacy.readable
  BY <1>3 DEF Apart, OldAreReadable
<1>. QED  BY <1>1, <1>2, <1>3 DEF ActivateTarget

(* No step gives a target the content of another.                          *)
LEMMA ApartKept ==
  ASSUME TypeOK, Apart, [Next]_vars
  PROVE  Apart'
<1>. USE NoneAssumption
<1>g. \A t \in Target : Held(cloud[t]) \subseteq Held(cloud'[t])
  BY CloudGrows
<1>r. registry # None => legacy = None
  BY DEF Apart, UnscopedIsLegacy
<1>m. pass # None => /\ pass \in Pass /\ pass.target \in Target /\ Merged \in Content
                     /\ Held(pass.remote) \subseteq Held(cloud'[pass.target])
                     /\ pass.at = "merged" => Merged \subseteq Held(cloud'[pass.target])
  BY <1>g, ContentTypes DEF Apart, MergeIsStored, TypeOK, Pass
<1>1. ASSUME EnsureMigrated
      PROVE  Apart'
  <2>1. CASE legacy = None
    BY <1>1, <2>1, ApartStays DEF EnsureMigrated, NewRegistry
  <2>2. CASE legacy # None
    <3>1. legacy.target \in Target /\ base \in [Key -> {None} \cup Content] /\ legacy' = None
          /\ UNCHANGED <<cloud, pass>> /\ base' = Rescoped(base, legacy.target, None)
      BY <1>1, <2>2 DEF EnsureMigrated, TypeOK
    <3>2. /\ base'[legacy.target] = base[Unscoped] /\ base'[Unscoped] = None
          /\ \A o \in Target \ {legacy.target} : base'[o] = base[o]
      BY <3>1, SyncTargetsAssumption DEF Rescoped, Key
    <3>3. Isolation'
      BY <2>2, <3>1, <3>2 DEF Apart, Isolation, UnscopedIsLegacy
    <3>4. MergeIsStored'
      BY <3>1 DEF Apart, MergeIsStored, Merged
    <3>. QED  BY <3>1, <3>2, <3>3, <3>4 DEF Apart, UnscopedIsLegacy, OldAreReadable
  <2>. QED  BY <2>1, <2>2
<1>2. ASSUME NEW t \in Target, MigrateSecret(t)
      PROVE  Apart'
  BY <1>r, <1>2, ApartStays DEF MigrateSecret, db
<1>3. ASSUME EditInput
      PROVE  Apart'
  BY <1>r, <1>3, ApartStays DEF EditInput, db
<1>4. ASSUME RunProbe
      PROVE  Apart'
  BY <1>r, <1>4, ApartStays DEF RunProbe, db
<1>5. ASSUME Probed
      PROVE  Apart'
  BY <1>r, <1>5, ApartStays DEF Probed, db
<1>6. ASSUME HandleSave
      PROVE  Apart'
  BY <1>r, <1>6, ApartStays DEF HandleSave, db
<1>7. ASSUME Disconnect
      PROVE  Apart'
  <2>1. registry # None
    BY <1>7 DEF Disconnect, Active
  <2>. QED  BY <1>r, <1>7, <2>1, ApartStays DEF Disconnect
<1>8. ASSUME Told
      PROVE  Apart'
  BY <1>r, <1>8, ApartStays DEF Told, db
<1>9. ASSUME OtherDevice
      PROVE  Apart'
  BY <1>r, <1>9, ApartStays DEF OtherDevice, db
<1>10. ASSUME ActivateMobile
       PROVE  Apart'
  BY <1>10, ActivateStays DEF ActivateMobile
<1>11. ASSUME SavePassword
       PROVE  Apart'
  BY <1>11, ActivateStays DEF SavePassword, ActivateDesktop
<1>12. ASSUME SaveProbed
       PROVE  Apart'
  <2>1. CASE ActivateDesktop(page.target, page.password)
    BY <1>12, <2>1, ActivateStays DEF SaveProbed, ActivateDesktop
  <2>2. CASE UNCHANGED db
    BY <1>12, <1>r, <2>2, ApartStays DEF SaveProbed, db
  <2>. QED  BY <1>12, <2>1, <2>2 DEF SaveProbed
<1>13. ASSUME PassStart
       PROVE  Apart'
  <2>1. pass' = NewPass /\ UNCHANGED db
    BY <1>13 DEF PassStart
  <2>2. MergeIsStored'
    BY <2>1 DEF MergeIsStored, NewPass, Held
  <2>. QED  BY <2>1, <2>2, PassStays DEF db
<1>14. ASSUME PassSnapshot
       PROVE  Apart'
  <2>1. pass'.at = "fetching" /\ pass'.remote = pass.remote /\ pass'.target = pass.target /\ UNCHANGED db
        /\ pass # None
    BY <1>m, <1>14 DEF PassSnapshot, Pass
  <2>2. MergeIsStored'
    BY <1>m, <2>1 DEF MergeIsStored
  <2>. QED  BY <2>1, <2>2, PassStays DEF db
<1>15. ASSUME PassGet
       PROVE  Apart'
  <2>1. pass'.at = "fetched" /\ pass'.remote = cloud[pass.target] /\ pass'.target = pass.target
        /\ UNCHANGED <<db, cloud>> /\ pass # None
    BY <1>m, <1>15 DEF PassGet, Pass
  <2>2. MergeIsStored'
    BY <1>m, <2>1 DEF MergeIsStored
  <2>. QED  BY <2>1, <2>2, PassStays DEF db
<1>16. ASSUME PassMerge
       PROVE  Apart'
  <2>1. /\ pass'.at = (IF Merged = pass.remote THEN "merged" ELSE "sent") /\ pass'.remote = pass.remote
        /\ pass'.target = pass.target /\ pass'.lib = pass.lib /\ pass'.base = pass.base
        /\ UNCHANGED db /\ pass # None
    BY <1>m, <1>16 DEF PassMerge, Pass
  <2>2. Merged' = Merged /\ (Merged = pass.remote => Held(pass.remote) = Merged)
    BY <1>m, <2>1, SyncTargetsAssumption DEF Merged, Held, Content
  <2>3. MergeIsStored'
    BY <1>m, <2>1, <2>2 DEF MergeIsStored
  <2>. QED  BY <2>1, <2>3, PassStays DEF db
<1>17. ASSUME PassPut
       PROVE  Apart'
  <2>1. pass # None /\ UNCHANGED db
    BY <1>17 DEF PassPut
  <2>2. CASE cloud[pass.target] = pass.remote
    <3>1. /\ cloud' = [cloud EXCEPT ![pass.target] = Merged] /\ pass'.target = pass.target
          /\ pass'.lib = pass.lib /\ pass'.base = pass.base /\ pass'.remote = pass.remote
      BY <1>m, <1>17, <2>1, <2>2 DEF PassPut, Pass
    <3>2. Merged' = Merged /\ cloud'[pass.target] = Merged /\ Held(Merged) = Merged
      BY <1>m, <2>1, <3>1, SyncTargetsAssumption DEF Merged, Held, Content, TypeOK
    <3>3. MergeIsStored'
      BY <1>m, <2>1, <3>1, <3>2 DEF MergeIsStored
    <3>. QED  BY <2>1, <3>3, PassStays DEF db
  <2>3. CASE cloud[pass.target] # pass.remote
    <3>1. pass'.at = "fetching" /\ pass'.remote = None
      BY <1>m, <1>17, <2>1, <2>3 DEF PassPut, Pass
    <3>2. MergeIsStored'
      BY <3>1 DEF MergeIsStored, Held
    <3>. QED  BY <2>1, <3>2, PassStays DEF db
  <2>. QED  BY <2>2, <2>3
<1>18. ASSUME PassCommit
       PROVE  Apart'
  <2>1. pass # None /\ UNCHANGED <<registry, legacy, cloud>> /\ Active = pass.target /\ Active # None
        /\ pass'.at = "reloading" /\ pass'.remote = pass.remote /\ pass'.target = pass.target
        /\ pass.at = "merged" /\ base' = [base EXCEPT ![ActiveKey] = Merged]
    BY <1>m, <1>18, SyncTargetsAssumption DEF PassCommit, Verified, Pass
  <2>2. ActiveKey = pass.target /\ registry # None
    BY <2>1 DEF ActiveKey, Active
  <2>3. /\ base'[pass.target] = Merged /\ base'[Unscoped] = base[Unscoped]
        /\ \A o \in Target \ {pass.target} : base'[o] = base[o]
    BY <1>m, <2>1, <2>2, SyncTargetsAssumption DEF TypeOK, Key
  <2>4. Isolation'
    BY <1>m, <2>1, <2>3, SyncTargetsAssumption DEF Apart, Isolation, Held, Content
  <2>5. MergeIsStored'
    BY <1>m, <2>1 DEF MergeIsStored
  <2>. QED  BY <2>1, <2>3, <2>4, <2>5 DEF Apart, UnscopedIsLegacy, OldAreReadable
<1>19. ASSUME PassReload
       PROVE  Apart'
  <2>1. pass' = None /\ UNCHANGED db
    BY <1>19 DEF PassReload
  <2>2. MergeIsStored'
    BY <2>1 DEF MergeIsStored
  <2>. QED  BY <2>1, <2>2, PassStays DEF db
<1>20. ASSUME PassFail
       PROVE  Apart'
  <2>1. pass' = None /\ UNCHANGED db
    BY <1>20 DEF PassFail
  <2>2. MergeIsStored'
    BY <2>1 DEF MergeIsStored
  <2>. QED  BY <2>1, <2>2, PassStays DEF db
<1>21. ASSUME LocalWrite
       PROVE  Apart'
  <2>1. UNCHANGED <<registry, legacy, base, cloud>>
    BY <1>21 DEF LocalWrite
  <2>2. CASE pass' = pass
    BY <1>r, <2>1, <2>2, ApartStays
  <2>3. CASE pass # None /\ pass' = [pass EXCEPT !.touched = TRUE]
    <3>1. pass'.at = pass.at /\ pass'.remote = pass.remote /\ pass'.target = pass.target
          /\ pass'.lib = pass.lib /\ pass'.base = pass.base
      BY <1>m, <2>3 DEF Pass
    <3>2. MergeIsStored'
      BY <1>m, <2>3, <3>1 DEF MergeIsStored, Merged
    <3>. QED  BY <2>1, <3>2, PassStays
  <2>. QED  BY <1>21, <2>2, <2>3 DEF LocalWrite
<1>22. CASE UNCHANGED vars
  BY <1>r, <1>22, ApartStays DEF vars
<1>. QED
  BY <1>1, <1>2, <1>3, <1>4, <1>5, <1>6, <1>7, <1>8, <1>9, <1>10, <1>11, <1>12, <1>13, <1>14, <1>15, <1>16, <1>17, <1>18, <1>19, <1>20, <1>21, <1>22 DEF Next, Settings, Syncing

(* Isolation of the runs: unless old credentials turn out to be unreadable *)
(* (replaced_target shows what happens then), the baseline of a target is  *)
(* content of that target's cloud, whatever is switched meanwhile.         *)
THEOREM TargetsAreIsolated ==
  ASSUME ~Undecipherable
  PROVE  Spec => []Isolation
<1>1. Init => Apart
  <2>. SUFFICES ASSUME Init PROVE Apart
    OBVIOUS
  <2>1. Isolation
    BY SyncTargetsAssumption DEF Init, Isolation, Key
  <2>2. UnscopedIsLegacy
    BY SyncTargetsAssumption, NoneAssumption DEF Init, UnscopedIsLegacy, Key
  <2>3. OldAreReadable
    BY DEF Init, OldAreReadable
  <2>. QED  BY <2>1, <2>2, <2>3 DEF Apart, MergeIsStored, Init
<1>2. TypeOK /\ Apart /\ [Next]_vars => TypeOK' /\ Apart'
  BY TypesKept, ApartKept
<1>3. Apart => Isolation
  BY DEF Apart
<1>. QED  BY <1>1, <1>2, <1>3, InitTyped, PTL DEF Spec
-----------------------------------------------------------------------------
(*                       Only what was probed is active                    *)

(* A switch by the command activate makes the named target the active one. *)
LEMMA ActivateSwitches ==
  ASSUME TypeOK, NEW t \in Target, NEW password \in Password, NEW done \in BOOLEAN,
         ActivateTarget(t, password, done), Active' # Active, legacy = None
  PROVE  Active' = t /\ Active # t /\ vault'[t] = password
<1>1. vault'[t] = password
  BY DEF ActivateTarget, TypeOK
<1>2. ~(UNCHANGED db)
  BY DEF db, Active
<1>3. registry # None /\ registry.epoch < MaxEpoch /\ Activated(t)
  BY <1>2 DEF ActivateTarget
<1>4. Active # t /\ registry' = [active |-> t, epoch |-> registry.epoch + 1]
  BY <1>3 DEF Activated, Active
<1>5. registry' # None
  <2>1. registry' \in Registry
    BY <1>3, <1>4, BoundAssumption DEF TypeOK, Registry
  <2>. QED  BY <2>1, NoneAssumption
<1>. QED
  BY <1>1, <1>4, <1>5 DEF Active

(* A step of the desktop activates nothing but what has been probed with   *)
(* the very user and password (useSyncSettings.ts, handleSave). The inputs *)
(* of the Android page may be edited while the probe of their former       *)
(* values is under way; TLC refutes the same of it.                        *)
LEMMA StepsActivateProbed ==
  ASSUME ~Mobile, TypeOK, [Next]_vars
  PROVE  [ActivatesProbed]_vars
<1>. SUFFICES ASSUME TypeOK, Next, Active' \notin {Active, None}, legacy = None
              PROVE  <<Active', vault'[Active']>> \in probed'
  BY DEF ActivatesProbed
<1>. USE DEF Active
<1>1. registry' # registry
  OBVIOUS
<1>2. CASE EnsureMigrated
  BY <1>2 DEF EnsureMigrated, NewRegistry
<1>3. CASE Disconnect
  BY <1>3 DEF Disconnect
<1>4. CASE SaveProbed
  <2>1. ActivateDesktop(page.target, page.password) /\ probed' = probed \cup {<<page.target, page.password>>}
    BY <1>1, <1>4 DEF SaveProbed, db
  <2>2. page.target \in Target /\ page.password \in Password
    BY <1>4 DEF SaveProbed, TypeOK, Page
  <2>3. Active' = page.target /\ vault'[page.target] = page.password
    BY <2>1, <2>2, ActivateSwitches DEF ActivateDesktop
  <2>. QED  BY <2>1, <2>3
<1>5. CASE SavePassword
  <2>1. /\ ActivateDesktop(form.target, form.password) /\ Active = form.target
        /\ form.target \in Target /\ form.password \in Password
    BY <1>5 DEF SavePassword, SameIdentity, TypeOK, Form
  <2>. QED  BY <2>1, ActivateSwitches DEF ActivateDesktop
<1>6. CASE EditInput \/ RunProbe \/ Probed \/ ActivateMobile \/ HandleSave \/ Told
  BY <1>1, <1>6 DEF EditInput, RunProbe, Probed, ActivateMobile, HandleSave, Told, db
<1>7. CASE Syncing \/ LocalWrite \/ OtherDevice \/ \E t \in Target : MigrateSecret(t)
  BY <1>1, <1>7 DEF Syncing, PassStart, PassSnapshot, PassGet, PassMerge, PassPut, PassCommit,
                   PassReload, PassFail, LocalWrite, OtherDevice, MigrateSecret, db
<1>. QED
  BY <1>2, <1>3, <1>4, <1>5, <1>6, <1>7 DEF Next, Settings

(* On the desktop only a target that answered a probe with the very user   *)
(* and password becomes the active one.                                    *)
THEOREM DesktopActivatesOnlyProbed == ~Mobile => (Spec => OnlyProbedIsActivated)
<1>. SUFFICES ASSUME ~Mobile PROVE Spec => OnlyProbedIsActivated
  OBVIOUS
<1>1. TypeOK /\ [Next]_vars => [ActivatesProbed]_vars
  BY StepsActivateProbed
<1>. QED
  BY <1>1, TypeOKHolds, PTL DEF Spec, OnlyProbedIsActivated

(* The same beside Android devices, as the run checks it.                  *)
THEOREM DesktopProbes == AllSpec => DesktopActivatesProbed
<1>. DEFINE Typed == part = "desktop" => TypeOK
            Step  == part = "desktop" => ActivatesProbed
<1>1. AllInit => Typed
  BY InitTyped DEF AllInit
<1>2. Typed /\ [AllNext]_allVars => Typed' /\ [Step]_allVars
  <2>. SUFFICES ASSUME Typed, [AllNext]_allVars, part = "desktop"
                PROVE  TypeOK' /\ [Step]_allVars
    BY DEF AllNext, allVars
  <2>1. [Next]_vars
    BY DEF AllNext, allVars
  <2>2. TypeOK' /\ [ActivatesProbed]_vars
    BY <2>1, TypesKept, StepsActivateProbed, TargetsAssumption
  <2>3. CASE vars' = vars
    BY <2>2, <2>3 DEF AllNext, allVars, vars, Active, ActivatesProbed
  <2>. QED
    BY <2>2, <2>3
<1>. QED
  BY <1>1, <1>2, PTL DEF AllSpec, DesktopActivatesProbed
=============================================================================
