------------------------------ MODULE Targets -------------------------------
(* The targets of a desktop (SyncTargets, extended here), where passwords   *)
(* may be mistyped, and those of an Android device, which has a page of its *)
(* own to probe and activate a target.  Both have the variables of          *)
(* SyncTargets; the initial state says whose they are.                      *)
EXTENDS SyncTargets

CONSTANTS Words,     \* the passwords that are typed on the Android device
          MaxMobile  \* bound on its target epoch

VARIABLE part

Android == INSTANCE SyncTargets WITH Mobile <- TRUE, Password <- Words, MaxEpoch <- MaxMobile

ASSUME TargetsAssumption ==
  /\ ~Mobile
  /\ Android!SyncTargetsAssumption /\ Android!NoneAssumption /\ Android!BoundAssumption

allVars == <<part, vars>>

AllInit ==
  \/ part = "desktop" /\ Init
  \/ part = "android" /\ Android!Init

AllNext ==
  \/ part = "desktop" /\ Next         /\ UNCHANGED part
  \/ part = "android" /\ Android!Next /\ UNCHANGED part

AllSpec == AllInit /\ [][AllNext]_allVars
-----------------------------------------------------------------------------
\* On the desktop only a target that answered a probe becomes the active one
\* (useSyncSettings.ts, handleSave).
DesktopActivatesProbed == [][part = "desktop" => ActivatesProbed]_allVars
=============================================================================
