-------------------------- MODULE SyncCoordinator --------------------------
(***************************************************************************)
(* When a device synchronises: the hook useSyncCoordinator.ts with the     *)
(* scheduler state that sync_state.rs keeps for the active target.         *)
(*                                                                         *)
(* Timers, button presses and window events ask for a sync; an automatic   *)
(* one first reads the scheduler, then the credentials, and only then      *)
(* starts a pass; one pass runs at a time and a request made meanwhile     *)
(* leads to another one.  Local writes, switches of the target, the death  *)
(* of the process and the end of the back-off come at any moment.          *)
(*                                                                         *)
(* What a pass does is the matter of WatchSync; here it has only an        *)
(* outcome.  A read of the database and the code that uses it up to the    *)
(* next await are one step.  The time of day is not kept: of two timers    *)
(* of the same kind either may be due first.                               *)
(***************************************************************************)
EXTENDS Naturals

CONSTANTS Runs,           \* invocations of runAutomatic that may overlap
          PeriodicPull,   \* a pull interval is set; 0 switches it off
          Switching,      \* the user activates and disconnects targets
          Pausing,        \* the user pauses and resumes
          Restarting,     \* the program dies and is started again
          UnnotedWrites,  \* the desktop's collection centre is in use
          MaxEpoch,       \* bound on the target epoch
          None

ASSUME FlagsAssumption == {PeriodicPull, Switching, Pausing, Restarting, UnnotedWrites} \subseteq BOOLEAN
ASSUME BoundsAssumption == MaxEpoch \in Nat \ {0}

VARIABLES
  store,     \* the database: outbox and scheduler of the active target
  known,     \* runtimeRef: the copy of it the hook made last
  started,   \* startCoordinator has been called; its intervals are installed
  wake,      \* wakeTimerRef, or None
  debounce,  \* debounceTimerRef is set
  noting,    \* a scheduleLocalWrite waits for the database
  telling,   \* a notifySyncConfigurationChanged is under way
  run,       \* run[r]: an invocation of runAutomatic, or None
  pass,      \* the call behind syncInFlightRef, or None
  rerun      \* rerunRequestedRef

vars == <<store, known, started, wake, debounce, noting, telling, run, pass, rerun>>

(* The triggers that runAutomatic tells apart; "plain" stands for          *)
(* local-write, focus, periodic and retry.                                 *)
Trigger == {"plain", "startup", "online", "resume"}

(* lastErrorCode by what classifySyncFailure says of it; "condition" is one *)
(* of the two codes that a start of the program forgives.                  *)
Blocker == {"refused", "condition"}
Fault   == Blocker \cup {"transient", None}
Due     == {"none", "later", "now"}                   \* nextAttemptAt

Scheduler == [paused : BOOLEAN, fault : Fault, next : Due]
Store     == [pending : BOOLEAN, active : BOOLEAN, epoch : 0..MaxEpoch, sched : Scheduler]
View      == [active : BOOLEAN, epoch : 0..MaxEpoch, paused : BOOLEAN]
Timer     == [trigger : Trigger, soon : BOOLEAN]
Reading   == [at : {"reading"}, trigger : Trigger]
Asking    == [at : {"asking"}, trigger : Trigger, fault : Fault, next : Due]
Stage     == {"connecting", "syncing", "reloading", "recording", "catching"}
Pass      == {p \in [at : Stage, epoch : 0..MaxEpoch, touched : BOOLEAN,
                      kind : Fault, claim : 0..MaxEpoch] :
                /\ p.touched => p.at = "syncing"
                /\ p.kind # None <=> p.at \in {"recording", "catching"}}

(* None is no view, no timer, no invocation, no pass and no failure.       *)
ASSUME NoneAssumption == /\ None \notin View \cup Timer \cup Reading \cup Asking \cup Pass
                         /\ None \notin Blocker \cup {"transient"}

TypeOK ==
  /\ store \in Store
  /\ known \in View \cup {None}
  /\ started \in {"no", "reading", "asking", "yes"}
  /\ wake \in Timer \cup {None}
  /\ debounce \in BOOLEAN /\ noting \in BOOLEAN /\ telling \in BOOLEAN /\ rerun \in BOOLEAN
  /\ run \in [Runs -> Reading \cup Asking \cup {None}]
  /\ pass \in Pass \cup {None}

NewScheduler == [paused |-> FALSE, fault |-> None, next |-> "none"]

(* The schedulers a target can have been left with.                        *)
LeftScheduler == {s \in Scheduler : s.next # "none" => s.fault = "transient"}

Init ==
  /\ store \in [pending : BOOLEAN, active : BOOLEAN, epoch : {1}, sched : {NewScheduler}]
  /\ known = None /\ started = "no" /\ wake = None
  /\ debounce = FALSE /\ noting = FALSE /\ telling = FALSE /\ rerun = FALSE
  /\ run = [r \in Runs |-> None] /\ pass = None
-----------------------------------------------------------------------------
(* Helpers.                                                                *)

RuntimeState == [active |-> store.active, epoch |-> store.epoch, paused |-> store.sched.paused]

(* verify_context: the claimed target must still be the active one.        *)
Verified(claim) == store.active /\ claim = store.epoch

Claim == IF known = None THEN store.epoch ELSE known.epoch

(* queueAutomatic: the timers that may be set afterwards.                  *)
Queue(timer, view, trigger, soon, reset) ==
  LET new == [trigger |-> trigger, soon |-> soon]
  IN  IF view # None /\ view.paused THEN {timer}
      ELSE IF timer = None \/ reset THEN {new}
      ELSE IF timer.soon = soon THEN {timer, new}
      ELSE IF timer.soon THEN {timer} ELSE {new}

(* Deviation: the finally block clears the flag and queues nothing.        *)
FinishAndForget(timers, view, again) ==
  /\ pass' = None
  /\ rerun' = FALSE
  /\ wake' \in timers

(* The finally block of executeSync.                                       *)
Finish(timers, view, again) ==
  /\ pass' = None
  /\ rerun' = FALSE
  /\ wake' \in IF again THEN UNION {Queue(t, view, "plain", TRUE, FALSE) : t \in timers}
               ELSE timers

(* executeSync: start a pass, or have the running one followed by another. *)
ExecuteSync ==
  IF pass # None
    THEN rerun' = TRUE /\ UNCHANGED pass
    ELSE /\ pass' = [at |-> "connecting", epoch |-> 0, touched |-> FALSE,
                     kind |-> None, claim |-> 0]
         /\ UNCHANGED rerun

(* The generation moves; only a pass with a snapshot takes notice.         *)
Touch == pass' = IF pass # None /\ pass.at = "syncing" THEN [pass EXCEPT !.touched = TRUE]
                 ELSE pass
-----------------------------------------------------------------------------
(* What asks for a sync.                                                   *)

(* startCoordinator: read the scheduler, then the credentials.             *)
Start ==
  /\ started = "no"
  /\ started' = "reading"
  /\ UNCHANGED <<store, known, wake, debounce, noting, telling, run, pass, rerun>>

StartRead ==
  /\ started = "reading"
  /\ known' = RuntimeState
  /\ started' = IF store.sched.paused THEN "yes" ELSE "asking"
  /\ UNCHANGED <<store, wake, debounce, noting, telling, run, pass, rerun>>

StartAsk ==
  /\ started = "asking"
  /\ started' = "yes"
  /\ wake' \in IF store.active THEN Queue(wake, known, "startup", TRUE, FALSE) ELSE {wake}
  /\ UNCHANGED <<store, known, debounce, noting, telling, run, pass, rerun>>

(* Deviation: the scheduler is read and nothing is queued.                 *)
CheckOnly(due) ==
  /\ known' = RuntimeState
  /\ UNCHANGED <<store, started, wake, debounce, noting, telling, run, pass, rerun>>

(* checkFocusPull and checkPeriodicPull; due says whether the last look at *)
(* the cloud is long enough ago.                                           *)
Check(due) ==
  /\ known' = RuntimeState
  /\ wake' \in IF due THEN Queue(wake, known', "plain", TRUE, FALSE) ELSE {wake}
  /\ UNCHANGED <<store, started, debounce, noting, telling, run, pass, rerun>>

Focus(due) == started # "no" /\ Check(due)
Tick(due)  == started = "yes" /\ PeriodicPull /\ Check(due)

(* The events of the window: onOnline and onAndroidResume.                 *)
Online ==
  /\ wake' \in Queue(wake, known, "online", TRUE, TRUE)
  /\ UNCHANGED <<store, known, started, debounce, noting, telling, run, pass, rerun>>

AndroidResume ==
  /\ started # "no"
  /\ wake' \in Queue(wake, known, "plain", TRUE, TRUE)
  /\ UNCHANGED <<store, known, started, debounce, noting, telling, run, pass, rerun>>

(* A local write: its transaction marks the outbox, then the repository    *)
(* calls scheduleLocalWrite, which reads the scheduler and starts the      *)
(* debounce.                                                               *)
LocalWrite ==
  /\ store' = [store EXCEPT !.pending = TRUE]
  /\ noting' = TRUE
  /\ Touch
  /\ UNCHANGED <<known, started, wake, debounce, telling, run, rerun>>

Note ==
  /\ noting /\ noting' = FALSE
  /\ known' = RuntimeState
  /\ debounce' = TRUE
  /\ UNCHANGED <<store, started, wake, telling, run, pass, rerun>>

FireDebounce ==
  /\ debounce /\ debounce' = FALSE
  /\ wake' \in Queue(wake, known, "plain", TRUE, TRUE)
  /\ UNCHANGED <<store, known, started, noting, telling, run, pass, rerun>>

(* A write of the desktop's collection centre: useCollections.ts calls the *)
(* command and reads the collections again, nothing else.                  *)
CollectionWrite ==
  /\ UnnotedWrites
  /\ store' = [store EXCEPT !.pending = TRUE]
  /\ Touch
  /\ UNCHANGED <<known, started, wake, debounce, noting, telling, run, rerun>>

(* syncNow, the button.                                                    *)
SyncNow ==
  /\ wake' = None /\ debounce' = FALSE
  /\ ExecuteSync
  /\ UNCHANGED <<store, known, started, noting, telling, run>>

(* toggleSyncPause; the database refuses a stale target.                   *)
TogglePause ==
  LET pause == ~(IF known = None THEN store.sched.paused ELSE known.paused)
  IN  /\ Pausing /\ Verified(Claim)
      /\ store' = [store EXCEPT !.sched.paused = pause,
                                !.sched.next = IF pause THEN @ ELSE "none"]
      /\ known' = [RuntimeState EXCEPT !.paused = pause]
      /\ IF pause
           THEN wake' = None /\ debounce' = FALSE
           ELSE wake' \in Queue(wake, known', "resume", TRUE, TRUE) /\ UNCHANGED debounce
      /\ UNCHANGED <<started, noting, telling, run, pass, rerun>>

(* The settings page activates a target, perhaps one used before, or       *)
(* disconnects the active one; then it tells the coordinator.              *)
Activate ==
  /\ Switching /\ store.epoch < MaxEpoch
  /\ \E s \in LeftScheduler, pending \in BOOLEAN :
       store' = [pending |-> pending, active |-> TRUE, epoch |-> store.epoch + 1, sched |-> s]
  /\ telling' = TRUE
  /\ UNCHANGED <<known, started, wake, debounce, noting, run, pass, rerun>>

Disconnect ==
  /\ Switching /\ store.active /\ store.epoch < MaxEpoch
  /\ store' = [pending |-> FALSE, active |-> FALSE, epoch |-> store.epoch + 1,
               sched |-> NewScheduler]
  /\ telling' = TRUE
  /\ UNCHANGED <<known, started, wake, debounce, noting, run, pass, rerun>>

(* The desktop's settings tell only when there are credentials.            *)
ConfigurationChanged ==
  /\ telling /\ telling' = FALSE
  /\ known' \in IF store.active THEN {RuntimeState} ELSE {RuntimeState, known}
  /\ wake' \in IF store.active THEN Queue(wake, known', "resume", TRUE, TRUE) ELSE {wake}
  /\ UNCHANGED <<store, started, debounce, noting, run, pass, rerun>>
-----------------------------------------------------------------------------
(* runAutomatic.                                                           *)

FireWake(r) ==
  /\ wake # None /\ wake.soon
  /\ run[r] = None
  /\ run' = [run EXCEPT ![r] = [at |-> "reading", trigger |-> wake.trigger]]
  /\ wake' = None
  /\ UNCHANGED <<store, known, started, debounce, noting, telling, pass, rerun>>

RunRead(r) ==
  /\ run[r] # None /\ run[r].at = "reading"
  /\ known' = RuntimeState
  /\ run' = [run EXCEPT ![r] =
       IF store.sched.paused THEN None
       ELSE [at |-> "asking", trigger |-> run[r].trigger,
             fault |-> store.sched.fault, next |-> store.sched.next]]
  /\ UNCHANGED <<store, started, wake, debounce, noting, telling, pass, rerun>>

(* An error that has no next attempt stops everything but a resumption     *)
(* and, for two codes, a start.                                            *)
Stopped(q) ==
  /\ q.fault # None /\ q.next = "none"
  /\ q.trigger # "resume"
  /\ ~(q.trigger = "startup" /\ q.fault = "condition")

Waits(q) == q.next = "later" /\ q.trigger \notin {"online", "resume"}

RunDecide(r) ==
  /\ run[r] # None /\ run[r].at = "asking"
  /\ run' = [run EXCEPT ![r] = None]
  /\ \/ /\ ~store.active \/ Stopped(run[r])
        /\ UNCHANGED <<wake, pass, rerun>>
     \/ /\ store.active /\ ~Stopped(run[r]) /\ Waits(run[r])
        /\ wake' \in Queue(wake, known, "plain", FALSE, FALSE)
        /\ UNCHANGED <<pass, rerun>>
     \/ /\ store.active /\ ~Stopped(run[r]) /\ ~Waits(run[r])
        /\ ExecuteSync
        /\ UNCHANGED wake
  /\ UNCHANGED <<store, known, started, debounce, noting, telling>>
-----------------------------------------------------------------------------
(* executeSync.                                                            *)

(* getCreds; without credentials the pass has failed already.              *)
Connect ==
  /\ pass # None /\ pass.at = "connecting"
  /\ pass' = IF store.active
               THEN [pass EXCEPT !.at = "syncing", !.epoch = store.epoch]
               ELSE [pass EXCEPT !.at = "recording", !.kind = "refused", !.claim = Claim]
  /\ UNCHANGED <<store, known, started, wake, debounce, noting, telling, run, rerun>>

(* The pass commits: the database checks target and generation.            *)
Commit ==
  /\ pass # None /\ pass.at = "syncing"
  /\ Verified(pass.epoch) /\ ~pass.touched
  /\ store' = [store EXCEPT !.pending = FALSE,
                 !.sched = [@ EXCEPT !.fault = None, !.next = "none"]]
  /\ pass' = [pass EXCEPT !.at = "reloading", !.epoch = 0]
  /\ UNCHANGED <<known, started, wake, debounce, noting, telling, run, rerun>>

(* After a success: reload the library and the scheduler; what is pending  *)
(* again is synchronised again.                                            *)
Reload ==
  /\ pass # None /\ pass.at = "reloading"
  /\ known' = RuntimeState
  /\ Finish({wake}, known', rerun \/ store.pending)
  /\ UNCHANGED <<store, started, debounce, noting, telling, run>>

(* stale_local_snapshot: the library moved; try again at once.             *)
Stale ==
  /\ pass # None /\ pass.at = "syncing" /\ pass.touched
  /\ Finish(Queue(wake, known, "plain", TRUE, FALSE), known, rerun)
  /\ UNCHANGED <<store, known, started, debounce, noting, telling, run>>

(* Any other failure: the network, the server, a refusal, another target.  *)
Fail ==
  /\ pass # None /\ pass.at = "syncing"
  /\ \E kind \in Fault \ {None} :
       pass' = [pass EXCEPT !.at = "recording", !.touched = FALSE,
                            !.kind = kind, !.claim = Claim]
  /\ UNCHANGED <<store, known, started, wake, debounce, noting, telling, run, rerun>>

(* recordSyncFailure for the target known when the pass failed.            *)
Recorded(kind) ==
  /\ store' = [store EXCEPT !.sched.fault = kind,
                            !.sched.next = IF kind = "transient" THEN "later" ELSE "none"]
  /\ known' = RuntimeState
  /\ Finish(IF kind = "transient" THEN Queue(wake, known', "plain", FALSE, FALSE) ELSE {wake},
            known', rerun)

RecordFailure ==
  /\ pass # None /\ pass.at = "recording"
  /\ IF Verified(pass.claim)
       THEN Recorded(pass.kind)
       ELSE /\ pass' = [pass EXCEPT !.at = "catching", !.kind = "transient", !.claim = Claim]
            /\ UNCHANGED <<store, known, wake, rerun>>
  /\ UNCHANGED <<started, debounce, noting, telling, run>>

(* The catch block records once more; when that fails too, nothing is      *)
(* queued but a rerun that was asked for.                                  *)
CatchFailure ==
  /\ pass # None /\ pass.at = "catching"
  /\ IF Verified(pass.claim)
       THEN Recorded(pass.kind)
       ELSE Finish({wake}, known, rerun) /\ UNCHANGED <<store, known>>
  /\ UNCHANGED <<started, debounce, noting, telling, run>>
-----------------------------------------------------------------------------
(* Time and crashes.                                                       *)

BackoffEnds ==
  /\ store.sched.next = "later" \/ (wake # None /\ ~wake.soon)
  /\ store' = [store EXCEPT !.sched.next = IF @ = "later" THEN "now" ELSE @]
  /\ wake' = IF wake = None THEN None ELSE [wake EXCEPT !.soon = TRUE]
  /\ UNCHANGED <<known, started, debounce, noting, telling, run, pass, rerun>>

Crash ==
  /\ Restarting /\ started # "no"
  /\ known' = None /\ started' = "no" /\ wake' = None
  /\ debounce' = FALSE /\ noting' = FALSE /\ telling' = FALSE /\ rerun' = FALSE
  /\ run' = [r \in Runs |-> None] /\ pass' = None
  /\ UNCHANGED store

Events == (\E due \in BOOLEAN : Focus(due) \/ Tick(due)) \/ Online \/ AndroidResume \/ LocalWrite \/ CollectionWrite
          \/ SyncNow \/ TogglePause \/ Activate \/ Disconnect \/ Crash
Timers == FireDebounce \/ (\E r \in Runs : FireWake(r)) \/ BackoffEnds
Steps  == Start \/ StartRead \/ StartAsk \/ Note \/ ConfigurationChanged
          \/ (\E r \in Runs : RunRead(r) \/ RunDecide(r))
          \/ Connect \/ Commit \/ Reload \/ Stale \/ Fail \/ RecordFailure \/ CatchFailure

Next == Events \/ Timers \/ Steps
Spec == Init /\ [][Next]_vars

(* Timers fire and awaited calls return; users, windows and networks owe   *)
(* nothing.  A pass ends, in whatever way.                                 *)
Fairness ==
  /\ WF_vars(FireDebounce) /\ WF_vars(BackoffEnds) /\ WF_vars(Note)
  /\ WF_vars(\E r \in Runs : FireWake(r))
  /\ \A r \in Runs : WF_vars(RunRead(r)) /\ WF_vars(RunDecide(r))
  /\ WF_vars(Start) /\ WF_vars(StartRead) /\ WF_vars(StartAsk)
  /\ WF_vars(ConfigurationChanged)
  /\ WF_vars(Connect) /\ WF_vars(Reload) /\ WF_vars(Commit \/ Stale \/ Fail)
  /\ WF_vars(RecordFailure) /\ WF_vars(CatchFailure)
  /\ PeriodicPull => WF_vars(Tick(TRUE))

FairSpec == Spec /\ Fairness
-----------------------------------------------------------------------------
(* Properties.                                                             *)

(* A sync is owed: there is something to publish and neither the user nor  *)
(* a failure that needs the user stands in the way.                        *)
Owed ==
  /\ store.active /\ store.pending /\ ~store.sched.paused
  /\ store.sched.fault = None \/ store.sched.next # "none"

UnderWay == pass # None \/ \E r \in Runs : run[r] # None

(* Whoever is owed a sync has something that will lead to one: a timer, a  *)
(* call under way or the program's start.  No path through queueAutomatic, *)
(* the early returns of runAutomatic and the finally block of executeSync  *)
(* drops the last of them.                                                 *)
OwedHasAWakeUp ==
  Owed => UnderWay \/ wake # None \/ debounce \/ noting \/ telling \/ started # "yes"

(* A sync that is owed is eventually attempted (or no longer owed), unless *)
(* the program dies again and again: the outbox with its debounce, retries *)
(* and the rerun flag of the coordinator.                                  *)
OwedIsAttempted ==
  []<><<Crash>>_vars \/ (Owed ~> (pass # None \/ ~Owed))

(* The same for a network failure after which no retry time is stored: a   *)
(* failure that classifySyncFailure calls "retry" must not need the user.  *)
TransientIsRetried ==
  []<><<Crash>>_vars \/ [](store.sched.fault = "transient" /\ store.pending =>
      <>(pass # None \/ ~store.active \/ store.sched.paused))

(* A failure is recorded with the target whose pass failed: the comment    *)
(* before onConfigurationChanged in MobileSyncSettingsPage.tsx.            *)
FailureStaysWithItsTarget ==
  [][store'.epoch = store.epoch /\ store'.sched.fault \notin {None, store.sched.fault}
     => pass.epoch \in {0, store.epoch}]_vars
=============================================================================
