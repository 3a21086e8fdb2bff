----------------------- MODULE SyncCoordinatorProofs -----------------------
(***************************************************************************)
(* A sync that is owed always has something that will lead to it, whatever *)
(* the number of overlapping automatic runs, with pauses, switches of the  *)
(* target, periodic pulls and restarts at any moment.                      *)
(***************************************************************************)
EXTENDS SyncCoordinator, TLAPS

(* A run that has read a failure without a next attempt leads to nothing:  *)
(* it will find out that it has to stop.                                   *)
Leads(q) == q # None /\ ~(q.at = "asking" /\ Stopped(q))

SomeRunLeads == \E r \in Runs : Leads(run[r])

(* What leads to a sync besides a pass under way.                          *)
WakeUp ==
  SomeRunLeads \/ wake # None \/ debounce \/ noting \/ telling \/ started # "yes"

(* The copy of the scheduler is out of date only while a change of the     *)
(* target is being told, in what matters: the target and the pause.        *)
CopyIsCurrent ==
  known # None /\ store.active /\ ~telling =>
    known.epoch = store.epoch /\ (known.paused => store.sched.paused)

(* The catch block of a pass that failed for another target queues nothing *)
(* of its own.                                                             *)
Hopeless == pass # None /\ pass.at = "catching" /\ pass.claim # store.epoch

OwedLeads ==
  /\ Owed => pass # None \/ WakeUp
  /\ Owed /\ Hopeless => rerun \/ WakeUp

Inv ==
  /\ TypeOK
  /\ CopyIsCurrent
  /\ OwedLeads
-----------------------------------------------------------------------------
(*                                  Types                                  *)

(* The copy of the scheduler, if there is one or a fresh one.              *)
LEMMA CopyTypes ==
  ASSUME TypeOK
  PROVE  RuntimeState \in View /\ Claim \in 0..MaxEpoch
<1>1. RuntimeState \in View
  BY DEF TypeOK, RuntimeState, Store, Scheduler, View
<1>2. Claim \in 0..MaxEpoch
  BY NoneAssumption DEF TypeOK, Claim, Store, View
<1>. QED  BY <1>1, <1>2

(* queueAutomatic returns a timer, and sets one unless the hook believes   *)
(* that the user has paused.                                               *)
LEMMA QueueTypes ==
  ASSUME NEW timer \in Timer \cup {None}, NEW view, NEW trigger \in Trigger,
         NEW soon \in BOOLEAN, NEW reset \in BOOLEAN,
         NEW t \in Queue(timer, view, trigger, soon, reset)
  PROVE  /\ t \in Timer \cup {None}
         /\ (view # None /\ view.paused) \/ t # None
BY NoneAssumption DEF Queue, Timer
(* A pass that executeSync starts, and the stages it goes through.         *)
LEMMA PassTypes ==
  /\ [at |-> "connecting", epoch |-> 0, touched |-> FALSE, kind |-> None, claim |-> 0] \in Pass
  /\ \A p \in Pass, e \in 0..MaxEpoch :
       p.at = "connecting" => [p EXCEPT !.at = "syncing", !.epoch = e] \in Pass
  /\ \A p \in Pass, e \in 0..MaxEpoch, k \in Fault \ {None} :
       ~p.touched => [p EXCEPT !.at = "recording", !.kind = k, !.claim = e] \in Pass
  /\ \A p \in Pass, e \in 0..MaxEpoch, k \in Fault \ {None} :
       [p EXCEPT !.at = "recording", !.touched = FALSE, !.kind = k, !.claim = e] \in Pass
  /\ \A p \in Pass, e \in 0..MaxEpoch :
       p.at = "recording" => [p EXCEPT !.at = "catching", !.kind = "transient", !.claim = e] \in Pass
  /\ \A p \in Pass :
       p.at = "syncing" /\ ~p.touched => [p EXCEPT !.at = "reloading", !.epoch = 0] \in Pass
<1>. DEFINE All == [at : Stage, epoch : 0..MaxEpoch, touched : BOOLEAN,
                    kind : Fault, claim : 0..MaxEpoch]
<1>1. \A p : p \in Pass <=> /\ p \in All
                            /\ p.touched => p.at = "syncing"
                            /\ p.kind # None <=> p.at \in {"recording", "catching"}
  BY Zenon DEF Pass
<1>. HIDE DEF All
<1>. USE BoundsAssumption DEF Stage, Fault, Blocker
<1>2. None \notin {"refused", "condition", "transient"}
  BY NoneAssumption
<1>3. [at |-> "connecting", epoch |-> 0, touched |-> FALSE, kind |-> None, claim |-> 0] \in Pass
  <2>. DEFINE p == [at |-> "connecting", epoch |-> 0, touched |-> FALSE, kind |-> None, claim |-> 0]
  <2>1. p \in All
    BY DEF All
  <2>2. p.touched = FALSE /\ p.kind = None /\ p.at = "connecting"
    OBVIOUS
  <2>. HIDE DEF p
  <2>3. p \in Pass
    BY <1>1, <2>1, <2>2
  <2>. QED  BY <2>3 DEF p
<1>4. ASSUME NEW p \in Pass, NEW e \in 0..MaxEpoch, p.at = "connecting"
      PROVE  [p EXCEPT !.at = "syncing", !.epoch = e] \in Pass
  BY <1>1, <1>4 DEF All
<1>5. ASSUME NEW p \in Pass, NEW e \in 0..MaxEpoch, NEW k \in Fault \ {None}, ~p.touched
      PROVE  [p EXCEPT !.at = "recording", !.kind = k, !.claim = e] \in Pass
  <2>. DEFINE q == [p EXCEPT !.at = "recording", !.kind = k, !.claim = e]
  <2>1. p \in All
    BY <1>1
  <2>2. q \in All /\ q.touched = p.touched /\ q.kind = k /\ q.at = "recording"
    BY <2>1 DEF All
  <2>. HIDE DEF q
  <2>3. q \in Pass
    BY <1>1, <1>5, <2>2
  <2>. QED  BY <2>3 DEF q
<1>6. ASSUME NEW p \in Pass, NEW e \in 0..MaxEpoch, p.at = "recording"
      PROVE  [p EXCEPT !.at = "catching", !.kind = "transient", !.claim = e] \in Pass
  BY <1>1, <1>2, <1>6 DEF All
<1>7. ASSUME NEW p \in Pass, p.at = "syncing", ~p.touched
      PROVE  [p EXCEPT !.at = "reloading", !.epoch = 0] \in Pass
  <2>. DEFINE q == [p EXCEPT !.at = "reloading", !.epoch = 0]
  <2>1. p \in All /\ p.kind = None /\ 0 \in 0..MaxEpoch
    BY <1>1, <1>7
  <2>2. q \in All /\ q.touched = p.touched /\ q.kind = None /\ q.at = "reloading"
    BY <2>1 DEF All
  <2>. HIDE DEF q
  <2>3. q \in Pass
    BY <1>1, <1>7, <2>2
  <2>. QED  BY <2>3 DEF q
<1>8. ASSUME NEW p \in Pass, NEW e \in 0..MaxEpoch, NEW k \in Fault \ {None}
      PROVE  [p EXCEPT !.at = "recording", !.touched = FALSE, !.kind = k, !.claim = e] \in Pass
  <2>. DEFINE q == [p EXCEPT !.at = "recording", !.touched = FALSE, !.kind = k, !.claim = e]
  <2>1. p \in All
    BY <1>1
  <2>2. q \in All /\ q.touched = FALSE /\ q.kind = k /\ q.at = "recording"
    BY <2>1 DEF All
  <2>. HIDE DEF q
  <2>3. q \in Pass
    BY <1>1, <2>2
  <2>. QED  BY <2>3 DEF q
<1>. QED  BY <1>3, <1>4, <1>5, <1>6, <1>7, <1>8

(* The finally block leaves no pass; what it queues is a timer, and there  *)
(* is one unless the hook believes that the user has paused.               *)
LEMMA FinishTypes ==
  ASSUME NEW timers \in SUBSET (Timer \cup {None}), NEW view, NEW again,
         Finish(timers, view, again)
  PROVE  /\ pass' = None /\ rerun' = FALSE
         /\ wake' \in Timer \cup {None}
         /\ again /\ ~(view # None /\ view.paused) => wake' # None
         /\ (\A t \in timers : t # None) => wake' # None
<1>1. pass' = None /\ rerun' = FALSE
  BY DEF Finish
<1>2. CASE ~again
  BY <1>1, <1>2 DEF Finish
<1>3. CASE again
  <2>1. PICK t \in timers : wake' \in Queue(t, view, "plain", TRUE, FALSE)
    BY <1>3 DEF Finish
  <2>2. wake' \in Timer \cup {None} /\ ((view # None /\ view.paused) \/ wake' # None)
    BY <2>1, QueueTypes DEF Trigger
  <2>3. [trigger |-> "plain", soon |-> TRUE] \in Timer
    BY DEF Timer, Trigger
  <2>4. t # None => wake' # None
    BY <2>1, <2>3, NoneAssumption DEF Queue
  <2>. QED  BY <1>1, <1>3, <2>2, <2>4
<1>. QED  BY <1>2, <1>3

(* A recorded failure ends the pass; a transient one is tried again unless *)
(* the user has paused.                                                    *)
LEMMA RecordedTypes ==
  ASSUME TypeOK, NEW kind \in Fault \ {None}, Recorded(kind)
  PROVE  /\ store' \in Store /\ known' = RuntimeState /\ known' \in View
         /\ pass' = None /\ rerun' = FALSE
         /\ wake' \in Timer \cup {None}
         /\ store'.active = store.active /\ store'.epoch = store.epoch
         /\ store'.pending = store.pending /\ store'.sched.paused = store.sched.paused
         /\ store'.sched.fault = kind
         /\ kind # "transient" => store'.sched.next = "none"
         /\ kind = "transient" /\ ~store.sched.paused => wake' # None
<1>1. known' = RuntimeState /\ RuntimeState \in View
  BY CopyTypes DEF Recorded
<1>2. store' \in Store
  BY DEF Recorded, TypeOK, Store, Scheduler, Due
<1>3. /\ store'.active = store.active /\ store'.epoch = store.epoch
      /\ store'.pending = store.pending /\ store'.sched.paused = store.sched.paused
      /\ store'.sched.fault = kind /\ (kind # "transient" => store'.sched.next = "none")
  BY DEF Recorded, TypeOK, Store, Scheduler
<1>. DEFINE timers == IF kind = "transient" THEN Queue(wake, known', "plain", FALSE, FALSE)
                      ELSE {wake}
<1>4. timers \in SUBSET (Timer \cup {None})
  BY QueueTypes DEF TypeOK, Trigger
<1>f. Finish(timers, known', rerun)
  BY DEF Recorded
<1>. HIDE DEF timers
<1>5. pass' = None /\ rerun' = FALSE /\ wake' \in Timer \cup {None}
  BY <1>4, <1>f, FinishTypes
<1>6. ASSUME kind = "transient", ~store.sched.paused
      PROVE  wake' # None
  <2>1. ~(known' # None /\ known'.paused)
    BY <1>1, <1>6 DEF RuntimeState
  <2>2. \A t \in timers : t # None
    <3>1. timers = Queue(wake, known', "plain", FALSE, FALSE)
      BY <1>6 DEF timers
    <3>2. wake \in Timer \cup {None} /\ "plain" \in Trigger
      BY DEF TypeOK, Trigger
    <3>3. ASSUME NEW t \in timers
          PROVE  t # None
      BY <2>1, <3>1, <3>2, <3>3, QueueTypes
    <3>. QED  BY <3>3
  <2>. QED  BY <1>4, <1>f, <2>2, FinishTypes
<1>. QED  BY <1>1, <1>2, <1>3, <1>5, <1>6

(* Every step keeps the types.                                             *)
LEMMA TypesKept ==
  ASSUME TypeOK, [Next]_vars
  PROVE  TypeOK'
<1>. USE BoundsAssumption, NoneAssumption
<1>a. RuntimeState \in View /\ Claim \in 0..MaxEpoch
  BY CopyTypes
<1>q. ASSUME NEW timer \in Timer \cup {None}, NEW view, NEW trigger \in Trigger,
             NEW soon \in BOOLEAN, NEW reset \in BOOLEAN
      PROVE  Queue(timer, view, trigger, soon, reset) \subseteq Timer \cup {None}
  BY QueueTypes
<1>t. "plain" \in Trigger /\ "startup" \in Trigger /\ "online" \in Trigger /\ "resume" \in Trigger
  BY DEF Trigger
<1>1. ASSUME Start
      PROVE  TypeOK'
  BY <1>a, <1>q, <1>t, <1>1 DEF Start, TypeOK
<1>2. ASSUME StartRead
      PROVE  TypeOK'
  BY <1>a, <1>q, <1>t, <1>2 DEF StartRead, TypeOK
<1>3. ASSUME StartAsk
      PROVE  TypeOK'
  BY <1>a, <1>q, <1>t, <1>3 DEF StartAsk, TypeOK
<1>4. ASSUME NEW due \in BOOLEAN, Focus(due)
      PROVE  TypeOK'
  BY <1>a, <1>q, <1>t, <1>4 DEF Focus, TypeOK, Check
<1>5. ASSUME NEW due \in BOOLEAN, Tick(due)
      PROVE  TypeOK'
  BY <1>a, <1>q, <1>t, <1>5 DEF Tick, TypeOK, Check
<1>6. ASSUME Online
      PROVE  TypeOK'
  BY <1>a, <1>q, <1>t, <1>6 DEF Online, TypeOK
<1>7. ASSUME AndroidResume
      PROVE  TypeOK'
  BY <1>a, <1>q, <1>t, <1>7 DEF AndroidResume, TypeOK
<1>8. ASSUME LocalWrite
      PROVE  TypeOK'
  BY <1>a, <1>q, <1>t, <1>8 DEF LocalWrite, TypeOK, Store, Touch, Pass
<1>9. ASSUME Note
      PROVE  TypeOK'
  BY <1>a, <1>q, <1>t, <1>9 DEF Note, TypeOK
<1>10. ASSUME FireDebounce
       PROVE  TypeOK'
  BY <1>a, <1>q, <1>t, <1>10 DEF FireDebounce, TypeOK
<1>11. ASSUME CollectionWrite
       PROVE  TypeOK'
  BY <1>a, <1>q, <1>t, <1>11 DEF CollectionWrite, TypeOK, Store, Touch, Pass
<1>12. ASSUME SyncNow
       PROVE  TypeOK'
  BY <1>12, PassTypes DEF SyncNow, ExecuteSync, TypeOK
<1>13. ASSUME TogglePause
       PROVE  TypeOK'
  BY <1>a, <1>q, <1>t, <1>13 DEF TogglePause, TypeOK, Store, Scheduler, View, Due
<1>14. ASSUME Activate
       PROVE  TypeOK'
  BY <1>a, <1>q, <1>t, <1>14 DEF Activate, TypeOK, Store, LeftScheduler
<1>15. ASSUME Disconnect
       PROVE  TypeOK'
  BY <1>a, <1>q, <1>t, <1>15 DEF Disconnect, TypeOK, Store, Scheduler, NewScheduler, Fault, Due
<1>16. ASSUME ConfigurationChanged
       PROVE  TypeOK'
  BY <1>a, <1>q, <1>t, <1>16 DEF ConfigurationChanged, TypeOK
<1>17. ASSUME NEW r \in Runs, FireWake(r)
       PROVE  TypeOK'
  BY <1>a, <1>q, <1>t, <1>17 DEF FireWake, TypeOK, Timer, Reading
<1>18. ASSUME NEW r \in Runs, RunRead(r)
       PROVE  TypeOK'
  BY <1>a, <1>q, <1>t, <1>18 DEF RunRead, TypeOK, Reading, Asking, Store, Scheduler
<1>19. ASSUME NEW r \in Runs, RunDecide(r)
       PROVE  TypeOK'
  <2>1. CASE UNCHANGED <<wake, pass, rerun>>
    BY <1>19, <2>1 DEF RunDecide, TypeOK
  <2>2. CASE wake' \in Queue(wake, known, "plain", FALSE, FALSE) /\ UNCHANGED <<pass, rerun>>
    BY <1>q, <1>t, <1>19, <2>2 DEF RunDecide, TypeOK
  <2>3. CASE ExecuteSync /\ UNCHANGED wake
    BY <1>19, <2>3, PassTypes DEF RunDecide, ExecuteSync, TypeOK
  <2>. QED  BY <1>19, <2>1, <2>2, <2>3 DEF RunDecide
<1>20. ASSUME Connect
       PROVE  TypeOK'
  <2>1. pass \in Pass /\ ~pass.touched
    BY <1>20 DEF Connect, TypeOK, Pass
  <2>2. store.epoch \in 0..MaxEpoch /\ "refused" \in Fault \ {None}
    BY DEF TypeOK, Store, Fault, Blocker
  <2>. QED  BY <1>a, <1>20, <2>1, <2>2, PassTypes DEF Connect, TypeOK
<1>21. ASSUME Commit
       PROVE  TypeOK'
  <2>1. pass' \in Pass
    BY <1>21, PassTypes DEF Commit, TypeOK
  <2>2. store' \in Store
    BY <1>21 DEF Commit, TypeOK, Store, Scheduler, Fault, Due
  <2>. QED  BY <1>21, <2>1, <2>2 DEF Commit, TypeOK
<1>22. ASSUME Reload
       PROVE  TypeOK'
  <2>1. pass' = None /\ rerun' = FALSE /\ wake' \in Timer \cup {None}
    BY <1>22, FinishTypes DEF Reload, TypeOK
  <2>. QED  BY <1>a, <1>22, <2>1 DEF Reload, TypeOK
<1>23. ASSUME Stale
       PROVE  TypeOK'
  <2>1. pass' = None /\ rerun' = FALSE /\ wake' \in Timer \cup {None}
    <3>1. Queue(wake, known, "plain", TRUE, FALSE) \in SUBSET (Timer \cup {None})
      BY <1>q, <1>t DEF TypeOK
    <3>. QED  BY <1>23, <3>1, FinishTypes DEF Stale
  <2>. QED  BY <1>23, <2>1 DEF Stale, TypeOK
<1>24. ASSUME Fail
       PROVE  TypeOK'
  BY <1>a, <1>q, <1>t, <1>24 DEF Fail, TypeOK, Pass, Stage, Fault
<1>25. ASSUME RecordFailure
       PROVE  TypeOK'
  <2>1. pass \in Pass /\ pass.kind \in Fault \ {None}
    BY <1>25 DEF RecordFailure, TypeOK, Pass
  <2>2. CASE Verified(pass.claim)
    BY <1>25, <2>1, <2>2, RecordedTypes DEF RecordFailure, TypeOK
  <2>3. CASE ~Verified(pass.claim)
    <3>1. pass.at = "recording" /\ UNCHANGED <<store, known, wake, rerun, started, debounce, noting, telling, run>>
          /\ pass' = [pass EXCEPT !.at = "catching", !.kind = "transient", !.claim = Claim]
      BY <1>25, <2>3 DEF RecordFailure
    <3>2. pass' \in Pass
      BY <1>a, <2>1, <3>1, PassTypes
    <3>. QED  BY <3>1, <3>2 DEF TypeOK
  <2>. QED  BY <2>2, <2>3
<1>26. ASSUME CatchFailure
       PROVE  TypeOK'
  <2>1. pass \in Pass /\ pass.kind \in Fault \ {None}
    BY <1>26 DEF CatchFailure, TypeOK, Pass
  <2>2. CASE Verified(pass.claim)
    BY <1>26, <2>1, <2>2, RecordedTypes DEF CatchFailure, TypeOK
  <2>3. CASE ~Verified(pass.claim)
    <3>1. pass' = None /\ rerun' = FALSE /\ wake' \in Timer \cup {None}
      BY <1>26, <2>3, FinishTypes DEF CatchFailure, TypeOK
    <3>. QED  BY <1>26, <2>3, <3>1 DEF CatchFailure, TypeOK
  <2>. QED  BY <2>2, <2>3
<1>27. ASSUME BackoffEnds
       PROVE  TypeOK'
  BY <1>a, <1>q, <1>t, <1>27 DEF BackoffEnds, TypeOK, Store, Scheduler, Due, Timer
<1>28. ASSUME Crash
       PROVE  TypeOK'
  BY <1>a, <1>q, <1>t, <1>28 DEF Crash, TypeOK
<1>29. CASE UNCHANGED vars
  BY <1>29 DEF TypeOK, vars
<1>. QED
  BY <1>1, <1>2, <1>3, <1>4, <1>5, <1>6, <1>7, <1>8, <1>9, <1>10, <1>11, <1>12, <1>13, <1>14, <1>15, <1>16, <1>17, <1>18, <1>19, <1>20, <1>21, <1>22, <1>23, <1>24, <1>25, <1>26, <1>27, <1>28, <1>29 DEF Next, Events, Timers, Steps
(* What a device starts with is typed.                                     *)
LEMMA InitTyped == Init => TypeOK
<1>. SUFFICES ASSUME Init PROVE TypeOK
  OBVIOUS
<1>1. NewScheduler \in Scheduler /\ 1 \in 0..MaxEpoch
  BY BoundsAssumption DEF NewScheduler, Scheduler, Fault, Due
<1>2. store \in Store
  BY <1>1 DEF Init, Store
<1>. QED  BY <1>2 DEF Init, TypeOK

(* TypeOK of the runs: the variables have their types.                     *)
THEOREM TypeOKHolds == Spec => []TypeOK
<1>1. Init => TypeOK
  BY InitTyped
<1>2. TypeOK /\ [Next]_vars => TypeOK'
  BY TypesKept
<1>. QED  BY <1>1, <1>2, PTL DEF Spec
(* The copy of the scheduler stays current, or a switch is being told.     *)
LEMMA CopyKept ==
  ASSUME TypeOK, CopyIsCurrent, [Next]_vars
  PROVE  CopyIsCurrent'
<1>. USE NoneAssumption DEF TypeOK, Store, Scheduler, RuntimeState, CopyIsCurrent
<1>1. ASSUME Start
      PROVE  CopyIsCurrent'
  BY <1>1 DEF Start
<1>2. ASSUME StartRead
      PROVE  CopyIsCurrent'
  BY <1>2 DEF StartRead
<1>3. ASSUME StartAsk
      PROVE  CopyIsCurrent'
  BY <1>3 DEF StartAsk
<1>4. ASSUME NEW due \in BOOLEAN, Focus(due)
      PROVE  CopyIsCurrent'
  BY <1>4 DEF Focus, Check
<1>5. ASSUME NEW due \in BOOLEAN, Tick(due)
      PROVE  CopyIsCurrent'
  BY <1>5 DEF Tick, Check
<1>6. ASSUME Online
      PROVE  CopyIsCurrent'
  BY <1>6 DEF Online
<1>7. ASSUME AndroidResume
      PROVE  CopyIsCurrent'
  BY <1>7 DEF AndroidResume
<1>8. ASSUME LocalWrite
      PROVE  CopyIsCurrent'
  BY <1>8 DEF LocalWrite
<1>9. ASSUME Note
      PROVE  CopyIsCurrent'
  BY <1>9 DEF Note
<1>10. ASSUME FireDebounce
       PROVE  CopyIsCurrent'
  BY <1>10 DEF FireDebounce
<1>11. ASSUME CollectionWrite
       PROVE  CopyIsCurrent'
  BY <1>11 DEF CollectionWrite
<1>12. ASSUME SyncNow
       PROVE  CopyIsCurrent'
  BY <1>12 DEF SyncNow
<1>13. ASSUME TogglePause
       PROVE  CopyIsCurrent'
  BY <1>13 DEF TogglePause, Verified, Claim
<1>14. ASSUME Activate
       PROVE  CopyIsCurrent'
  BY <1>14 DEF Activate
<1>15. ASSUME Disconnect
       PROVE  CopyIsCurrent'
  BY <1>15 DEF Disconnect
<1>16. ASSUME ConfigurationChanged
       PROVE  CopyIsCurrent'
  BY <1>16 DEF ConfigurationChanged
<1>17. ASSUME NEW r \in Runs, FireWake(r)
       PROVE  CopyIsCurrent'
  BY <1>17 DEF FireWake
<1>18. ASSUME NEW r \in Runs, RunRead(r)
       PROVE  CopyIsCurrent'
  BY <1>18 DEF RunRead
<1>19. ASSUME NEW r \in Runs, RunDecide(r)
       PROVE  CopyIsCurrent'
  BY <1>19 DEF RunDecide
<1>20. ASSUME Connect
       PROVE  CopyIsCurrent'
  BY <1>20 DEF Connect
<1>21. ASSUME Commit
       PROVE  CopyIsCurrent'
  BY <1>21 DEF Commit
<1>22. ASSUME Reload
       PROVE  CopyIsCurrent'
  BY <1>22 DEF Reload
<1>23. ASSUME Stale
       PROVE  CopyIsCurrent'
  BY <1>23 DEF Stale
<1>24. ASSUME Fail
       PROVE  CopyIsCurrent'
  BY <1>24 DEF Fail
<1>25. ASSUME RecordFailure
       PROVE  CopyIsCurrent'
  <2>1. pass \in Pass /\ pass.kind \in Fault \ {None}
    BY <1>25 DEF RecordFailure, Pass
  <2>2. CASE Verified(pass.claim)
    <3>1. Recorded(pass.kind) /\ UNCHANGED telling
      BY <1>25, <2>2 DEF RecordFailure
    <3>2. /\ known' = RuntimeState /\ store'.active = store.active
          /\ store'.epoch = store.epoch /\ store'.sched.paused = store.sched.paused
      BY <2>1, <3>1, RecordedTypes
    <3>. QED  BY <3>1, <3>2
  <2>3. CASE ~Verified(pass.claim)
    BY <1>25, <2>3 DEF RecordFailure
  <2>. QED  BY <2>2, <2>3
<1>26. ASSUME CatchFailure
       PROVE  CopyIsCurrent'
  <2>1. pass \in Pass /\ pass.kind \in Fault \ {None}
    BY <1>26 DEF CatchFailure, Pass
  <2>2. CASE Verified(pass.claim)
    <3>1. Recorded(pass.kind) /\ UNCHANGED telling
      BY <1>26, <2>2 DEF CatchFailure
    <3>2. /\ known' = RuntimeState /\ store'.active = store.active
          /\ store'.epoch = store.epoch /\ store'.sched.paused = store.sched.paused
      BY <2>1, <3>1, RecordedTypes
    <3>. QED  BY <3>1, <3>2
  <2>3. CASE ~Verified(pass.claim)
    BY <1>26, <2>3 DEF CatchFailure
  <2>. QED  BY <2>2, <2>3
<1>27. ASSUME BackoffEnds
       PROVE  CopyIsCurrent'
  BY <1>27 DEF BackoffEnds
<1>28. ASSUME Crash
       PROVE  CopyIsCurrent'
  BY <1>28 DEF Crash
<1>29. CASE UNCHANGED vars
  BY <1>29 DEF vars
<1>. QED
  BY <1>1, <1>2, <1>3, <1>4, <1>5, <1>6, <1>7, <1>8, <1>9, <1>10, <1>11, <1>12, <1>13, <1>14, <1>15, <1>16, <1>17, <1>18, <1>19, <1>20, <1>21, <1>22, <1>23, <1>24, <1>25, <1>26, <1>27, <1>28, <1>29 DEF Next, Events, Timers, Steps
(* No step loses the last thing that leads to the sync that is owed.       *)
LEMMA LeadsKept ==
  ASSUME ~UnnotedWrites, Inv, [Next]_vars
  PROVE  OwedLeads'
<1>. USE DEF OwedLeads, Owed, Hopeless, WakeUp, SomeRunLeads
<1>i. TypeOK /\ CopyIsCurrent /\ OwedLeads
  BY DEF Inv
<1>t. TypeOK'
  BY <1>i, TypesKept
<1>k. Owed /\ ~telling => ~(known # None /\ known.paused)
  BY <1>i DEF CopyIsCurrent
<1>q. ASSUME NEW view, NEW trigger \in Trigger, NEW soon \in BOOLEAN, NEW reset \in BOOLEAN,
             wake' \in Queue(wake, view, trigger, soon, reset), ~(view # None /\ view.paused)
      PROVE  wake' # None
  BY <1>i, <1>q, QueueTypes DEF TypeOK
<1>s. "plain" \in Trigger /\ "startup" \in Trigger /\ "online" \in Trigger /\ "resume" \in Trigger
  BY DEF Trigger
<1>c. ASSUME NEW due \in BOOLEAN, Check(due)
      PROVE  OwedLeads'
  <2>1. ASSUME Owed, due
        PROVE  wake' # None
    <3>1. known' = RuntimeState /\ ~known'.paused
      BY <1>c, <2>1 DEF Check, RuntimeState
    <3>. QED  BY <1>c, <1>q, <1>s, <2>1, <3>1 DEF Check
  <2>2. UNCHANGED <<store, started, debounce, noting, telling, run, pass, rerun>>
        /\ (~due => wake' = wake)
    BY <1>c DEF Check
  <2>. QED  BY <1>i, <2>1, <2>2
<1>e. ASSUME ExecuteSync
      PROVE  pass' # None /\ (pass # None => pass' = pass /\ rerun')
  BY <1>e, PassTypes, NoneAssumption DEF ExecuteSync
<1>f. ASSUME ExecuteSync, pass = None
      PROVE  pass'.at # "catching"
  BY <1>f DEF ExecuteSync
<1>1. ASSUME Start
      PROVE  OwedLeads'
  BY <1>i, <1>k, <1>q, <1>s, <1>1 DEF Start
<1>2. ASSUME StartRead
      PROVE  OwedLeads'
  BY <1>i, <1>k, <1>q, <1>s, <1>2 DEF StartRead
<1>3. ASSUME StartAsk
      PROVE  OwedLeads'
  BY <1>i, <1>k, <1>q, <1>s, <1>3 DEF StartAsk
<1>4. ASSUME NEW due \in BOOLEAN, Focus(due)
      PROVE  OwedLeads'
  <2>1. Check(due)
    BY <1>4 DEF Focus
  <2>. QED  BY <1>c, <2>1
<1>5. ASSUME NEW due \in BOOLEAN, Tick(due)
      PROVE  OwedLeads'
  <2>1. Check(due)
    BY <1>5 DEF Tick
  <2>. QED  BY <1>c, <2>1
<1>6. ASSUME Online
      PROVE  OwedLeads'
  BY <1>i, <1>k, <1>q, <1>s, <1>6 DEF Online
<1>7. ASSUME AndroidResume
      PROVE  OwedLeads'
  BY <1>i, <1>k, <1>q, <1>s, <1>7 DEF AndroidResume
<1>8. ASSUME LocalWrite
      PROVE  OwedLeads'
  BY <1>i, <1>k, <1>q, <1>s, <1>8 DEF LocalWrite, Touch, TypeOK, Store
<1>9. ASSUME Note
      PROVE  OwedLeads'
  BY <1>i, <1>k, <1>q, <1>s, <1>9 DEF Note
<1>10. ASSUME FireDebounce
       PROVE  OwedLeads'
  BY <1>i, <1>k, <1>q, <1>s, <1>10 DEF FireDebounce
<1>11. ASSUME CollectionWrite
       PROVE  OwedLeads'
  BY <1>i, <1>k, <1>q, <1>s, <1>11 DEF CollectionWrite
<1>12. ASSUME SyncNow
       PROVE  OwedLeads'
  BY <1>e, <1>f, <1>12 DEF SyncNow
<1>13. ASSUME TogglePause
       PROVE  OwedLeads'
  <2>. DEFINE pause == ~(IF known = None THEN store.sched.paused ELSE known.paused)
  <2>1. store'.sched.paused = pause /\ UNCHANGED <<started, noting, telling, run, pass, rerun>>
    BY <1>i, <1>13 DEF TogglePause, TypeOK, Store, Scheduler
  <2>2. CASE pause
    BY <2>1, <2>2
  <2>3. CASE ~pause
    <3>1. known'.paused = FALSE /\ wake' \in Queue(wake, known', "resume", TRUE, TRUE)
      BY <1>13, <2>3 DEF TogglePause, RuntimeState
    <3>2. wake' # None
      BY <1>q, <1>s, <3>1
    <3>. QED  BY <3>2
  <2>. HIDE DEF pause
  <2>. QED  BY <2>2, <2>3
<1>14. ASSUME Activate
       PROVE  OwedLeads'
  BY <1>i, <1>k, <1>q, <1>s, <1>14 DEF Activate, TypeOK
<1>15. ASSUME Disconnect
       PROVE  OwedLeads'
  BY <1>i, <1>k, <1>q, <1>s, <1>15 DEF Disconnect, TypeOK, Store
<1>16. ASSUME ConfigurationChanged
       PROVE  OwedLeads'
  <2>1. ASSUME Owed
        PROVE  wake' # None
    <3>1. known' = RuntimeState
      BY <1>16, <2>1 DEF ConfigurationChanged
    <3>2. wake' \in Queue(wake, known', "resume", TRUE, TRUE)
      BY <1>16, <2>1 DEF ConfigurationChanged
    <3>3. ~known'.paused
      BY <2>1, <3>1 DEF RuntimeState
    <3>. QED  BY <1>q, <1>s, <3>2, <3>3
  <2>2. UNCHANGED store
    BY <1>16 DEF ConfigurationChanged
  <2>. QED  BY <2>1, <2>2
<1>17. ASSUME NEW r \in Runs, FireWake(r)
       PROVE  OwedLeads'
  <2>1. run'[r] = [at |-> "reading", trigger |-> wake.trigger] /\ run'[r] \in Reading
    BY <1>i, <1>17 DEF FireWake, TypeOK, Timer, Reading
  <2>2. Leads(run'[r])
    BY <2>1, NoneAssumption DEF Leads
  <2>. QED  BY <2>2
<1>18. ASSUME NEW r \in Runs, RunRead(r)
       PROVE  OwedLeads'
  <2>1. UNCHANGED <<store, started, wake, debounce, noting, telling, pass, rerun>>
        /\ \A o \in Runs \ {r} : run'[o] = run[o]
    BY <1>i, <1>18 DEF RunRead, TypeOK
  <2>2. ASSUME Owed
        PROVE  Leads(run'[r])
    <3>1. /\ run'[r] = [at |-> "asking", trigger |-> run[r].trigger,
                       fault |-> store.sched.fault, next |-> store.sched.next]
          /\ run[r] \in Reading
      BY <1>i, <1>18, <2>2 DEF RunRead, TypeOK, Reading, Asking
    <3>2. run'[r] \in Asking
      BY <1>i, <3>1 DEF TypeOK, Reading, Asking, Store, Scheduler
    <3>3. ~Stopped(run'[r])
      BY <2>2, <3>1 DEF Stopped
    <3>. QED  BY <3>2, <3>3, NoneAssumption DEF Leads
  <2>. QED  BY <1>i, <2>1, <2>2
<1>19. ASSUME NEW r \in Runs, RunDecide(r)
       PROVE  OwedLeads'
  <2>1. UNCHANGED <<store, known, started, debounce, noting, telling>>
        /\ \A o \in Runs \ {r} : run'[o] = run[o]
    BY <1>i, <1>19 DEF RunDecide, TypeOK
  <2>2. CASE UNCHANGED <<wake, pass, rerun>> /\ (~store.active \/ Stopped(run[r]))
    <3>1. ASSUME Owed
          PROVE  ~Leads(run[r])
      BY <1>19, <2>2, <3>1 DEF RunDecide, Leads
    <3>2. ASSUME Owed, SomeRunLeads
          PROVE  SomeRunLeads'
      BY <2>1, <3>1, <3>2
    <3>. QED  BY <1>i, <2>1, <2>2, <3>2
  <2>3. CASE wake' \in Queue(wake, known, "plain", FALSE, FALSE) /\ UNCHANGED <<pass, rerun>>
    BY <1>k, <1>q, <1>s, <2>1, <2>3
  <2>4. CASE ExecuteSync
    BY <1>e, <1>f, <2>4
  <2>. QED  BY <1>19, <2>2, <2>3, <2>4 DEF RunDecide
<1>20. ASSUME Connect
       PROVE  OwedLeads'
  <2>1. pass' \in Pass /\ pass'.at # "catching" /\ UNCHANGED store
    <3>1. pass \in Pass /\ ~pass.touched /\ pass.at = "connecting" /\ UNCHANGED store
      BY <1>i, <1>20 DEF Connect, TypeOK, Pass
    <3>2. CASE store.active
      <4>1. pass' = [pass EXCEPT !.at = "syncing", !.epoch = store.epoch] /\ store.epoch \in 0..MaxEpoch
        BY <1>i, <1>20, <3>2 DEF Connect, TypeOK, Store
      <4>2. pass' \in Pass
        BY <3>1, <4>1, PassTypes
      <4>. QED  BY <3>1, <4>1, <4>2 DEF Pass
    <3>3. CASE ~store.active
      <4>1. pass' = [pass EXCEPT !.at = "recording", !.kind = "refused", !.claim = Claim]
            /\ "refused" \in Fault \ {None}
        BY <1>20, <3>3, NoneAssumption DEF Connect, Fault, Blocker
      <4>2. pass' \in Pass
        BY <1>i, <3>1, <4>1, PassTypes, CopyTypes
      <4>. QED  BY <3>1, <4>1, <4>2 DEF Pass
    <3>. QED  BY <3>2, <3>3
  <2>. QED  BY <2>1, NoneAssumption
<1>21. ASSUME Commit
       PROVE  OwedLeads'
  <2>1. store'.pending = FALSE
    BY <1>i, <1>21 DEF Commit, TypeOK, Store
  <2>. QED  BY <2>1
<1>22. ASSUME Reload
       PROVE  OwedLeads'
  <2>1. ASSUME Owed
        PROVE  wake' # None
    <3>1. known' = RuntimeState /\ ~known'.paused /\ Finish({wake}, known', TRUE)
      BY <1>22, <2>1 DEF Reload, RuntimeState, Finish
    <3>. QED  BY <1>i, <3>1, FinishTypes DEF TypeOK
  <2>2. UNCHANGED store
    BY <1>22 DEF Reload
  <2>. QED  BY <2>1, <2>2
<1>23. ASSUME Stale
       PROVE  OwedLeads'
  <2>1. UNCHANGED <<store, known, started, debounce, noting, telling, run>>
        /\ Finish(Queue(wake, known, "plain", TRUE, FALSE), known, rerun)
    BY <1>23 DEF Stale
  <2>2. ASSUME Owed, ~telling
        PROVE  wake' # None
    <3>1. Queue(wake, known, "plain", TRUE, FALSE) \in SUBSET (Timer \cup {None})
      BY <1>i, <1>s, QueueTypes DEF TypeOK
    <3>2. ASSUME NEW t \in Queue(wake, known, "plain", TRUE, FALSE)
          PROVE  t # None
      <4>1. wake \in Timer \cup {None}
        BY <1>i DEF TypeOK
      <4>2. ~(known # None /\ known.paused)
        BY <1>k, <2>2
      <4>. QED  BY <1>s, <3>2, <4>1, <4>2, QueueTypes
    <3>. QED  BY <2>1, <3>1, <3>2, FinishTypes
  <2>3. pass' = None
    BY <2>1 DEF Finish
  <2>. QED  BY <2>1, <2>2, <2>3
<1>24. ASSUME Fail
       PROVE  OwedLeads'
  <2>1. pass' \in Pass /\ pass'.at # "catching" /\ UNCHANGED store
    <3>1. PICK kind \in Fault \ {None} :
             pass' = [pass EXCEPT !.at = "recording", !.touched = FALSE, !.kind = kind, !.claim = Claim]
      BY <1>24 DEF Fail
    <3>2. pass \in Pass /\ UNCHANGED store
      BY <1>i, <1>24 DEF Fail, TypeOK
    <3>3. pass'.at = "recording"
      BY <3>1, <3>2 DEF Pass
    <3>4. pass' # None
      <4>1. pass' \in Pass
        BY <1>i, <3>1, <3>2, PassTypes, CopyTypes
      <4>. QED  BY <4>1, NoneAssumption
    <3>. QED  BY <1>t, <3>2, <3>3, <3>4 DEF TypeOK
  <2>. QED  BY <2>1, NoneAssumption
<1>25. ASSUME RecordFailure
       PROVE  OwedLeads'
  <2>1. pass \in Pass /\ pass.kind \in Fault \ {None}
    BY <1>i, <1>25 DEF RecordFailure, TypeOK, Pass
  <2>2. CASE Verified(pass.claim)
    <3>1. Recorded(pass.kind)
      BY <1>25, <2>2 DEF RecordFailure
    <3>2. /\ pass' = None /\ store'.sched.fault = pass.kind
          /\ store'.sched.paused = store.sched.paused
          /\ pass.kind # "transient" => store'.sched.next = "none"
          /\ pass.kind = "transient" /\ ~store.sched.paused => wake' # None
      BY <1>i, <2>1, <3>1, RecordedTypes
    <3>. QED  BY <2>1, <3>2
  <2>3. CASE ~Verified(pass.claim)
    <3>1. /\ UNCHANGED <<store, known, wake, rerun, started, debounce, noting, telling, run>>
          /\ pass' = [pass EXCEPT !.at = "catching", !.kind = "transient", !.claim = Claim]
      BY <1>25, <2>3 DEF RecordFailure
    <3>2. pass' # None /\ pass'.claim = Claim
      <4>1. pass.at = "recording" /\ Claim \in 0..MaxEpoch
        BY <1>i, <1>25, CopyTypes DEF RecordFailure
      <4>2. pass' \in Pass
        BY <2>1, <3>1, <4>1, PassTypes
      <4>. QED  BY <2>1, <3>1, <4>2, NoneAssumption DEF Pass
    <3>3. ASSUME Owed, Claim # store.epoch
          PROVE  telling
      BY <1>i, <3>3 DEF Claim, CopyIsCurrent
    <3>. QED  BY <3>1, <3>2, <3>3
  <2>. QED  BY <2>2, <2>3
<1>26. ASSUME CatchFailure
       PROVE  OwedLeads'
  <2>1. pass \in Pass /\ pass.kind \in Fault \ {None} /\ pass.at = "catching"
    BY <1>i, <1>26 DEF CatchFailure, TypeOK, Pass
  <2>2. CASE Verified(pass.claim)
    <3>1. Recorded(pass.kind)
      BY <1>26, <2>2 DEF CatchFailure
    <3>2. /\ pass' = None /\ store'.sched.fault = pass.kind
          /\ store'.sched.paused = store.sched.paused
          /\ pass.kind # "transient" => store'.sched.next = "none"
          /\ pass.kind = "transient" /\ ~store.sched.paused => wake' # None
      BY <1>i, <2>1, <3>1, RecordedTypes
    <3>. QED  BY <2>1, <3>2
  <2>3. CASE ~Verified(pass.claim)
    <3>1. /\ UNCHANGED <<store, known, started, debounce, noting, telling, run>>
          /\ Finish({wake}, known, rerun)
      BY <1>26, <2>3 DEF CatchFailure
    <3>2. pass' = None
      BY <3>1 DEF Finish
    <3>3. ASSUME Owed
          PROVE  rerun \/ WakeUp
      BY <1>i, <2>1, <2>3, <3>3, NoneAssumption DEF Verified
    <3>4. ASSUME Owed, ~telling, rerun
          PROVE  wake' # None
      <4>1. {wake} \in SUBSET (Timer \cup {None})
        BY <1>i DEF TypeOK
      <4>2. ~(known # None /\ known.paused)
        BY <1>k, <3>4
      <4>3. Finish({wake}, known, TRUE)
        BY <3>1, <3>4 DEF Finish
      <4>. QED  BY <4>1, <4>2, <4>3, FinishTypes
    <3>5. ASSUME wake # None
          PROVE  wake' # None
      <4>1. {wake} \in SUBSET (Timer \cup {None}) /\ \A t \in {wake} : t # None
        BY <1>i, <3>5 DEF TypeOK
      <4>. QED  BY <3>1, <4>1, FinishTypes
    <3>. QED  BY <3>1, <3>2, <3>3, <3>4, <3>5
  <2>. QED  BY <2>2, <2>3
<1>27. ASSUME BackoffEnds
       PROVE  OwedLeads'
  <2>1. UNCHANGED <<known, started, debounce, noting, telling, run, pass, rerun>>
        /\ (wake # None => wake' # None)
    BY <1>i, <1>t, <1>27, NoneAssumption DEF BackoffEnds, TypeOK, Timer
  <2>2. Owed' => Owed
    BY <1>i, <1>27 DEF BackoffEnds, TypeOK, Store, Scheduler
  <2>3. store'.epoch = store.epoch
    BY <1>i, <1>27 DEF BackoffEnds, TypeOK, Store
  <2>. QED  BY <1>i, <2>1, <2>2, <2>3
<1>28. ASSUME Crash
       PROVE  OwedLeads'
  BY <1>i, <1>k, <1>q, <1>s, <1>28 DEF Crash
<1>29. CASE UNCHANGED vars
  BY <1>i, <1>29 DEF vars
<1>. QED
  BY <1>1, <1>2, <1>3, <1>4, <1>5, <1>6, <1>7, <1>8, <1>9, <1>10, <1>11, <1>12, <1>13, <1>14, <1>15, <1>16, <1>17, <1>18, <1>19, <1>20, <1>21, <1>22, <1>23, <1>24, <1>25, <1>26, <1>27, <1>28, <1>29 DEF Next, Events, Timers, Steps
(* Nothing leads to the sync that is owed at the start but the start.      *)
LEMMA InvHolds ==
  ASSUME ~UnnotedWrites
  PROVE  Spec => []Inv
<1>1. Init => TypeOK
  BY InitTyped
<1>2. Init => CopyIsCurrent /\ OwedLeads
  BY DEF Init, CopyIsCurrent, OwedLeads, Hopeless, WakeUp
<1>3. Inv /\ [Next]_vars => Inv'
  BY TypesKept, CopyKept, LeadsKept DEF Inv
<1>4. Init => Inv
  BY <1>1, <1>2 DEF Inv
<1>. QED  BY <1>3, <1>4, PTL DEF Spec

(* OwedHasAWakeUp of the runs: as long as every local write is told to the *)
(* coordinator (the desktop's collection centre does not, unnoted_write),  *)
(* a sync that is owed has a timer, a call under way or the start of the   *)
(* program that leads to it.                                               *)
THEOREM OwedIsNeverForgotten ==
  ASSUME ~UnnotedWrites
  PROVE  Spec => []OwedHasAWakeUp
<1>1. Inv => OwedHasAWakeUp
  BY DEF Inv, OwedLeads, WakeUp, SomeRunLeads, Leads, OwedHasAWakeUp, UnderWay
<1>. QED  BY <1>1, InvHolds, PTL
=============================================================================
