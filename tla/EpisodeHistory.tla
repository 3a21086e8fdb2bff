-------------------------- MODULE EpisodeHistory ---------------------------
(* The episode-by-episode history of one series on two devices and in the  *)
(* cloud file: next episode, total, status and the completed episodes.     *)
(* A pass is one step here (WatchSync has its interleavings); it publishes *)
(* before it commits, and the commit may be refused.                       *)
EXTENDS SyncMerge, FiniteSets

CONSTANTS MaxTotal,  \* bound on the number of episodes
          MaxRev0,   \* bound on revisions
          Locking,   \* whether the series may be locked
          Resolving  \* whether conflicts are resolved

Tracking == {"total", "next", "status", "enabled"}
Todo == 0  Watching == 1  Watched == 2

\* A field is a number, and there are three statuses.
EpisodeHistoryAssumption ==
  /\ MaxTotal \in Nat /\ MaxTotal >= Watched
  /\ MaxRev0 \in Nat /\ {Locking, Resolving} \subseteq BOOLEAN
  /\ Field = Tracking /\ Value = 0..MaxTotal
  /\ None \notin Device /\ None \notin [at : Device \cup {None}, rev : Nat]

VARIABLES
  rec,      \* the record of each device; next and total are 0 when missing
  comps,    \* the completed episodes of each device
  base,     \* the baseline of each device: record and episodes
  conflict, \* the unresolved conflict of each device, or None
  seen,     \* the record on the page of each device
  refused,  \* the last pass of the device was refused by its database
  cloud     \* the file: record and episodes

vars == <<rec, comps, base, conflict, seen, refused, cloud>>

Episode == 1..MaxTotal
\* A device's clock names the time; no time for an episode that was skipped.
Completion == [at : Device \cup {None}, rev : {1, 2}]
History == [Episode -> Completion \cup {None}]
NoHistory == [e \in Episode |-> None]
File == [rec : Record, comps : History]

SeriesOf(r) == /\ r.f \in [Tracking -> 0..MaxTotal] /\ r.f.status \in 0..2 /\ r.f.enabled \in 0..1
               /\ r.locked \in BOOLEAN /\ r.rev \in Nat /\ r.actor \in Device

TypeOK ==
  /\ \A d \in Device :
       /\ SeriesOf(rec[d]) /\ SeriesOf(seen[d]) /\ SeriesOf(base[d].rec)
       /\ comps[d] \in History /\ base[d].comps \in History
       /\ conflict[d] = None \/ conflict[d].kind \in ConflictKind
  /\ SeriesOf(cloud.rec) /\ cloud.comps \in History
  /\ refused \in [Device -> BOOLEAN]

----------------------------------------------------------------------------
(* Local operations *)

Last(h) == IF h = NoHistory THEN 0 ELSE CHOOSE e \in Episode : h[e] # None /\ \A o \in Episode : h[o] # None => o <= e

\* validate_record: the page's revision is the database's, the series is
\* unlocked and has a total.
Valid(d) == /\ seen[d].rev = rec[d].rev
            /\ ~rec[d].locked
            /\ rec[d].f.total > 0

\* validate_history_bounds
WithinTotal(d) == rec[d].f.next <= rec[d].f.total /\ Last(comps[d]) <= rec[d].f.total

\* A write of this device raises the revision; the page shows its result.
Put(d, f, locked) ==
  LET r == [f |-> f, locked |-> locked, rev |-> rec[d].rev + 1, actor |-> d] IN
  /\ rec[d].rev < MaxRev0
  /\ rec' = [rec EXCEPT ![d] = r]
  /\ seen' = [seen EXCEPT ![d] = r]

\* persist_record_change: a next episode means watching, none means watched.
Progressed(f, next) ==
  [f EXCEPT !.next = next, !.enabled = 1, !.status = IF next = 0 THEN Watched ELSE Watching]

Enable(d, first) ==
  /\ Valid(d) /\ WithinTotal(d)
  /\ rec[d].f.status # Watched /\ rec[d].f.enabled = 0
  /\ first \in 1..rec[d].f.total
  /\ Put(d, Progressed(rec[d].f, first), rec[d].locked)
  /\ UNCHANGED <<comps, base, conflict, refused, cloud>>

\* insert_unknown below the boundary, insert_known at it.
CompletedEpisodes(h, from, upto, d) ==
  [e \in Episode |-> IF e \notin from..upto THEN h[e]
                     ELSE IF e < upto
                          THEN IF h[e] = None THEN [at |-> None, rev |-> 1] ELSE h[e]
                     ELSE IF h[e] = None THEN [at |-> d, rev |-> 1]
                     ELSE IF h[e].at = None THEN [at |-> d, rev |-> h[e].rev + 1]
                     ELSE h[e]]

\* A next episode further on, or none at all, completes those before it;
\* an earlier one, or one after the end, leaves the history alone.
SetNext(d, next) ==
  LET f == rec[d].f
      boundary == IF next = 0 THEN f.total ELSE next - 1 IN
  /\ Valid(d) /\ WithinTotal(d)
  /\ f.enabled = 1 /\ next \in 0..f.total /\ next # f.next
  /\ Put(d, Progressed(f, next), rec[d].locked)
  /\ comps' = [comps EXCEPT ![d] = IF f.next = 0 \/ boundary < f.next THEN @
                                   ELSE CompletedEpisodes(@, f.next, boundary, d)]
  /\ UNCHANGED <<base, conflict, refused, cloud>>

\* update_record_atomic from the form or the status menu: the history and
\* the next episode are not looked at.
Edit(d, field, v) ==
  /\ ~seen[d].locked
  /\ field = "status" => v \in 0..2
  /\ rec[d].f[field] # v
  /\ Put(d, [rec[d].f EXCEPT ![field] = v], rec[d].locked)
  /\ UNCHANGED <<comps, base, conflict, refused, cloud>>

ToggleLock(d) ==
  /\ Locking
  /\ Put(d, rec[d].f, ~rec[d].locked)
  /\ UNCHANGED <<comps, base, conflict, refused, cloud>>

\* The page reads the record after a pass, or after a refused command.
Reload(d) ==
  /\ seen[d] # rec[d]
  /\ seen' = [seen EXCEPT ![d] = rec[d]]
  /\ UNCHANGED <<rec, comps, base, conflict, refused, cloud>>

\* resolve_conflict writes a version of the conflict as it was stored.
Resolve(d, r) ==
  /\ Resolving /\ conflict[d] # None
  /\ r \in {conflict[d].local, conflict[d].remote}
  /\ rec' = [rec EXCEPT ![d] = r]
  /\ seen' = [seen EXCEPT ![d] = r]
  /\ conflict' = [conflict EXCEPT ![d] = None]
  /\ UNCHANGED <<comps, base, refused, cloud>>

----------------------------------------------------------------------------
(* A pass *)

Known(c) == c # None /\ c.at # None

(* Deviation: the remote history wins *)
MergedEpisodeRemote(b, l, r) == {r}

\* mergeEpisodeCompletions for one episode; two times are put to the user.
MergedEpisode(b, l, r) ==
  CASE l = r \/ r = b -> {l}
    [] l # r /\ l = b -> {r}
    [] l # r /\ l # b /\ r # b ->
         IF l = None \/ r = None THEN {l, r} \ {None}
         ELSE IF ~Known(l) /\ Known(r) THEN {r}
         ELSE IF ~Known(r) /\ Known(l) THEN {l}
         ELSE IF l.at = r.at THEN {IF l.rev >= r.rev THEN l ELSE r}
         ELSE {l, r}

\* replace_completions_tx, called when the history differs: every episode
\* must be within the total of the record as the commit leaves it.
Accepted(h, old, r) == h = old \/ \A e \in Episode : h[e] # None => e <= r.f.total

(* Deviation: the episodes are not part of the commit *)
CommittedNothing(d, h) == comps[d]

\* The history after the commit; that of a locked record is left alone.
Committed(d, h) == IF rec[d].locked THEN comps[d] ELSE h

Sync(d) ==
  LET m == MergeEntity(RecordEntity(base[d].rec), RecordEntity(rec[d]), RecordEntity(cloud.rec), conflict[d], d)
      row == IF rec[d].locked THEN rec[d] ELSE m.local.rec IN
  \E h \in History :
    /\ \A e \in Episode : h[e] \in MergedEpisode(base[d].comps[e], comps[d][e], cloud.comps[e])
    /\ m.local.rec.rev <= MaxRev0 /\ m.remote.rec.rev <= MaxRev0
    /\ cloud' = [rec |-> m.remote.rec, comps |-> h]
    /\ IF Accepted(h, comps[d], row)
       THEN /\ rec' = [rec EXCEPT ![d] = row]
            /\ comps' = [comps EXCEPT ![d] = Committed(d, h)]
            /\ base' = [base EXCEPT ![d] = cloud']
            /\ conflict' = [conflict EXCEPT ![d] = m.conflict]
            /\ refused' = [refused EXCEPT ![d] = FALSE]
       ELSE /\ refused' = [refused EXCEPT ![d] = TRUE]
            /\ UNCHANGED <<rec, comps, base, conflict>>
  /\ UNCHANGED seen

----------------------------------------------------------------------------

Init ==
  /\ \E d \in Device, total \in 1..MaxTotal :
       cloud = [rec |-> [f |-> [x \in Tracking |-> IF x = "total" THEN total ELSE 0], locked |-> FALSE,
                         rev |-> 1, actor |-> d], comps |-> NoHistory]
  /\ rec = [d \in Device |-> cloud.rec] /\ seen = rec
  /\ comps = [d \in Device |-> NoHistory]
  /\ base = [d \in Device |-> cloud]
  /\ conflict = [d \in Device |-> None]
  /\ refused = [d \in Device |-> FALSE]

Local(d) ==
  \/ \E e \in Episode : Enable(d, e)
  \/ \E e \in 0..MaxTotal : SetNext(d, e)
  \/ \E field \in {"total", "status"}, v \in 0..MaxTotal : Edit(d, field, v)
  \/ ToggleLock(d) \/ Reload(d)
  \/ \E r \in (IF conflict[d] = None THEN {} ELSE {conflict[d].local, conflict[d].remote}) : Resolve(d, r)

Next == \E d \in Device : Local(d) \/ Sync(d)

Spec == Init /\ [][Next]_vars

----------------------------------------------------------------------------
(* Properties *)

Kept(h, later) == \A e \in Episode : /\ h[e] # None => later[e] # None
                                     /\ Known(h[e]) => Known(later[e])

\* An episode that was completed stays completed on every device and in the
\* file, and a known time is never forgotten, whatever two devices do and
\* publish (syncMerge.ts, mergeEpisodeCompletions: a monotonic merge).
KeepsHistory == Kept(cloud.comps, cloud'.comps) /\ \A d \in Device : Kept(comps[d], comps'[d])
HistoryIsMonotonic == [][KeepsHistory]_vars

\* The revision that is compared before progress is written identifies the
\* record the user saw (episode_history.rs, validate_record): a page whose
\* revision is current shows the current record.
RevisionShowsProgress ==
  \A d \in Device : seen[d].rev = rec[d].rev => seen[d].f = rec[d].f

\* A device that is in step with the file, and has no conflict, shows the
\* history of the file (syncService.ts, the commit and its baseline).
InStepMeansSameHistory ==
  \A d \in Device : (base[d] = cloud /\ rec[d] = cloud.rec) =>
     Kept(cloud.comps, comps[d])

\* The history of a series that stays locked does not change on the device,
\* by a command of a stale page or by a pass (replace_completions_tx).
LockedHistoryIsUntouchedStep ==
  \A d \in Device : rec[d].locked /\ rec'[d].locked => comps'[d] = comps[d]
LockedHistoryIsUntouched == [][LockedHistoryIsUntouchedStep]_vars

\* What a pass has merged and published, the database of the device takes
\* (syncService.ts, commitSyncResult after the PUT).
MergedHistoryIsAccepted == \A d \in Device : ~refused[d]

=============================================================================
