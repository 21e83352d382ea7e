--------------------------- MODULE IssueMaintenance ---------------------------
(***************************************************************************)
(* The two transactions that delete issues, interleaved with the ingest    *)
(* workers of IssueStore: merge_issues (backend/apps/issues/services.py,   *)
(* called by IssueViewSet.merge) and the retention purge                   *)
(* (backend/apps/issues/retention.py, run nightly and by purge_events).    *)
(*                                                                         *)
(* Neither locks the rows it will change before it reads them.  Each SQL   *)
(* statement is a step: it sees what was committed when it runs, and its   *)
(* own writes become visible at the commit.  Deleting an issue is Django's *)
(* cascade: first the rows that refer to it, then the row itself, and the  *)
(* foreign keys, deferred, are checked at the commit.                      *)
(***************************************************************************)
EXTENDS IssueStore, FiniteSetsExt

CONSTANTS Merger, Purger

ASSUME MaintainersAssumption == Maintainers = {Merger, Purger} /\ Merger # Purger

VARIABLES
  mg,           \* the merge request in progress
  pg,           \* the purge in progress
  doomed,       \* rows the cascade of the open transaction has deleted
  horizon,      \* history: the latest cutoff events were purged before
  mergeFailed,  \* history: some merge ended with a database error
  raced         \* history: store_event ran while maintenance was in progress

maintVars == <<mg, pg, doomed, horizon, mergeFailed>>
allVars   == <<vars, maintVars, raced>>

NoMerge == [pc |-> "idle", target |-> None, sources |-> {}, read |-> [i \in IssueIds |-> BlankIssue],
            moved |-> {}, movedHashes |-> {}, seen |-> {}, users |-> 0]

NoPurge == [pc |-> "idle", cutoff |-> 0, ids |-> {}]

NothingDoomed == [events |-> {}, users |-> {}]

MaintInit ==
  /\ Init
  /\ mg = NoMerge /\ pg = NoPurge /\ doomed = NothingDoomed /\ horizon = 0
  /\ mergeFailed = FALSE /\ raced = FALSE

EventsOf(S) == {e \in events : e.issue \in S}
UsersOf(S)  == {p \in seenBy : p[1] \in S}
HashesOf(S) == {h \in Hashes : hashes[h] \in S}

IssuesWithout(S) == [i \in IssueIds |-> IF i \in S THEN BlankIssue ELSE issue[i]]

(* Rows that refer to S, deleted by the first statements of a cascade.     *)
Cascade(S) == doomed' = [events |-> EventsOf(S), users |-> UsersOf(S)]

(* A row inserted after the cascade still refers to a deleted issue.       *)
Dangling(S) == ~(EventsOf(S) \subseteq doomed.events /\ UsersOf(S) \subseteq doomed.users)

(* Bound: one merge or one purge at a time.                                *)
MaintenanceIdle == mg.pc = "idle" /\ pg.pc = "idle"

(* History: a transaction of a worker and one of maintenance overlapped.   *)
WorkersQuiet == \A w \in Workers : ~InTransaction(w)

RaceNoted ==
  raced' = (\/ raced
            \/ /\ ~(MaintenanceIdle /\ MaintenanceIdle')
               /\ ~(WorkersQuiet /\ WorkersQuiet'))

-----------------------------------------------------------------------------
(* merge_issues.                                                           *)

(* The view reads the target and the sources; the merge works on these     *)
(* in-memory copies to the end.                                            *)
MergeRead(t, S) ==
  /\ MaintenanceIdle
  /\ t \in rows /\ S \subseteq rows \ {t} /\ S # {}
  /\ mg' = [NoMerge EXCEPT !.pc = "read", !.target = t, !.sources = S, !.read = [i \in IssueIds |-> IF i \in S \cup {t} THEN issue[i] ELSE BlankIssue]]
  /\ UNCHANGED <<vars, pg, doomed, horizon, mergeFailed>>
  /\ RaceNoted

(* Wrong: the events stay with the sources and go in the cascade.          *)
MergeReassignHashesOnly ==
  /\ mg.pc = "read"
  /\ mg' = [mg EXCEPT !.pc = "reassigned", !.movedHashes = HashesOf(mg.sources)]
  /\ UNCHANGED <<vars, pg, doomed, horizon, mergeFailed>>
  /\ RaceNoted

(* The hashes and the events of the sources are re-pointed to the target.  *)
MergeReassign ==
  /\ mg.pc = "read"
  /\ mg' = [mg EXCEPT !.pc = "reassigned", !.moved = EventsOf(mg.sources),
                      !.movedHashes = HashesOf(mg.sources)]
  /\ UNCHANGED <<vars, pg, doomed, horizon, mergeFailed>>
  /\ RaceNoted

(* The users the target has already.                                       *)
MergeSeen ==
  /\ mg.pc = "reassigned"
  /\ mg' = [mg EXCEPT !.pc = "seen", !.seen = {u \in Users : <<mg.target, u>> \in seenBy}]
  /\ UNCHANGED <<vars, pg, doomed, horizon, mergeFailed>>
  /\ RaceNoted

(* IssueUser rows of the sources that the target lacks.                    *)
FoldedUsers == {p \in UsersOf(mg.sources) : p[2] \notin mg.seen}

(* The unique (issue, ident) admits re-pointing them: no user twice among  *)
(* the sources, and none recorded for the target since MergeSeen.          *)
FoldAllowed ==
  /\ \A p, q \in FoldedUsers : p[2] = q[2] => p = q
  /\ \A p \in FoldedUsers : <<mg.target, p[2]>> \notin seenBy

FoldWaits ==
  \E p \in FoldedUsers, w \in Workers : <<mg.target, p[2]>> \in pendingUsers[w]

(* Drop the rows the target has, re-point the others, count the union.     *)
MergeUsers ==
  /\ mg.pc = "seen"
  /\ ~FoldWaits
  /\ FoldAllowed
  /\ pendingUsers' = [pendingUsers EXCEPT ![Merger] =
                        {<<mg.target, p[2]>> : p \in FoldedUsers}]
  /\ mg' = [mg EXCEPT !.pc = "folded",
              !.users = Cardinality({u \in Users : <<mg.target, u>> \in seenBy \cup pendingUsers'[Merger]})]
  /\ UNCHANGED <<dbVars, lock, queue, deliveries, wk, now, histVars,
                 pg, doomed, horizon, mergeFailed>>
  /\ RaceNoted

(* The sources are deleted: what still refers to them goes first ...       *)
MergeCascade ==
  /\ mg.pc = "folded"
  /\ mg' = [mg EXCEPT !.pc = "cascaded"]
  /\ Cascade(mg.sources)
  /\ UNCHANGED <<vars, pg, horizon, mergeFailed>>
  /\ RaceNoted

(* ... and then the rows, for which the DELETE waits.                      *)
MergeDelete ==
  /\ mg.pc = "cascaded"
  /\ \A s \in mg.sources : Free(s)
  /\ lock' = [i \in IssueIds |-> IF i \in mg.sources THEN Merger ELSE lock[i]]
  /\ mg' = [mg EXCEPT !.pc = "deleted"]
  /\ UNCHANGED <<dbVars, pendingUsers, queue, deliveries, wk, now, histVars,
                 pg, doomed, horizon, mergeFailed>>
  /\ RaceNoted

(* The counters of S, added up from what was read of them.                 *)
TimesOf(read, S) == FoldSet(LAMBDA i, n : read[i].times + n, 0, S)

(* target.save writes the counters summed in memory, and the commit.       *)
MergedRow ==
  LET involved == mg.sources \cup {mg.target} IN
  [issue[mg.target] EXCEPT
     !.times = TimesOf(mg.read, involved),
     !.users = mg.users,
     !.last  = Max({mg.read[i].last : i \in involved})]

MergeCommit ==
  /\ mg.pc = "deleted"
  /\ Free(mg.target)
  /\ ~Dangling(mg.sources)
  /\ rows' = rows \ mg.sources
  /\ issue' = [IssuesWithout(mg.sources) EXCEPT ![mg.target] = MergedRow]
  /\ events' = (events \ doomed.events)
                 \cup {[e EXCEPT !.issue = mg.target] : e \in mg.moved}
  /\ seenBy' = (seenBy \ doomed.users) \cup pendingUsers[Merger]
  /\ hashes' = [h \in Hashes |-> IF h \in mg.movedHashes THEN mg.target
                                 ELSE IF hashes[h] \in mg.sources THEN None ELSE hashes[h]]
  /\ lock' = ReleaseOf(Merger)
  /\ pendingUsers' = [pendingUsers EXCEPT ![Merger] = {}]
  /\ mg' = NoMerge /\ doomed' = NothingDoomed
  /\ UNCHANGED <<queue, deliveries, wk, now, histVars, pg, horizon, mergeFailed>>
  /\ RaceNoted

(* A constraint fails (or the merge is the deadlock's victim): rollback.   *)
MergeRollback ==
  /\ lock' = ReleaseOf(Merger)
  /\ pendingUsers' = [pendingUsers EXCEPT ![Merger] = {}]
  /\ mg' = NoMerge /\ doomed' = NothingDoomed
  /\ mergeFailed' = TRUE
  /\ UNCHANGED <<dbVars, queue, deliveries, wk, now, histVars, pg, horizon>>
  /\ RaceNoted

MergeFails ==
  /\ \/ mg.pc = "seen" /\ ~FoldWaits /\ ~FoldAllowed
     \/ mg.pc = "deleted" /\ Free(mg.target) /\ Dangling(mg.sources)
  /\ MergeRollback

(* The worker that holds the target waits for an IssueUser key the merge   *)
(* has inserted, and the merge waits for the target: PostgreSQL ends one   *)
(* of the two transactions.                                                *)
Deadlocked(w) ==
  /\ mg.pc = "deleted"
  /\ wk[w].pc = "locked" /\ wk[w].issue = mg.target
  /\ <<mg.target, wk[w].msg.user>> \in pendingUsers[Merger]

DeadlockKillsMerge == (\E w \in Workers : Deadlocked(w)) /\ MergeRollback

DeadlockKillsWorker(w) ==
  /\ Deadlocked(w)
  /\ lock' = ReleaseOf(w)
  /\ Finish(w, "failed")
  /\ UNCHANGED <<dbVars, pendingUsers, deliveries, now, histVars, maintVars>>
  /\ RaceNoted

-----------------------------------------------------------------------------
(* purge_events_before.                                                    *)

(* delete_before: events received before the cutoff.                       *)
PurgeEvents(cutoff) ==
  /\ MaintenanceIdle
  /\ cutoff \in (horizon + 1)..now
  /\ events' = {e \in events : e.at >= cutoff}
  /\ pg' = [NoPurge EXCEPT !.pc = "purging", !.cutoff = cutoff]
  /\ horizon' = cutoff
  /\ UNCHANGED <<rows, issue, hashes, seenBy, lockVars, queue, deliveries, wk, now,
                 histVars, mg, doomed, mergeFailed>>
  /\ RaceNoted

EmptyIssues == {i \in rows : issue[i].last < pg.cutoff /\ EventsOf({i}) = {}}

(* _batched_delete: a batch of ids of empty issues, until there is none.   *)
PurgeList ==
  /\ pg.pc = "purging"
  /\ pg' = IF EmptyIssues = {} THEN NoPurge
            ELSE [pg EXCEPT !.pc = "listed", !.ids = EmptyIssues]
  /\ UNCHANGED <<vars, mg, doomed, horizon, mergeFailed>>
  /\ RaceNoted

(* The listed issues are deleted by id, whatever they hold by now.         *)
PurgeCascade ==
  /\ pg.pc = "listed"
  /\ pg' = [pg EXCEPT !.pc = "cascaded"]
  /\ Cascade(pg.ids)
  /\ UNCHANGED <<vars, mg, horizon, mergeFailed>>
  /\ RaceNoted

(* Wrong: the ids are listed once, before the loop over the batches.       *)
PurgeDeleteSameIds ==
  /\ pg.pc = "cascaded"
  /\ \A i \in pg.ids : Free(i)
  /\ rows' = rows \ pg.ids
  /\ pg' = [pg EXCEPT !.pc = "listed"]
  /\ doomed' = NothingDoomed
  /\ UNCHANGED <<issue, hashes, seenBy, events, lockVars, queue, deliveries, wk, now,
                 histVars, mg, horizon, mergeFailed>>
  /\ RaceNoted

PurgeDelete ==
  /\ pg.pc = "cascaded"
  /\ \A i \in pg.ids : Free(i)
  /\ IF Dangling(pg.ids)
     THEN pg' = NoPurge /\ UNCHANGED dbVars
     ELSE /\ pg' = [pg EXCEPT !.pc = "purging", !.ids = {}]
          /\ rows' = rows \ pg.ids
          /\ events' = events \ doomed.events
          /\ seenBy' = seenBy \ doomed.users
          /\ hashes' = [h \in Hashes |-> IF hashes[h] \in pg.ids THEN None ELSE hashes[h]]
          /\ issue' = IssuesWithout(pg.ids)
  /\ doomed' = NothingDoomed
  /\ UNCHANGED <<lockVars, queue, deliveries, wk, now, histVars, mg, horizon, mergeFailed>>
  /\ RaceNoted

-----------------------------------------------------------------------------

(* Wrong: the failed task is queued again, for ever.                       *)
CreateConflictRetried(w) ==
  /\ wk[w].pc = "taken" /\ Group(wk[w].msg.hash) = {} /\ hashes[wk[w].msg.hash] # None
  /\ Finish(w, "queued")
  /\ deliveries' = [deliveries EXCEPT ![wk[w].msg] = @ - 1]
  /\ UNCHANGED <<dbVars, lockVars, now, histVars, maintVars>>
  /\ RaceNoted

(* No Issue row for the hash, but an IssueHash row of another issue: the   *)
(* lookup by (project, hash, new issue) misses, the INSERT violates the    *)
(* unique (project, hash), and the whole transaction rolls back.  Nothing  *)
(* retries the task.                                                       *)
CreateConflict(w) ==
  LET h == wk[w].msg.hash IN
  /\ wk[w].pc = "taken"
  /\ Group(h) = {}
  /\ ~Inserting(h)
  /\ hashes[h] # None
  /\ Finish(w, "failed")
  /\ UNCHANGED <<dbVars, lockVars, deliveries, now, histVars, maintVars>>
  /\ RaceNoted

MergeStep ==
  \/ MergeReassign \/ MergeSeen \/ MergeUsers \/ MergeCascade \/ MergeDelete
  \/ MergeCommit \/ MergeFails \/ DeadlockKillsMerge

PurgeStep == PurgeList \/ PurgeCascade \/ PurgeDelete

MaintenanceNext ==
  \/ \E t \in rows, S \in SUBSET rows : MergeRead(t, S)
  \/ MergeStep
  \/ \E cutoff \in 1..now : PurgeEvents(cutoff)
  \/ PurgeStep

StoreNext == Next /\ UNCHANGED maintVars /\ RaceNoted

MaintNext ==
  \/ StoreNext
  \/ MaintenanceNext
  \/ \E w \in Workers : CreateConflict(w) \/ DeadlockKillsWorker(w)

MaintSpec == MaintInit /\ [][MaintNext]_allVars

(* Celery keeps running: a queued message is eventually handed to some     *)
(* worker, and a worker goes on with its task, strongly fairly because     *)
(* PostgreSQL queues those that wait for a lock.  A merge request and a    *)
(* purge that have started go on to their end.                             *)
StoreEventStep(w) ==
  \/ StoreEvent(w) /\ UNCHANGED maintVars /\ RaceNoted
  \/ CreateConflict(w)

TakeStep(m) == (\E w \in Workers : Take(w, m)) /\ UNCHANGED maintVars /\ RaceNoted

MaintFairness ==
  /\ \A w \in Workers : SF_allVars(StoreEventStep(w))
  /\ \A m \in Messages : WF_allVars(TakeStep(m))
  /\ WF_allVars(MergeStep)
  /\ WF_allVars(PurgeStep)

FairMaintSpec == MaintSpec /\ MaintFairness

-----------------------------------------------------------------------------
(* Properties.                                                             *)

(* Type invariant of the maintenance transactions.                         *)
MaintTypeOK ==
  /\ TypeOK
  /\ mg.pc \in {"idle", "read", "reassigned", "seen", "folded", "cascaded", "deleted"}
  /\ mg.target \in IssueIds \cup {None} /\ mg.sources \subseteq IssueIds
  /\ mg.moved \subseteq EventRow /\ mg.movedHashes \subseteq Hashes
  /\ pg.pc \in {"idle", "purging", "listed", "cascaded"}
  /\ pg.ids \subseteq IssueIds
  /\ horizon \in Nat /\ mergeFailed \in BOOLEAN /\ raced \in BOOLEAN

(* A live issue is what its own grouping hash resolves to: merging moves   *)
(* the hashes of the sources, never the hash of a surviving issue.         *)
HashAgrees == \A i \in rows : hashes[issue[i].hash] = i

(* Retention and merging lose no event: a stored event received since the  *)
(* cutoff is still there, under some issue.                                *)
EventsKept ==
  \A e \in ledger :
    e.at >= horizon => \E f \in events : f.msg = e.msg /\ f.delivery = e.delivery

(* As long as no event is stored while a merge or a purge runs, merging    *)
(* sums the counters (a purge leaves them as they are), users_seen is the  *)
(* size of the union, and no event that retention has to keep is lost: the *)
(* events of the sources are re-pointed before the sources go.             *)
ExactAlone ==
  ~raced => /\ UsersExact /\ EventsKept
            /\ IF horizon = 0 THEN CountsExact
               ELSE \A i \in rows : issue[i].times >= Cardinality(EventsOf({i}))

(* merge_issues re-points the users of the sources so that users_seen is a *)
(* true union: merging must not fail because sources share a user.         *)
NoMergeError == ~raced => ~mergeFailed

(* A merge that starts ends, by commit or by rollback, although it waits   *)
(* for workers that may be waiting for it; so does a purge.                *)
MaintenanceEnds == ~MaintenanceIdle ~> MaintenanceIdle
=============================================================================
