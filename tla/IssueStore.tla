------------------------------ MODULE IssueStore ------------------------------
(***************************************************************************)
(* The ingest worker's transaction: Celery workers take raw events from a  *)
(* queue and run store_event (backend/apps/issues/services.py), while      *)
(* users change the status of issues.  The database is PostgreSQL at READ  *)
(* COMMITTED: what a transaction writes is visible to the others only when *)
(* it commits, a row it has locked or written is held until then, and an   *)
(* index entry it has inserted blocks a second insert of the same key.     *)
(*                                                                         *)
(* One project is modelled: every table below is keyed by project first.   *)
(* Merging and retention, which delete issues, are in IssueMaintenance.    *)
(***************************************************************************)
EXTENDS Naturals, FiniteSets

CONSTANTS
  Hashes,         \* grouping hashes (compute_grouping's primary_hash)
  Users,          \* identifiers of affected users (_user_ident)
  Messages,       \* raw events accepted by the ingest endpoint
  IssueIds,       \* primary keys of Issue rows
  Workers,        \* Celery worker processes of the ingest queue
  Maintainers,    \* transactions other than store_event that lock rows
  UserStatuses,   \* the statuses users choose (bounds the model)
  None,           \* no issue, no user, no lock holder
  MaxDeliveries,  \* deliveries of one message (bounds redelivery)
  MaxTime         \* bound of the clock

ASSUME MessagesAssumption ==
  \A m \in Messages : m.hash \in Hashes /\ m.user \in Users \cup {None}

ASSUME StatusAssumption ==
  UserStatuses \subseteq {"unresolved", "resolved", "ignored", "archived"}

ASSUME NoneAssumption ==
  /\ None \notin {"unresolved", "resolved", "ignored", "archived"}
  /\ None \notin IssueIds /\ None \notin Users /\ None \notin Messages
  /\ None \notin Workers \cup Maintainers
  /\ Workers \cap Maintainers = {}

ASSUME BoundsAssumption == MaxDeliveries \in Nat /\ MaxTime \in Nat

VARIABLES
  rows,          \* ids of the committed Issue rows
  issue,         \* the columns of each Issue row
  hashes,        \* IssueHash: hash -> issue (unique per project)
  seenBy,        \* IssueUser: pairs <<issue, ident>>
  events,        \* Event rows
  lock,          \* who holds the row lock of each issue
  pendingUsers,  \* IssueUser keys inserted by an open transaction
  queue,         \* state of each message
  deliveries,    \* how often each message was delivered
  wk,            \* what each worker is doing
  now,           \* clock, for received_at and last_seen
  minted,        \* history: ids that were ever committed
  ledger,        \* history: every Event row ever committed
  sent,          \* history: signals sent for each issue
  told,          \* history: event_stored signals sent for each message
  reopened,      \* history: commits that reopened each issue
  dirty          \* history: issues with an event since a user set their status

dbVars   == <<rows, issue, hashes, seenBy, events>>
lockVars == <<lock, pendingUsers>>
histVars == <<minted, ledger, sent, told, reopened, dirty>>
vars     == <<dbVars, lockVars, queue, deliveries, wk, now, histVars>>

Statuses == {"unresolved", "resolved", "ignored", "archived"}
Owners   == Workers \cup Maintainers

IssueRow == [hash : Hashes \cup {None}, status : Statuses, times : Nat, users : Nat, last : Nat]
EventRow == [msg : Messages, delivery : Nat, issue : IssueIds, at : Nat]

BlankIssue == [hash |-> None, status |-> "unresolved", times |-> 0, users |-> 0, last |-> 0]

IdleWorker == [pc |-> "idle", msg |-> None, issue |-> None, created |-> FALSE,
               regressed |-> FALSE, newUser |-> FALSE, ts |-> 0]

WorkerState ==
  [pc : {"idle", "taken", "locked", "written", "committed", "announced", "dispatched"},
   msg : Messages \cup {None}, issue : IssueIds \cup {None},
   created : BOOLEAN, regressed : BOOLEAN, newUser : BOOLEAN, ts : Nat]

Init ==
  /\ rows = {} /\ hashes = [h \in Hashes |-> None] /\ seenBy = {} /\ events = {}
  /\ issue = [i \in IssueIds |-> BlankIssue]
  /\ lock = [i \in IssueIds |-> None]
  /\ pendingUsers = [o \in Owners |-> {}]
  /\ queue = [m \in Messages |-> "unsent"]
  /\ deliveries = [m \in Messages |-> 0]
  /\ wk = [w \in Workers |-> IdleWorker]
  /\ now = 0
  /\ minted = {} /\ ledger = {} /\ dirty = {}
  /\ sent = [i \in IssueIds |-> [created |-> 0, regressed |-> 0]]
  /\ reopened = [i \in IssueIds |-> 0]
  /\ told = [m \in Messages |-> 0]

-----------------------------------------------------------------------------
(* Helpers.                                                                *)

Group(h) == {i \in rows : issue[i].hash = h}      \* at most one: unique constraint

FreeNoLock(i) == i \in IssueIds        \* wrong: the SELECT without FOR UPDATE

Free(i) == lock[i] = None

InTransaction(w) == wk[w].pc \in {"locked", "written"}

(* Wrong: no unique constraint on (project, primary_hash).                 *)
InsertingUnseen(h) == h \notin Hashes

(* Another worker has inserted an Issue row for h and not yet committed: a *)
(* second INSERT waits on the unique index (project, primary_hash).        *)
Inserting(h) ==
  \E v \in Workers : InTransaction(v) /\ wk[v].created /\ wk[v].msg.hash = h

(* Wrong rows, which the properties must detect: "status" missing from     *)
(* update_fields, times_seen starting from 1.                              *)
BumpedRow(i, w, status, times, users) ==
  [hash |-> wk[w].msg.hash, status |-> status, times |-> times, users |-> users,
   last |-> wk[w].ts]

KnownStatus(i, w) == IF wk[w].created \/ wk[w].regressed THEN "unresolved" ELSE issue[i].status

BumpedNoReopen(i, w) ==
  BumpedRow(i, w, IF wk[w].created THEN "unresolved" ELSE issue[i].status,
            issue[i].times + 1, issue[i].users)

BumpedFromOne(i, w) ==
  BumpedRow(i, w, KnownStatus(i, w), issue[i].times + IF wk[w].created THEN 2 ELSE 1, issue[i].users)

(* The row store_event leaves behind: a fresh one, or the one it holds.    *)
Bumped(i, w) ==
  LET fresh == wk[w].created
      prior == IF fresh THEN BlankIssue ELSE issue[i]
  IN  [hash   |-> wk[w].msg.hash,
       status |-> IF fresh \/ wk[w].regressed THEN "unresolved" ELSE issue[i].status,
       times  |-> prior.times + 1,
       users  |-> prior.users + IF wk[w].newUser THEN 1 ELSE 0,
       last   |-> IF fresh \/ wk[w].ts > prior.last THEN wk[w].ts ELSE prior.last]

Becomes(w, state) == wk' = [wk EXCEPT ![w] = state]

ReleaseOf(o) == [i \in IssueIds |-> IF lock[i] = o THEN None ELSE lock[i]]

(* The task ends: the message is acknowledged (acks_late) and the worker   *)
(* is ready for the next one.                                              *)
Finish(w, outcome) ==
  /\ queue' = [queue EXCEPT ![wk[w].msg] = outcome]
  /\ Becomes(w, IdleWorker)

-----------------------------------------------------------------------------
(* The queue.                                                              *)

(* The endpoint enqueues the payload and answers 202.                      *)
Accept(m) ==
  /\ queue[m] = "unsent"
  /\ queue' = [queue EXCEPT ![m] = "queued"]
  /\ UNCHANGED <<dbVars, lockVars, deliveries, wk, now, histVars>>

(* A worker is handed a message; with acks_late it stays unacknowledged.   *)
Take(w, m) ==
  /\ wk[w].pc = "idle"
  /\ queue[m] = "queued"
  /\ queue' = [queue EXCEPT ![m] = "running"]
  /\ deliveries' = [deliveries EXCEPT ![m] = @ + 1]
  /\ Becomes(w, [wk[w] EXCEPT !.pc = "taken", !.msg = m])
  /\ UNCHANGED <<dbVars, lockVars, now, histVars>>

(* The worker process dies and its transaction rolls back, if one is open. *)
(* When the pool's master dies with it (a killed container), the broker    *)
(* delivers the unacknowledged message again; when it does not, it         *)
(* acknowledges the lost process's task, since only acks_late is set and   *)
(* not task_reject_on_worker_lost.                                         *)
Crash(w) ==
  /\ wk[w].pc # "idle"
  /\ \E outcome \in {"queued", "failed"} :
       /\ outcome = "queued" => deliveries[wk[w].msg] < MaxDeliveries
       /\ Finish(w, outcome)
  /\ lock' = ReleaseOf(w)
  /\ pendingUsers' = [pendingUsers EXCEPT ![w] = {}]
  /\ UNCHANGED <<dbVars, deliveries, now, histVars>>

-----------------------------------------------------------------------------
(* store_event.                                                            *)

(* SELECT ... FOR UPDATE finds the group's row; it waits while the row is  *)
(* held.  The status read under the lock decides whether this regresses.   *)
LockIssue(w) ==
  /\ wk[w].pc = "taken"
  /\ \E i \in Group(wk[w].msg.hash) :
       /\ Free(i)
       /\ lock' = [lock EXCEPT ![i] = w]
       /\ Becomes(w, [wk[w] EXCEPT !.pc = "locked", !.issue = i, !.created = FALSE,
                                  !.regressed = (issue[i].status = "resolved")])
  /\ UNCHANGED <<dbVars, pendingUsers, queue, deliveries, now, histVars>>

(* No row for the hash: get_or_create inserts the Issue, then its hash     *)
(* (which can be taken only after a merge, see CreateConflict).            *)
CreateIssue(w) ==
  LET h == wk[w].msg.hash IN
  /\ wk[w].pc = "taken"
  /\ Group(h) = {}
  /\ ~Inserting(h)
  /\ hashes[h] = None
  /\ \E i \in IssueIds \ minted :
       /\ Free(i)
       /\ lock' = [lock EXCEPT ![i] = w]
       /\ Becomes(w, [wk[w] EXCEPT !.pc = "locked", !.issue = i, !.created = TRUE,
                                  !.regressed = FALSE])
  /\ UNCHANGED <<dbVars, pendingUsers, queue, deliveries, now, histVars>>

(* The counters, the IssueUser row and the Event row.  get_or_create on    *)
(* IssueUser waits while another open transaction holds the same key.      *)
WriteRows(w) ==
  LET i == wk[w].issue
      u == wk[w].msg.user
      isNew == u # None /\ <<i, u>> \notin seenBy
  IN
  /\ wk[w].pc = "locked"
  /\ \A o \in Owners \ {w} : <<i, u>> \notin pendingUsers[o]
  /\ pendingUsers' = [pendingUsers EXCEPT ![w] = IF isNew THEN {<<i, u>>} ELSE {}]
  /\ \E ts \in 0..now :
       Becomes(w, [wk[w] EXCEPT !.pc = "written", !.newUser = isNew, !.ts = ts])
  /\ UNCHANGED <<dbVars, lock, queue, deliveries, now, histVars>>

(* Wrong: the IssueHash row of a new issue is not written.                 *)
CommitNoHash(w) ==
  LET i == wk[w].issue
      e == [msg |-> wk[w].msg, delivery |-> deliveries[wk[w].msg], issue |-> i, at |-> now]
  IN
  /\ wk[w].pc = "written"
  /\ rows' = rows \cup {i} /\ issue' = [issue EXCEPT ![i] = Bumped(i, w)]
  /\ seenBy' = seenBy \cup pendingUsers[w] /\ events' = events \cup {e}
  /\ lock' = ReleaseOf(w) /\ pendingUsers' = [pendingUsers EXCEPT ![w] = {}]
  /\ Becomes(w, [wk[w] EXCEPT !.pc = "committed"])
  /\ minted' = minted \cup {i} /\ ledger' = ledger \cup {e} /\ dirty' = dirty \cup {i}
  /\ UNCHANGED <<hashes, queue, deliveries, now, sent, told, reopened>>

(* COMMIT: everything becomes visible at once and the locks are released.  *)
Commit(w) ==
  LET i == wk[w].issue
      m == wk[w].msg
      e == [msg |-> m, delivery |-> deliveries[m], issue |-> i, at |-> now]
  IN
  /\ wk[w].pc = "written"
  /\ rows' = rows \cup {i}
  /\ issue' = [issue EXCEPT ![i] = Bumped(i, w)]
  /\ hashes' = IF wk[w].created THEN [hashes EXCEPT ![m.hash] = i] ELSE hashes
  /\ seenBy' = seenBy \cup pendingUsers[w]
  /\ events' = events \cup {e}
  /\ lock' = ReleaseOf(w)
  /\ pendingUsers' = [pendingUsers EXCEPT ![w] = {}]
  /\ Becomes(w, [wk[w] EXCEPT !.pc = "committed"])
  /\ minted' = minted \cup {i}
  /\ ledger' = ledger \cup {e}
  /\ dirty' = dirty \cup {i}
  /\ reopened' = [reopened EXCEPT ![i] = IF wk[w].regressed THEN @ + 1 ELSE @]
  /\ UNCHANGED <<queue, deliveries, now, sent, told>>

(* on_commit: issue_created or issue_regressed, if the event made the      *)
(* issue or reopened it ...                                                *)
Announce(w) ==
  LET i == wk[w].issue IN
  /\ wk[w].pc = "committed"
  /\ wk[w].created \/ wk[w].regressed
  /\ sent' = [sent EXCEPT ![i].created = IF wk[w].created THEN @ + 1 ELSE @,
                          ![i].regressed = IF wk[w].regressed THEN @ + 1 ELSE @]
  /\ Becomes(w, [wk[w] EXCEPT !.pc = "announced"])
  /\ UNCHANGED <<dbVars, lockVars, queue, deliveries, now, minted, ledger, told, reopened, dirty>>

(* ... and then event_stored.                                              *)
SendStored(w) ==
  /\ \/ wk[w].pc = "announced"
     \/ wk[w].pc = "committed" /\ ~wk[w].created /\ ~wk[w].regressed
  /\ told' = [told EXCEPT ![wk[w].msg] = @ + 1]
  /\ Becomes(w, [wk[w] EXCEPT !.pc = "dispatched"])
  /\ UNCHANGED <<dbVars, lockVars, queue, deliveries, now, minted, ledger, sent, reopened, dirty>>

(* The task returns and is acknowledged.                                   *)
EndTask(w) ==
  /\ wk[w].pc = "dispatched"
  /\ Finish(w, "done")
  /\ UNCHANGED <<dbVars, lockVars, deliveries, now, histVars>>

Dispatching(w) == wk[w].pc \in {"committed", "announced", "dispatched"}

(* Wrong: a failed dispatch is tried again from its first signal.          *)
RaiseAndRepeat(w) ==
  /\ Dispatching(w)
  /\ Becomes(w, [wk[w] EXCEPT !.pc = "committed"])
  /\ UNCHANGED <<dbVars, lockVars, queue, deliveries, now, histVars>>

(* A receiver raises (broker or cache down): the signals after it are not  *)
(* sent, the task has failed, and nothing retries it.                      *)
Raise(w) ==
  /\ Dispatching(w)
  /\ Finish(w, "failed")
  /\ UNCHANGED <<dbVars, lockVars, deliveries, now, histVars>>

Dispatch(w) == Announce(w) \/ SendStored(w) \/ EndTask(w) \/ Raise(w)

-----------------------------------------------------------------------------
(* Users and time.                                                         *)

(* resolve, ignore, unresolve and archive (one issue), and the bulk action *)
(* (several): an UPDATE of the status column alone, which waits for locks. *)
SetStatus(S, status) ==
  /\ S # {}
  /\ \A i \in S : Free(i)
  /\ issue' = [i \in IssueIds |->
                 IF i \in S THEN [issue[i] EXCEPT !.status = status] ELSE issue[i]]
  /\ dirty' = dirty \ S
  /\ UNCHANGED <<rows, hashes, seenBy, events, lockVars, queue, deliveries, wk, now,
                 minted, ledger, sent, told, reopened>>

Tick ==
  /\ now < MaxTime
  /\ now' = now + 1
  /\ UNCHANGED <<dbVars, lockVars, queue, deliveries, wk, histVars>>

-----------------------------------------------------------------------------

StoreEvent(w) ==
  LockIssue(w) \/ CreateIssue(w) \/ WriteRows(w) \/ Commit(w) \/ Dispatch(w)

WorkerNext ==
  \E w \in Workers : StoreEvent(w) \/ Crash(w) \/ \E m \in Messages : Take(w, m)

UserNext ==
  \E S \in SUBSET rows, status \in UserStatuses : SetStatus(S, status)

Next == (\E m \in Messages : Accept(m)) \/ WorkerNext \/ UserNext \/ Tick

Spec == Init /\ [][Next]_vars

-----------------------------------------------------------------------------
(* Properties.                                                             *)

(* Type invariant of the tables, the locks, the queue and the workers.     *)
TypeOK ==
  /\ rows \subseteq IssueIds
  /\ issue \in [IssueIds -> IssueRow]
  /\ hashes \in [Hashes -> IssueIds \cup {None}]
  /\ seenBy \subseteq IssueIds \X Users
  /\ events \subseteq EventRow
  /\ lock \in [IssueIds -> Owners \cup {None}]
  /\ pendingUsers \in [Owners -> SUBSET (IssueIds \X Users)]
  /\ queue \in [Messages -> {"unsent", "queued", "running", "done", "failed"}]
  /\ deliveries \in [Messages -> Nat]
  /\ wk \in [Workers -> WorkerState]
  /\ now \in Nat
  /\ minted \subseteq IssueIds
  /\ ledger \subseteq EventRow
  /\ sent \in [IssueIds -> [created : Nat, regressed : Nat]]
  /\ told \in [Messages -> Nat]
  /\ reopened \in [IssueIds -> Nat]
  /\ dirty \subseteq IssueIds

(* A row lock has one holder and the holder knows it: the issue a worker   *)
(* is updating is locked by that worker, and never by two.                 *)
LockHeld ==
  \A w \in Workers : InTransaction(w) => lock[wk[w].issue] = w

(* A worker that is creating an issue is the only one creating the group,  *)
(* and the group is still empty when it commits.                           *)
CreatorAlone ==
  \A w \in Workers :
    InTransaction(w) /\ wk[w].created =>
      /\ wk[w].issue \notin minted
      /\ Group(wk[w].msg.hash) = {}
      /\ \A v \in Workers :
           InTransaction(v) /\ wk[v].created /\ wk[v].msg.hash = wk[w].msg.hash => v = w

(* What a worker read of the issue it found still holds when it commits:   *)
(* the row, its group, and whether it has to be reopened.                  *)
FinderCurrent ==
  \A w \in Workers :
    InTransaction(w) /\ ~wk[w].created =>
      /\ wk[w].issue \in rows
      /\ issue[wk[w].issue].hash = wk[w].msg.hash
      /\ wk[w].regressed <=> issue[wk[w].issue].status = "resolved"

(* times_seen of an issue equals its number of stored events, however many *)
(* workers store events of the group at once and wherever one crashes.     *)
CountsExact ==
  \A i \in rows : issue[i].times = Cardinality({e \in events : e.issue = i})

(* users_seen equals the number of distinct users recorded for the issue,  *)
(* although two workers may meet the same new user at the same time.       *)
UsersExact ==
  \A i \in rows : issue[i].users = Cardinality({u \in Users : <<i, u>> \in seenBy})

(* Both counters of every issue: times_seen is saved from the row read     *)
(* under the lock, users_seen by an UPDATE of its own when the user turns  *)
(* out to be new; concurrent workers and crashes leave both exact.         *)
CountersExact == CountsExact /\ UsersExact

(* The unique constraint on (project, primary_hash) holds across workers   *)
(* racing to create the first issue of a group.                            *)
OneIssuePerGroup ==
  \A i, j \in rows : issue[i].hash = issue[j].hash => i = j

(* A resolved issue has had no event since it was resolved: an event that  *)
(* commits after the user's click reopens it, whatever the interleaving.   *)
ResolvedMeansQuiet ==
  \A i \in rows : issue[i].status = "resolved" => i \notin dirty

(* The inductive invariant of concurrent event storage.                    *)
StoreInv ==
  /\ rows \subseteq minted
  /\ LockHeld /\ CreatorAlone /\ FinderCurrent
  /\ OneIssuePerGroup /\ ResolvedMeansQuiet

(* issue_created is sent at most once for an issue, issue_regressed at     *)
(* most once for each time an event reopened it, and event_stored at most  *)
(* once for each delivery of a message, although a worker may die, or a    *)
(* receiver raise, between any two of them and the message come again.     *)
NoDuplicateSignal ==
  /\ \A i \in IssueIds : sent[i].created <= 1 /\ sent[i].regressed <= reopened[i]
  /\ \A m \in Messages : told[m] <= deliveries[m]

(* Every accepted message is settled in the end, although workers crash    *)
(* and wait for one another and for maintenance.                           *)
EventuallySettled ==
  \A m \in Messages : queue[m] = "queued" ~> queue[m] \in {"done", "failed"}

(* Seen through its tables, the store is the abstract tracker: workers that *)
(* overlap, wait, crash and start again still observe events one by one.   *)
IssueOf(h) == CHOOSE i \in Group(h) : TRUE

groupStatus == [h \in Hashes |-> IF Group(h) = {} THEN None ELSE issue[IssueOf(h)].status]
groupCount  == [h \in Hashes |-> IF Group(h) = {} THEN 0 ELSE issue[IssueOf(h)].times]
groupPeople == [h \in Hashes |-> IF Group(h) = {} THEN {}
                                 ELSE {u \in Users : <<IssueOf(h), u>> \in seenBy}]

Tracker == INSTANCE IssueTracker
             WITH status <- groupStatus, count <- groupCount, people <- groupPeople

RefinesTracker == Tracker!TrackerSpec
=============================================================================
