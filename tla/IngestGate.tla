------------------------------ MODULE IngestGate ------------------------------
(***************************************************************************)
(* The ingest endpoint of one project and the workers behind it            *)
(* (backend/apps/ingest/views.py, auth.py, tasks.py): the DSN key is       *)
(* looked up through a Redis cache, then come the quota gate, the rate     *)
(* limit and one publish per item; a worker stores the event, then meters  *)
(* it.  Every await and every Redis command is a step of its own.          *)
(* One billing period; how the usage is counted is module UsageMeter.      *)
(***************************************************************************)
EXTENDS Integers, FiniteSetsExt

CONSTANTS
  Requests,     \* HTTP requests, each served once
  Workers,      \* Celery workers of the queue "ingest"
  None,         \* no cached key, no counter
  Minute,       \* one minute in ticks: the cache TTL and the rate window
  RateLimit,    \* INGEST_RATE_LIMIT_PER_MIN
  Quota,        \* Plan.included_events
  MaxItems,     \* event items of an envelope (bound)
  MaxFill,      \* longest time between reading the key and caching it (bound)
  MaxTime,      \* value at which the clock stops (bound)
  MaxToggles,   \* changes of the key's state (bound)
  MaxCrashes    \* workers that die (bound)

ASSUME GateAssumption ==
  /\ Minute \in Nat \ {0} /\ RateLimit \in Nat \ {0} /\ Quota \in Nat \ {0}
  /\ MaxItems \in Nat \ {0} /\ MaxFill \in Nat /\ MaxTime \in Nat /\ MaxToggles \in Nat
  /\ MaxCrashes \in Nat
  /\ None \notin Int

VARIABLES
  active,      \* ProjectKey.is_active
  keyCache,    \* Redis: what the row was, and when the entry expires
  rate,        \* Redis: the counter of each window
  rq,          \* the requests
  queue,       \* event tasks that wait for a worker
  wk,          \* the workers
  stored,      \* calls of store_event that committed
  used,        \* the usage counter of the organization
  crashes, toggles, now,
  changedAt,   \* history: when "active" last changed
  passes,      \* history: requests the rate limit let through, by window
  undone,      \* history: writes of a counter that undid others, by window
  awaited,     \* history: items of the requests let in that are not handled yet
  backlog,     \* history: most unmetered events at a quota check that passed
  again        \* history: deliveries of an event that was metered already

keyVars   == <<active, keyCache, changedAt, toggles>>
rateVars  == <<rate, passes, undone>>
workVars  == <<queue, wk, stored, used, crashes, again>>
quotaVars == <<awaited, backlog>>
gateVars  == <<keyVars, rateVars, workVars, quotaVars, rq, now>>

Windows == 0..(MaxTime \div Minute)
Window  == now \div Minute

NoEntry    == [found |-> None, expires |-> 0]
NewRequest == [pc |-> "new", items |-> 0, found |-> FALSE, at |-> 0,
               window |-> 0, count |-> 0]

GateInit ==
  /\ active \in BOOLEAN /\ keyCache = NoEntry /\ changedAt = 0 /\ toggles = 0
  /\ rate = [m \in Windows |-> None]
  /\ passes = [m \in Windows |-> 0] /\ undone = [m \in Windows |-> 0]
  /\ rq = [r \in Requests |-> NewRequest]
  /\ queue = 0 /\ wk = [w \in Workers |-> "idle"]
  /\ stored = 0 /\ used = 0 /\ crashes = 0 /\ again = 0
  /\ now = 0 /\ awaited = 0 /\ backlog = 0

-----------------------------------------------------------------------------
(* aresolve_project.                                                       *)

Answers(r) ==
  /\ rq' = [rq EXCEPT ![r] = [NewRequest EXCEPT !.pc = "answered"]]
  /\ awaited' = awaited - rq[r].items

Goes(r, pc) == rq' = [rq EXCEPT ![r].pc = pc]

(* Where a lookup leads: to the quota gate, or to 401; to 401 as well when *)
(* the URL names another project than the key's.                           *)
NextOf(found) == IF found THEN {"quota", "refused"} ELSE {"refused"}

Decides(r, found) ==
  \E pc \in NextOf(found) :
    rq' = [rq EXCEPT ![r].pc = pc, ![r].found = found, ![r].at = now]

(* Wrong: each use of an entry prolongs it.                                *)
LookUpProlongs(r) ==
  /\ rq[r].pc = "new"
  /\ IF keyCache.found # None /\ now < keyCache.expires
       THEN /\ Decides(r, keyCache.found)
            /\ keyCache' = [keyCache EXCEPT !.expires = now + Minute]
       ELSE Goes(r, "read") /\ UNCHANGED keyCache
  /\ UNCHANGED <<active, changedAt, toggles, rateVars, workVars, now, quotaVars>>

(* The request arrives with its items; a cached key, valid or not, decides.*)
LookUp(r) ==
  /\ rq[r].pc = "new"
  /\ IF keyCache.found # None /\ now < keyCache.expires
       THEN Decides(r, keyCache.found)
       ELSE Goes(r, "read")
  /\ UNCHANGED <<keyVars, rateVars, workVars, now, quotaVars>>

(* The row is read from the database ...                                   *)
ReadKey(r) ==
  /\ rq[r].pc = "read"
  /\ rq' = [rq EXCEPT ![r].pc = "fill", ![r].found = active, ![r].at = now]
  /\ UNCHANGED <<keyVars, rateVars, workVars, now, quotaVars>>

(* ... and cached, "no such key" included, whatever it is by now.          *)
FillKey(r) ==
  /\ rq[r].pc = "fill"
  /\ keyCache' = [found |-> rq[r].found, expires |-> now + Minute]
  /\ \E pc \in NextOf(rq[r].found) : Goes(r, pc)
  /\ UNCHANGED <<active, changedAt, toggles, rateVars, workVars, now, quotaVars>>

(* An administrator deactivates or activates the key; no cache entry goes. *)
ToggleKey ==
  /\ toggles < MaxToggles
  /\ toggles' = toggles + 1
  /\ active' = ~active
  /\ changedAt' = now
  /\ UNCHANGED <<keyCache, rateVars, workVars, rq, now, quotaVars>>

-----------------------------------------------------------------------------
(* The quota gate and the rate limit.                                      *)

(* Events that were let in and are not metered yet.                        *)
Unmetered ==
  queue + Cardinality({w \in Workers : wk[w] \in {"taken", "stored"}}) + awaited

(* aquota_exceeded reads the usage; the items of the request are counted   *)
(* only when workers have metered them.  429 when the quota is used up.    *)
CheckQuota(r) ==
  /\ rq[r].pc = "quota"
  /\ IF used >= Quota
       THEN Answers(r) /\ UNCHANGED backlog
       ELSE /\ \E n \in 0..MaxItems :
                 /\ rq' = [rq EXCEPT ![r] = [NewRequest EXCEPT !.pc = "rate", !.items = n]]
                 /\ awaited' = awaited + n
            /\ backlog' = Max({backlog, Unmetered})
  /\ UNCHANGED <<keyVars, rateVars, workVars, now>>

Counter(m) == IF rate[m] = None THEN 0 ELSE rate[m]

(* aincr of Django's cache is a read ...                                   *)
CountRequest(r) ==
  /\ rq[r].pc = "rate"
  /\ rq' = [rq EXCEPT ![r].pc = IF rate[Window] = None THEN "set" ELSE "bump",
                      ![r].window = Window, ![r].count = Counter(Window)]
  /\ UNCHANGED <<keyVars, rateVars, workVars, now, quotaVars>>

(* The counter of m becomes n, whatever others have made of it since.      *)
Writes(m, n) ==
  /\ rate' = [rate EXCEPT ![m] = n]
  /\ undone' = [undone EXCEPT ![m] = IF n = Counter(m) + 1 THEN @ ELSE @ + 1]

(* The rate limit lets the request through.                                *)
Passes(r) ==
  /\ passes' = [passes EXCEPT ![rq[r].window] = @ + 1]
  /\ rq' = [rq EXCEPT ![r].pc = "items", ![r].window = 0, ![r].count = 0]

(* Wrong: what was read is compared with the limit, not what was written.  *)
BumpComparesOld(r) ==
  /\ rq[r].pc = "bump"
  /\ Writes(rq[r].window, rq[r].count + 1)
  /\ IF rq[r].count > RateLimit
       THEN Answers(r) /\ UNCHANGED passes
       ELSE Passes(r) /\ UNCHANGED awaited
  /\ UNCHANGED <<keyVars, workVars, now, backlog>>

(* ... and a write: 429 when the count is over the limit.                  *)
BumpCounter(r) ==
  /\ rq[r].pc = "bump"
  /\ Writes(rq[r].window, rq[r].count + 1)
  /\ IF rq[r].count + 1 > RateLimit
       THEN Answers(r) /\ UNCHANGED passes
       ELSE Passes(r) /\ UNCHANGED awaited
  /\ UNCHANGED <<keyVars, workVars, now, backlog>>

(* aset when aincr found no counter: it starts at 1.                       *)
SetCounter(r) ==
  /\ rq[r].pc = "set"
  /\ Writes(rq[r].window, 1)
  /\ Passes(r)
  /\ UNCHANGED <<keyVars, workVars, now, quotaVars>>

-----------------------------------------------------------------------------
(* The items of the request.                                               *)

(* One item: published to the ingest queue, or sampled out or unreadable.  *)
SendItem(r) ==
  /\ rq[r].pc = "items" /\ rq[r].items > 0
  /\ rq' = [rq EXCEPT ![r].items = @ - 1]
  /\ queue' \in {queue, queue + 1}
  /\ awaited' = awaited - 1
  /\ UNCHANGED <<keyVars, rateVars, wk, stored, used, crashes, again, now, backlog>>

(* 202 after the last item, or earlier when a header line is unreadable or *)
(* the broker is down (500): what was published stays published.           *)
Answer(r) ==
  /\ rq[r].pc = "items"
  /\ Answers(r)
  /\ UNCHANGED <<keyVars, rateVars, workVars, now, backlog>>

-----------------------------------------------------------------------------
(* process_event: store, then meter, then acknowledge.                     *)

Moves(w, from, to) == wk[w] = from /\ wk' = [wk EXCEPT ![w] = to]

TakeTask(w) ==
  /\ queue > 0
  /\ Moves(w, "idle", "taken")
  /\ queue' = queue - 1
  /\ UNCHANGED <<keyVars, rateVars, stored, used, crashes, again, rq, now, quotaVars>>

(* store_event commits (module IssueStore).                                *)
StoreTask(w) ==
  /\ Moves(w, "taken", "stored")
  /\ stored' = stored + 1
  /\ UNCHANGED <<keyVars, rateVars, queue, used, crashes, again, rq, now, quotaVars>>

(* Wrong: the event is metered before it is stored.                        *)
MeterTaskEarly(w) ==
  /\ Moves(w, "taken", "metered")
  /\ used' = used + 1
  /\ UNCHANGED <<keyVars, rateVars, queue, stored, crashes, again, rq, now, quotaVars>>

(* record_event_usage; an exception there is logged and ignored.           *)
MeterTask(w) ==
  /\ Moves(w, "stored", "metered")
  /\ used' \in {used, used + 1}
  /\ UNCHANGED <<keyVars, rateVars, queue, stored, crashes, again, rq, now, quotaVars>>

(* The task ends; also when its project is gone or its event is rejected.  *)
EndTask(w) ==
  /\ Moves(w, "metered", "idle") \/ Moves(w, "taken", "idle")
  /\ UNCHANGED <<keyVars, rateVars, queue, stored, used, crashes, again, rq, now, quotaVars>>

(* The worker dies.  With its container gone, the broker delivers the task *)
(* again; when a process of the pool was killed, Celery acknowledges it.   *)
CrashTask(w) ==
  /\ crashes < MaxCrashes
  /\ wk[w] # "idle"
  /\ wk' = [wk EXCEPT ![w] = "idle"]
  /\ crashes' = crashes + 1
  /\ \/ /\ queue' = queue + 1
        /\ again' = IF wk[w] = "metered" THEN again + 1 ELSE again
     \/ UNCHANGED <<queue, again>>
  /\ UNCHANGED <<keyVars, rateVars, stored, used, rq, now, quotaVars>>

-----------------------------------------------------------------------------

(* A request whose reading of the key is MaxFill old caches it now.        *)
TickGate ==
  /\ now < MaxTime
  /\ \A r \in Requests : rq[r].pc = "fill" => now < rq[r].at + MaxFill
  /\ now' = now + 1
  /\ UNCHANGED <<keyVars, rateVars, workVars, rq, quotaVars>>

Request(r) ==
  \/ LookUp(r) \/ ReadKey(r) \/ FillKey(r) \/ CheckQuota(r)
  \/ CountRequest(r) \/ BumpCounter(r) \/ SetCounter(r) \/ SendItem(r) \/ Answer(r)

Task(w) == TakeTask(w) \/ StoreTask(w) \/ MeterTask(w) \/ EndTask(w) \/ CrashTask(w)

GateNext ==
  (\E r \in Requests : Request(r)) \/ (\E w \in Workers : Task(w)) \/ ToggleKey \/ TickGate

GateSpec == GateInit /\ [][GateNext]_gateVars

-----------------------------------------------------------------------------
(* Properties.                                                             *)

(* Type invariant of the caches, the counters, the requests, the workers.  *)
GateTypeOK ==
  /\ active \in BOOLEAN
  /\ keyCache \in [found : BOOLEAN \cup {None}, expires : Nat]
  /\ rate \in [Windows -> Nat \cup {None}]
  /\ rq \in [Requests -> [pc : {"new", "read", "fill", "quota", "rate", "set", "bump", "items",
                                "answered", "refused"},
                          items : 0..MaxItems, found : BOOLEAN, at : 0..MaxTime, window : Windows,
                          count : Nat]]
  /\ queue \in Nat
  /\ wk \in [Workers -> {"idle", "taken", "stored", "metered"}]
  /\ stored \in Nat /\ used \in Nat /\ crashes \in 0..MaxCrashes /\ toggles \in 0..MaxToggles /\ again \in Nat
  /\ now \in 0..MaxTime /\ changedAt \in 0..MaxTime
  /\ passes \in [Windows -> Nat] /\ undone \in [Windows -> Nat]
  /\ awaited \in Int /\ backlog \in Nat

Decided(r) == rq[r].pc \in {"quota", "refused"}

(* A request is let in or turned away by a key state that was true less    *)
(* than a minute before, plus the time a slow request holds what it read:  *)
(* a deactivated key stops working by then, an activated one starts.       *)
KeyDecisionFresh ==
  \A r \in Requests :
    Decided(r) /\ rq[r].found # active => rq[r].at < changedAt + MaxFill + Minute

(* Within a minute the limit is exceeded only by requests that overlap:    *)
(* each write that undoes others' counts lets at most RateLimit through    *)
(* again, and where none does the limit holds.                             *)
RateBounded == \A m \in Windows : passes[m] <= RateLimit * (1 + undone[m])

(* Usage runs over the quota by no more than the work in progress when the *)
(* last request was let in, the items of that request and redeliveries.    *)
OvershootBounded == used + Unmetered <= Quota - 1 + backlog + MaxItems + again

(* The two limits of the endpoint are exceeded by races only, and by no    *)
(* more than what raced.                                                   *)
LimitsBounded == RateBounded /\ OvershootBounded

(* An event that is metered was stored: an organization is never billed    *)
(* for an event that it cannot see, whichever worker dies when.            *)
BilledWasStored ==
  used + Cardinality({w \in Workers : wk[w] = "stored"}) <= stored
=============================================================================
